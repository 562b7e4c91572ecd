--------------------------- MODULE IndexWriter_proofs ---------------------------
(***************************************************************************)
(* Proofs about IndexWriter, for any processes, exports, identities,       *)
(* metadata and batches: the plan of a transaction is what happens in it,  *)
(* what is committed fits together, and each commit is one step of         *)
(* SyncLedger. The last part is about IndexSearch, which extends it.       *)
(***************************************************************************)
EXTENDS IndexSearch, SequenceTheorems, FiniteSetTheorems, WellFoundedInduction, TLAPS

----------------------------------------------------------------------------
(* Records written one after the other.                                    *)

LEMMA Greatest ==
  ASSUME NEW n \in Nat, NEW S \in SUBSET (1 .. n), S # {}
  PROVE  \E i \in S : \A j \in S : j <= i
<1> DEFINE T == {n - i : i \in S}
           Below == {pair \in Nat \X Nat : pair[1] < pair[2]}
<1>1. IsWellFoundedOn(Below, Nat)
  <2>1. OpToRel(<, Nat) = Below
    BY DEF OpToRel
  <2> QED
    BY <2>1, NatLessThanWellFounded
<1>2. T \in SUBSET Nat /\ T # {}
  <2>1. \A i \in S : n - i \in Nat
    OBVIOUS
  <2> QED
    BY <2>1
<1> HIDE DEF Below
<1>3. PICK k \in T : \A m \in T : ~(<<m, k>> \in Below)
  BY <1>1, <1>2, WFMin
<1>4. PICK i \in S : k = n - i
  BY <1>2
<1>5. ASSUME NEW j \in S PROVE j <= i
  <2>1. n - j \in T /\ n - j \in Nat /\ k \in Nat
    BY <1>2
  <2>2. ~(<<n - j, k>> \in Below)
    BY <1>3, <2>1
  <2>3. ~(n - j < k)
    BY <2>1, <2>2 DEF Below
  <2> QED
    BY <1>4, <2>3
<1> QED
  BY <1>5

\* The last record of an export is the one that none follows.
LEMMA LastFacts ==
  ASSUME NEW records, NEW n \in Nat, NEW e, Ledger!Mentions(records, e, n)
  PROVE  /\ Ledger!Last(records, e, n) \in 1 .. n
         /\ records[Ledger!Last(records, e, n)].export = e
         /\ \A j \in 1 .. n : records[j].export = e => j <= Ledger!Last(records, e, n)
<1> DEFINE S == {i \in 1 .. n : records[i].export = e}
<1>1. PICK k \in S : \A j \in S : j <= k
  <2>1. S \in SUBSET (1 .. n) /\ S # {}
    BY DEF Ledger!Mentions
  <2> QED
    BY <2>1, Greatest
<1> DEFINE P(i) == records[i].export = e /\ \A j \in i + 1 .. n : records[j].export # e
<1>2. P(k)
  BY <1>1
<1>3. \E i \in 1 .. n : P(i)
  BY <1>2
<1>4. Ledger!Last(records, e, n) = CHOOSE i \in 1 .. n : P(i)
  BY DEF Ledger!Last
<1>5. Ledger!Last(records, e, n) \in 1 .. n /\ P(Ledger!Last(records, e, n))
  BY <1>3, <1>4
<1> QED
  BY <1>5

LEMMA LastIs ==
  ASSUME NEW records, NEW n \in Nat, NEW i \in 1 .. n,
         \A j \in 1 .. n : records[j].export = records[i].export => j <= i
  PROVE  /\ Ledger!Mentions(records, records[i].export, n)
         /\ Ledger!Last(records, records[i].export, n) = i
<1>1. Ledger!Mentions(records, records[i].export, n)
  BY DEF Ledger!Mentions
<1>2. PICK k : k = Ledger!Last(records, records[i].export, n)
  OBVIOUS
<1>3. k \in 1 .. n /\ records[k].export = records[i].export /\ i <= k
  BY <1>1, <1>2, LastFacts
<1> QED
  BY <1>1, <1>2, <1>3

LEMMA RowsAtFirst ==
  ASSUME NEW rows \in [Export -> Row \cup {NoRow}], NEW records
  PROVE  Ledger!RowsAfter(rows, records, 0) = rows
  BY DEF Ledger!RowsAfter, Ledger!Mentions

\* The next record changes the row of its export, and no other.
LEMMA RowsAfterNext ==
  ASSUME NEW rows, NEW records, NEW n \in Nat
  PROVE  Ledger!RowsAfter(rows, records, n + 1) =
           [e \in Export |-> IF e = records[n + 1].export THEN Ledger!RowOf(records[n + 1])
                             ELSE Ledger!RowsAfter(rows, records, n)[e]]
<1>1. ASSUME NEW e \in Export, e = records[n + 1].export
      PROVE  Ledger!RowsAfter(rows, records, n + 1)[e] = Ledger!RowOf(records[n + 1])
  <2>1. n + 1 \in 1 .. n + 1 /\ n + 1 \in Nat
    OBVIOUS
  <2>2. \A j \in 1 .. n + 1 : j <= n + 1
    OBVIOUS
  <2>3. Ledger!Mentions(records, e, n + 1) /\ Ledger!Last(records, e, n + 1) = n + 1
    BY <1>1, <2>1, <2>2, LastIs
  <2> QED
    BY <2>3 DEF Ledger!RowsAfter
<1>2. ASSUME NEW e \in Export, e # records[n + 1].export
      PROVE  Ledger!RowsAfter(rows, records, n + 1)[e] = Ledger!RowsAfter(rows, records, n)[e]
  <2>1. Ledger!Mentions(records, e, n + 1) <=> Ledger!Mentions(records, e, n)
    BY <1>2 DEF Ledger!Mentions
  <2>2. CASE ~Ledger!Mentions(records, e, n)
    BY <2>1, <2>2 DEF Ledger!RowsAfter
  <2>3. CASE Ledger!Mentions(records, e, n)
    <3>1. PICK k : k = Ledger!Last(records, e, n)
      OBVIOUS
    <3>2. k \in 1 .. n /\ records[k].export = e /\ \A j \in 1 .. n : records[j].export = e => j <= k
      BY <2>3, <3>1, LastFacts
    <3>3. k \in 1 .. n + 1 /\ \A j \in 1 .. n + 1 : records[j].export = records[k].export => j <= k
      BY <1>2, <3>2
    <3>4. Ledger!Last(records, e, n + 1) = k
      BY <3>2, <3>3, LastIs
    <3> QED
      BY <2>1, <2>3, <3>1, <3>4 DEF Ledger!RowsAfter
  <2> QED
    BY <2>2, <2>3
<1> QED
  BY <1>1, <1>2 DEF Ledger!RowsAfter

LEMMA RowsAfterTypes ==
  ASSUME NEW rows \in [Export -> Row \cup {NoRow}], NEW records \in Seq(Message),
         NEW n \in 0 .. Len(records)
  PROVE  Ledger!RowsAfter(rows, records, n) \in [Export -> Row \cup {NoRow}]
<1>1. ASSUME NEW e \in Export
      PROVE  Ledger!RowsAfter(rows, records, n)[e] \in Row \cup {NoRow}
  <2>1. CASE ~Ledger!Mentions(records, e, n)
    BY <2>1 DEF Ledger!RowsAfter
  <2>2. CASE Ledger!Mentions(records, e, n)
    <3>1. Ledger!Last(records, e, n) \in 1 .. n
      BY <2>2, LastFacts
    <3>2. records[Ledger!Last(records, e, n)] \in Message
      BY <3>1
    <3> QED
      BY <2>2, <3>2 DEF Ledger!RowsAfter, Ledger!RowOf, Message, Row
  <2> QED
    BY <2>1, <2>2
<1> QED
  BY <1>1 DEF Ledger!RowsAfter

----------------------------------------------------------------------------
(* The invariant.                                                          *)

Unique(rows) ==
  \A e, f \in Export :
    rows[e] # NoRow /\ rows[f] # NoRow /\ rows[e].at = rows[f].at => e = f

Storable(rows) == \A e \in Export : rows[e] # NoRow => rows[e].meta \notin Unstorable

\* What a transaction may see.
Fits(t) == t \in Tables /\ Unique(t.rows) /\ Storable(t.rows)

\* What is planned of a record is right, if these are the rows when its turn comes.
Right(rows, r, planned) ==
  /\ r.kind = "good" /\ Ledger!Free(rows, r)
  /\ planned = "inserted" <=> rows[r.export] = NoRow
  /\ planned = "unchanged" => rows[r.export] = Ledger!RowOf(r)

Clean(planned, n) == \A i \in 1 .. n : planned[i] # "failed"

\* A plan is right as far as nothing in it fails.
PlanHolds(rows, records, planned) ==
  \A j \in DOMAIN planned :
    Clean(planned, j) => Right(Ledger!RowsAfter(rows, records, j - 1), records[j], planned[j])

\* To the planner rows are as if what it has planned had been done.
Mirror(p, rows) ==
  /\ \A e \in Export :
       /\ Existing(p, e) = NoRow <=> rows[e] = NoRow
       /\ rows[e] # NoRow => Existing(p, e).at = rows[e].at /\ Existing(p, e).meta = rows[e].meta
  /\ \A i \in Identity, e \in Export :
       CurrentOwner(p, i) = e <=> rows[e] # NoRow /\ rows[e].at = i

\* The lock, and what no process has outside of its transaction.
LockInv(p) ==
  /\ writer = p => pc[p] \in {"write", "commit"} /\ ~stale[p]
  /\ pc[p] \notin {"replan", "write", "commit"} => tables[p] = None
  /\ tables[p] = None => ~stale[p]
  /\ pc[p] \notin {"write", "commit"} => next[p] = 1
  /\ pc[p] \in {"idle", "done"} => plan[p] = <<>>
  /\ Len(plan[p]) <= Len(Messages(p)) /\ next[p] <= Len(Messages(p)) + 1
  /\ pc[p] \in {"replan", "write", "commit"} =>
       \A i \in DOMAIN Messages(p) : MapperAccepts(Messages(p)[i])

ReplanInv(p) ==
  pc[p] = "replan" =>
    /\ plan[p] = <<>> =>
         tables[p] = None /\ states[p] = NothingRead /\ owners[p] = NobodyRead
    /\ plan[p] # <<>> =>
         /\ Fits(tables[p]) /\ (stale[p] \/ tables[p] = db)
         /\ PlanHolds(tables[p].rows, Messages(p), plan[p])
         /\ Clean(plan[p], Len(plan[p])) =>
              Mirror(p, Ledger!RowsAfter(tables[p].rows, Messages(p), Len(plan[p])))

\* Written so far, of the tables the transaction began with.
Written(p, base, n) ==
  /\ Clean(plan[p], n)
  /\ \A i \in 1 .. n : Messages(p)[i].meta \notin Unstorable
  /\ tables[p] = [base EXCEPT !.rows = Ledger!RowsAfter(base.rows, Messages(p), n)]

WriteInv(p) ==
  pc[p] = "write" =>
    /\ Len(plan[p]) = Len(Messages(p))
    /\ Messages(p) = <<>> => tables[p] = None
    /\ Messages(p) # <<>> =>
         /\ Fits(tables[p])
         /\ \E base \in Tables :
              /\ Fits(base) /\ (stale[p] \/ base = db)
              /\ PlanHolds(base.rows, Messages(p), plan[p])
              /\ counts[p]["failed"] = 0 => Written(p, base, next[p] - 1)

\* What db becomes.
Applied(b) ==
  [rows |-> Ledger!RowsAfter(db.rows, b.messages, Len(b.messages)),
   decided |-> Ledger!DecisionsAfter(db.decided, b.messages),
   history |-> db.history \cup
                 {<<b.messages[i].export, b.messages[i].at>> : i \in DOMAIN b.messages},
   checkpoint |-> b.cursor]

CommitInv(p) ==
  pc[p] = "commit" =>
    /\ writer = p /\ Ledger!Acceptable(db.rows, Messages(p))
    /\ tables[p] = Applied(run[p].batch) /\ Fits(tables[p])

Total(p) ==
  counts[p]["inserted"] + counts[p]["updated"] + counts[p]["unchanged"] + counts[p]["failed"]

CountInv(p) ==
  /\ pc[p] \in {"plan", "replan", "write"} =>
       \A i \in DOMAIN plan[p] : plan[p][i] = "rejected" <=> ~MapperAccepts(Messages(p)[i])
  /\ pc[p] \in {"replan", "commit", "done"} => Total(p) + Rejections(p) = Len(Messages(p))
  /\ pc[p] = "write" => Total(p) = next[p] - 1

\* The counts of the first plan, which the result has when a savepoint fails.
PlannedTotal(p) ==
  run[p].planned["inserted"] + run[p].planned["updated"] + run[p].planned["unchanged"]
    + run[p].planned["failed"]

PlannedInv(p) ==
  pc[p] \in {"replan", "write"} => PlannedTotal(p) + Rejections(p) = Len(Messages(p))

\* The rows of the batch of the checkpoint are those of its last records.
CheckpointInv ==
  \A b \in Batches : \A i \in DOMAIN b.messages :
    /\ db.checkpoint = b.cursor
    /\ \A j \in DOMAIN b.messages : b.messages[j].export = b.messages[i].export => j <= i
    => db.rows[b.messages[i].export] = Ledger!RowOf(b.messages[i])

ProcessInv(p) ==
  LockInv(p) /\ ReplanInv(p) /\ WriteInv(p) /\ CommitInv(p) /\ CountInv(p)
  /\ PlannedInv(p)

WriterInv ==
  /\ TypeOK /\ Fits(db) /\ IndexIsCoherent /\ CheckpointInv
  /\ \A p \in Process : ProcessInv(p)

----------------------------------------------------------------------------
(* Types.                                                                  *)

Outcome == Action \cup {"rejected"}

\* Where the planner reads.
LEMMA ViewFits ==
  ASSUME WriterInv, NEW p \in Process, pc[p] \in {"plan", "replan"}
  PROVE  Fits(View(p))
  BY DEF WriterInv, ProcessInv, ReplanInv, View

LEMMA LookupTypes ==
  ASSUME TypeOK, NEW p \in Process, View(p) \in Tables
  PROVE  /\ \A e \in Export : Existing(p, e) \in State \cup {NoRow}
         /\ \A i \in Identity : CurrentOwner(p, i) \in Export \cup {Nobody}
<1>1. ASSUME NEW e \in Export
      PROVE  Existing(p, e) \in State \cup {NoRow}
  <2>1. View(p).rows[e] \in Row \cup {NoRow}
    BY DEF Tables
  <2>2. Load(View(p), e) \in State \cup {NoRow}
    BY <2>1 DEF Load, State, Row
  <2>3. states[p][e] \in State \cup {NoRow, Unread}
    BY DEF TypeOK
  <2> QED
    BY <2>2, <2>3 DEF Existing
<1>2. ASSUME NEW i \in Identity
      PROVE  CurrentOwner(p, i) \in Export \cup {Nobody}
  <2>1. Owner(View(p), i) \in Export \cup {Nobody}
    <3> DEFINE owning == {e \in Export : View(p).rows[e] # NoRow /\ View(p).rows[e].at = i}
    <3>1. CASE owning = {}
      BY <3>1 DEF Owner
    <3>2. CASE owning # {}
      <4>1. (CHOOSE e \in owning : TRUE) \in Export
        BY <3>2
      <4> QED
        BY <3>2, <4>1 DEF Owner
    <3> QED
      BY <3>1, <3>2
  <2>2. owners[p][i] \in Export \cup {Nobody, Unread}
    BY DEF TypeOK
  <2> QED
    BY <2>1, <2>2 DEF CurrentOwner
<1> QED
  BY <1>1, <1>2

\* The messages of a run.
LEMMA MessageTypes ==
  ASSUME TypeOK, NEW p \in Process
  PROVE  /\ Messages(p) \in Seq(Message) /\ Len(Messages(p)) \in Nat
         /\ DOMAIN Messages(p) = 1 .. Len(Messages(p))
         /\ plan[p] \in Seq(Outcome) /\ Len(plan[p]) \in Nat
         /\ DOMAIN plan[p] = 1 .. Len(plan[p])
         /\ next[p] \in Nat \ {0}
         /\ run[p].batch \in Batches
  BY BatchAssumption DEF TypeOK, Messages, Outcome

NothingTypes == /\ NothingRead \in [Export -> State \cup {NoRow, Unread}]
                /\ NobodyRead \in [Identity -> Export \cup {Nobody, Unread}]
                /\ NoCounts \in [Action -> Nat]
                /\ NoRun \in [batch : Batches, dry : BOOLEAN, planned : [Action -> Nat]]
                /\ <<>> \in Seq(Action \cup {"rejected"})

LEMMA NothingTypesHold == NothingTypes
<1>1. NoCounts \in [Action -> Nat]
  BY DEF NoCounts
<1>2. NoRun \in [batch : Batches, dry : BOOLEAN, planned : [Action -> Nat]]
  BY <1>1, BatchAssumption DEF NoRun
<1> QED
  BY <1>1, <1>2 DEF NothingTypes, NothingRead, NobodyRead

LEMMA SummaryTypes ==
  ASSUME TypeOK, NEW p \in Process
  PROVE  Summary(p) \in [Action -> Nat]
<1>1. ASSUME NEW a \in Action
      PROVE  Cardinality({i \in DOMAIN plan[p] : plan[p][i] = a}) \in Nat
  <2>1. IsFiniteSet(DOMAIN plan[p])
    BY MessageTypes, FS_Interval
  <2> QED
    BY <2>1, FS_Subset, FS_CardinalityType
<1> QED
  BY <1>1 DEF Summary

LEMMA PlanRecordTypes ==
  ASSUME WriterInv, NEW p \in Process, PlanRecord(p)
  PROVE  /\ plan' \in [Process -> Seq(Action \cup {"rejected"})]
         /\ states' \in [Process -> [Export -> State \cup {NoRow, Unread}]]
         /\ owners' \in [Process -> [Identity -> Export \cup {Nobody, Unread}]]
         /\ tables' \in [Process -> Tables \cup {None}]
         /\ stale' \in [Process -> BOOLEAN]
<1> DEFINE r == Messages(p)[Len(plan[p]) + 1]
<1>1. TypeOK /\ db \in Tables /\ Fits(View(p))
  BY ViewFits DEF WriterInv, Fits, PlanRecord
<1>2. r \in Message
  <2>1. Len(plan[p]) + 1 \in 1 .. Len(Messages(p))
    BY <1>1, MessageTypes DEF PlanRecord
  <2> QED
    BY <1>1, <2>1, MessageTypes
<1>3. r.export \in Export /\ r.at \in Identity /\ StateOf(r) \in State
  BY <1>2 DEF Message, StateOf, State
<1>4. /\ \A e \in Export : Existing(p, e) \in State \cup {NoRow}
      /\ \A i \in Identity : CurrentOwner(p, i) \in Export \cup {Nobody}
  BY <1>1, LookupTypes DEF Fits
<1>5. PlannedAction(p, r) \in Action \cup {"rejected"}
  BY DEF PlannedAction, Action
<1>6. plan' \in [Process -> Seq(Action \cup {"rejected"})]
  <2>1. plan' = [plan EXCEPT ![p] = Append(plan[p], PlannedAction(p, r))]
    BY DEF PlanRecord
  <2>2. Append(plan[p], PlannedAction(p, r)) \in Seq(Action \cup {"rejected"})
    BY <1>1, <1>5 DEF TypeOK
  <2> QED
    BY <1>1, <2>1, <2>2 DEF TypeOK
<1>7. OwnersAfter(p, r) \in [Identity -> Export \cup {Nobody, Unread}]
  BY <1>1, <1>3 DEF OwnersAfter, TypeOK
<1> HIDE DEF r
<1>8. \/ UNCHANGED <<states, owners>>
      \/ /\ states' = [states EXCEPT ![p][r.export] = Existing(p, r.export)]
         /\ owners' = [owners EXCEPT ![p][r.at] = CurrentOwner(p, r.at)]
      \/ /\ states' = [states EXCEPT ![p][r.export] = StateOf(r)]
         /\ owners' = [owners EXCEPT ![p] = OwnersAfter(p, r)]
  BY DEF PlanRecord, r
<1>9. /\ states' \in [Process -> [Export -> State \cup {NoRow, Unread}]]
      /\ owners' \in [Process -> [Identity -> Export \cup {Nobody, Unread}]]
  <2> DEFINE S == [Export -> State \cup {NoRow, Unread}]
             O == [Identity -> Export \cup {Nobody, Unread}]
  <2>1. states \in [Process -> S] /\ owners \in [Process -> O]
    BY <1>1 DEF TypeOK
  <2>2. ASSUME NEW v \in State \cup {NoRow}
        PROVE  [states EXCEPT ![p][r.export] = v] \in [Process -> S]
    <3>1. [states[p] EXCEPT ![r.export] = v] \in S
      BY <1>3, <2>1
    <3> QED
      BY <2>1, <3>1
  <2>3. ASSUME NEW o \in Export \cup {Nobody}
        PROVE  [owners EXCEPT ![p][r.at] = o] \in [Process -> O]
    <3>1. [owners[p] EXCEPT ![r.at] = o] \in O
      BY <1>3, <2>1
    <3> QED
      BY <2>1, <3>1
  <2>4. ASSUME NEW f \in O
        PROVE  [owners EXCEPT ![p] = f] \in [Process -> O]
    BY <2>1
  <2>5. OwnersAfter(p, r) \in O
    BY <1>7
  <2> HIDE DEF S, O
  <2>6. [states EXCEPT ![p][r.export] = Existing(p, r.export)] \in [Process -> S]
    BY <1>3, <1>4, <2>2
  <2>7. [states EXCEPT ![p][r.export] = StateOf(r)] \in [Process -> S]
    BY <1>3, <2>2
  <2>8. [owners EXCEPT ![p][r.at] = CurrentOwner(p, r.at)] \in [Process -> O]
    BY <1>3, <1>4, <2>3
  <2>9. [owners EXCEPT ![p] = OwnersAfter(p, r)] \in [Process -> O]
    BY <2>4, <2>5
  <2>10. states' \in [Process -> S]
    BY <1>8, <2>1, <2>6, <2>7
  <2>11. owners' \in [Process -> O]
    BY <1>8, <2>1, <2>8, <2>9
  <2> QED
    BY <2>10, <2>11 DEF S, O
<1>10. tables' \in [Process -> Tables \cup {None}] /\ stale' \in [Process -> BOOLEAN]
  <2>1. tables \in [Process -> Tables \cup {None}] /\ stale \in [Process -> BOOLEAN]
    BY <1>1 DEF TypeOK
  <2>2. \/ tables' = [tables EXCEPT ![p] = db] /\ stale' = [stale EXCEPT ![p] = FALSE]
        \/ UNCHANGED <<tables, stale>>
    BY DEF PlanRecord
  <2> QED
    BY <1>1, <2>1, <2>2
<1> QED
  BY <1>6, <1>9, <1>10

LEMMA WritingFacts ==
  ASSUME WriterInv, NEW p \in Process, pc[p] = "write", next[p] <= Len(plan[p])
  PROVE  /\ Fits(tables[p]) /\ next[p] \in DOMAIN Messages(p) /\ next[p] \in DOMAIN plan[p]
         /\ Messages(p) # <<>> /\ Len(plan[p]) = Len(Messages(p))
         /\ Messages(p)[next[p]] \in Message
<1>1. TypeOK /\ WriteInv(p)
  BY DEF WriterInv, ProcessInv
<1>2. Len(plan[p]) = Len(Messages(p)) /\ next[p] \in 1 .. Len(Messages(p))
  BY <1>1, MessageTypes DEF WriteInv
<1>3. next[p] \in DOMAIN Messages(p) /\ next[p] \in DOMAIN plan[p] /\ Messages(p) # <<>>
  BY <1>1, <1>2, MessageTypes
<1>4. Messages(p)[next[p]] \in Message
  BY <1>1, <1>2, MessageTypes
<1> QED
  BY <1>1, <1>2, <1>3, <1>4 DEF WriteInv

LEMMA PutTypes ==
  ASSUME NEW rows \in [Export -> Row \cup {NoRow}], NEW r \in Message
  PROVE  Put(rows, r) \in [Export -> Row \cup {NoRow}]
<1>1. [at |-> r.at, meta |-> r.meta] \in Row /\ r.export \in Export
  BY DEF Row, Message
<1> QED
  BY <1>1 DEF Put

\* A transaction sees the rows it wrote, and all else as before.
LEMMA WriteEffect ==
  ASSUME WriterInv, NEW p \in Process, Write(p)
  PROVE  LET r == Messages(p)[next[p]] IN
         /\ Fits(tables[p]) /\ r \in Message
         /\ tables'[p] = [tables[p] EXCEPT !.rows = Put(@, r)] /\ tables'[p] \in Tables
         /\ \A q \in Process \ {p} : tables'[q] = tables[q]
         /\ tables' \in [Process -> Tables \cup {None}]
<1> DEFINE r == Messages(p)[next[p]]
<1>1. TypeOK /\ tables \in [Process -> Tables \cup {None}]
  BY DEF WriterInv, TypeOK
<1>2. Fits(tables[p]) /\ r \in Message
  BY WritingFacts DEF Write
<1>3. tables' = [tables EXCEPT ![p].rows = Put(@, r)]
  BY DEF Write
<1> HIDE DEF r
<1>4. tables'[p] = [tables[p] EXCEPT !.rows = Put(@, r)]
  BY <1>1, <1>3
<1>5. tables'[p] \in Tables
  <2>1. tables[p] \in Tables /\ Put(tables[p].rows, r) \in [Export -> Row \cup {NoRow}]
    BY <1>2, PutTypes DEF Fits, Tables
  <2> QED
    BY <1>4, <2>1 DEF Tables
<1>6. \A q \in Process \ {p} : tables'[q] = tables[q]
  BY <1>1, <1>3
<1>7. tables' \in [Process -> Tables \cup {None}]
  BY <1>1, <1>3, <1>5, <1>6
<1> QED
  BY <1>2, <1>4, <1>5, <1>6, <1>7 DEF r

\* The two ways to say which record is the last, and what is decided then.
LEMMA DecideIs ==
  ASSUME TypeOK, NEW p \in Process, NEW decided
  PROVE  Decide(p, decided) = Ledger!DecisionsAfter(decided, Messages(p))
<1> DEFINE ms == Messages(p)
           n == Len(ms)
<1>1. n \in Nat /\ DOMAIN ms = 1 .. n
  BY MessageTypes
<1>2. \A e \in Export : e \in Mentioned(p) <=> Ledger!Mentions(ms, e, n)
  BY <1>1 DEF Mentioned, Ledger!Mentions
<1>3. ASSUME NEW e \in Export, Ledger!Mentions(ms, e, n)
      PROVE  Last(p, e) = Ledger!Last(ms, e, n)
  <2> DEFINE k == Ledger!Last(ms, e, n)
             P(i) == ms[i].export = e /\ \A j \in 1 .. n : ms[j].export = e => j <= i
  <2>1. k \in 1 .. n /\ P(k)
    BY <1>1, <1>3, LastFacts
  <2>2. Last(p, e) = CHOOSE i \in 1 .. n : P(i)
    BY <1>1 DEF Last
  <2> HIDE DEF k
  <2>3. Last(p, e) \in 1 .. n /\ P(Last(p, e))
    BY <2>1, <2>2
  <2>4. Last(p, e) <= k /\ k <= Last(p, e)
    BY <2>1, <2>3
  <2> QED
    BY <1>1, <2>1, <2>3, <2>4 DEF k
<1> HIDE DEF ms, n
<1>4. ASSUME NEW e \in Export
      PROVE  Decide(p, decided)[e] = Ledger!DecisionsAfter(decided, Messages(p))[e]
  BY <1>2, <1>3 DEF Decide, Ledger!DecisionsAfter, ms, n
<1> QED
  BY <1>4 DEF Decide, Ledger!DecisionsAfter

LEMMA DecisionsAfterTypes ==
  ASSUME NEW decided \in [Export -> Meta \cup {None}], NEW records \in Seq(Message)
  PROVE  Ledger!DecisionsAfter(decided, records) \in [Export -> Meta \cup {None}]
<1> DEFINE n == Len(records)
<1>1. ASSUME NEW e \in Export, Ledger!Mentions(records, e, n)
      PROVE  records[Ledger!Last(records, e, n)].meta \in Meta
  <2>1. Ledger!Last(records, e, n) \in 1 .. n
    BY <1>1, LastFacts
  <2>2. records[Ledger!Last(records, e, n)] \in Message
    BY <2>1
  <2> QED
    BY <2>2 DEF Message
<1> QED
  BY <1>1 DEF Ledger!DecisionsAfter

LEMMA PersistTypes ==
  ASSUME WriterInv, NEW p \in Process, Persist(p)
  PROVE  /\ tables'[p] = [rows |-> Snapshot(p).rows,
                          decided |-> Ledger!DecisionsAfter(Snapshot(p).decided, Messages(p)),
                          history |-> Snapshot(p).history \cup Observed(p),
                          checkpoint |-> run[p].batch.cursor]
         /\ Snapshot(p) \in Tables /\ tables'[p] \in Tables
         /\ \A q \in Process \ {p} : tables'[q] = tables[q]
         /\ tables' \in [Process -> Tables \cup {None}]
<1> DEFINE new == [rows |-> Snapshot(p).rows,
                   decided |-> Ledger!DecisionsAfter(Snapshot(p).decided, Messages(p)),
                   history |-> Snapshot(p).history \cup Observed(p),
                   checkpoint |-> run[p].batch.cursor]
<1>1. TypeOK /\ tables \in [Process -> Tables \cup {None}] /\ WriteInv(p)
  BY DEF WriterInv, ProcessInv, TypeOK
<1>2. Snapshot(p) \in Tables
  BY <1>1 DEF Snapshot, WriteInv, Persist, Fits, TypeOK
<1>3. tables' = [tables EXCEPT ![p] = new]
  BY <1>1, DecideIs DEF Persist
<1>4. new \in Tables
  <2>1. Ledger!DecisionsAfter(Snapshot(p).decided, Messages(p)) \in [Export -> Meta \cup {None}]
    BY <1>1, <1>2, MessageTypes, DecisionsAfterTypes DEF Tables
  <2>2. Observed(p) \subseteq Export \X Identity
    <3>1. \A i \in DOMAIN Messages(p) : Messages(p)[i] \in Message
      BY <1>1, MessageTypes
    <3> QED
      BY <3>1 DEF Observed, Message
  <2>3. run[p].batch.cursor \in {b.cursor : b \in Batches}
    BY <1>1, MessageTypes
  <2> QED
    BY <1>2, <2>1, <2>2, <2>3 DEF Tables
<1> HIDE DEF new
<1> QED
  BY <1>1, <1>2, <1>3, <1>4 DEF new

LEMMA ForgetTypes ==
  ASSUME TypeOK, NEW p \in Process, Forget(p)
  PROVE  /\ plan' \in [Process -> Seq(Action \cup {"rejected"})]
         /\ states' \in [Process -> [Export -> State \cup {NoRow, Unread}]]
         /\ owners' \in [Process -> [Identity -> Export \cup {Nobody, Unread}]]
         /\ plan'[p] = <<>> /\ states'[p] = NothingRead /\ owners'[p] = NobodyRead
         /\ \A q \in Process \ {p} :
              plan'[q] = plan[q] /\ states'[q] = states[q] /\ owners'[q] = owners[q]
<1> DEFINE S == [Export -> State \cup {NoRow, Unread}]
           O == [Identity -> Export \cup {Nobody, Unread}]
           P == Seq(Action \cup {"rejected"})
<1>1. states \in [Process -> S] /\ owners \in [Process -> O] /\ plan \in [Process -> P]
  BY DEF TypeOK
<1>2. NothingRead \in S /\ NobodyRead \in O /\ <<>> \in P
  BY NothingTypesHold DEF NothingTypes
<1>3. /\ plan' = [plan EXCEPT ![p] = <<>>] /\ states' = [states EXCEPT ![p] = NothingRead]
      /\ owners' = [owners EXCEPT ![p] = NobodyRead]
  BY DEF Forget
<1> HIDE DEF S, O, P
<1>4. states' \in [Process -> S] /\ owners' \in [Process -> O] /\ plan' \in [Process -> P]
  BY <1>1, <1>2, <1>3
<1>5. /\ plan'[p] = <<>> /\ states'[p] = NothingRead /\ owners'[p] = NobodyRead
      /\ \A q \in Process \ {p} :
           plan'[q] = plan[q] /\ states'[q] = states[q] /\ owners'[q] = owners[q]
  BY <1>1, <1>3
<1> QED
  BY <1>4, <1>5 DEF S, O, P

LEMMA DropTypes ==
  ASSUME TypeOK, NEW p \in Process, Drop(p)
  PROVE  /\ tables' \in [Process -> Tables \cup {None}] /\ stale' \in [Process -> BOOLEAN]
         /\ writer' \in Process \cup {Nobody} /\ UNCHANGED db
         /\ tables'[p] = None /\ stale'[p] = FALSE /\ writer' # p
         /\ \A q \in Process \ {p} : /\ tables'[q] = tables[q] /\ stale'[q] = stale[q]
                                     /\ writer' = q <=> writer = q
<1>1. /\ tables \in [Process -> Tables \cup {None}] /\ stale \in [Process -> BOOLEAN]
      /\ writer \in Process \cup {Nobody} /\ Nobody \notin Process
  BY ValueAssumption DEF TypeOK
<1>2. /\ tables' = [tables EXCEPT ![p] = None] /\ stale' = [stale EXCEPT ![p] = FALSE]
      /\ writer' = (IF writer = p THEN Nobody ELSE writer) /\ UNCHANGED db
  BY DEF Drop
<1> QED
  BY <1>1, <1>2

LEMMA FinishTypes ==
  ASSUME TypeOK, NEW p \in Process, Finish(p)
  PROVE  /\ pc' \in [Process -> {"idle", "plan", "replan", "write", "commit", "done"}]
         /\ next' \in [Process -> Nat \ {0}] /\ UNCHANGED <<run, counts>>
         /\ pc'[p] = "done" /\ next'[p] = 1
         /\ \A q \in Process \ {p} : pc'[q] = pc[q] /\ next'[q] = next[q]
  BY DEF TypeOK, Finish, Goto

LEMMA LeaveTypes ==
  ASSUME TypeOK, NEW p \in Process, Leave(p)
  PROVE  /\ pc' \in [Process -> {"idle", "plan", "replan", "write", "commit", "done"}]
         /\ next' \in [Process -> Nat \ {0}]
         /\ run' \in [Process -> [batch : Batches, dry : BOOLEAN, planned : [Action -> Nat]]]
         /\ counts' \in [Process -> [Action -> Nat]]
         /\ pc'[p] = "idle" /\ next'[p] = 1 /\ run'[p] = NoRun
         /\ \A q \in Process \ {p} : /\ pc'[q] = pc[q] /\ next'[q] = next[q]
                                     /\ run'[q] = run[q] /\ counts'[q] = counts[q]
<1>1. /\ pc \in [Process -> {"idle", "plan", "replan", "write", "commit", "done"}]
      /\ next \in [Process -> Nat \ {0}]
      /\ run \in [Process -> [batch : Batches, dry : BOOLEAN, planned : [Action -> Nat]]]
      /\ counts \in [Process -> [Action -> Nat]]
  BY DEF TypeOK
<1>2. NoRun \in [batch : Batches, dry : BOOLEAN, planned : [Action -> Nat]] /\ NoCounts \in [Action -> Nat]
  BY NothingTypesHold DEF NothingTypes
<1>3. /\ pc' = [pc EXCEPT ![p] = "idle"] /\ next' = [next EXCEPT ![p] = 1]
      /\ run' = [run EXCEPT ![p] = NoRun] /\ counts' = [counts EXCEPT ![p] = NoCounts]
  BY DEF Leave, Goto
<1> QED
  BY <1>1, <1>2, <1>3

LEMMA CountTypes ==
  ASSUME TypeOK, NEW p \in Process, NEW outcome \in Action, Count(p, outcome)
  PROVE  /\ counts' \in [Process -> [Action -> Nat]] /\ next' \in [Process -> Nat \ {0}]
         /\ counts'[p] = [counts[p] EXCEPT ![outcome] = @ + 1] /\ next'[p] = next[p] + 1
         /\ \A q \in Process \ {p} : counts'[q] = counts[q] /\ next'[q] = next[q]
<1>1. counts \in [Process -> [Action -> Nat]] /\ next \in [Process -> Nat \ {0}]
  BY DEF TypeOK
<1>2. counts' = [counts EXCEPT ![p][outcome] = @ + 1] /\ next' = [next EXCEPT ![p] = @ + 1]
  BY DEF Count
<1>3. [counts[p] EXCEPT ![outcome] = @ + 1] \in [Action -> Nat]
  BY <1>1
<1> QED
  BY <1>1, <1>2, <1>3

\* What a step leaves as it is of a process that does not take it.
Same(q) ==
  /\ pc'[q] = pc[q] /\ run'[q] = run[q] /\ plan'[q] = plan[q] /\ next'[q] = next[q]
  /\ states'[q] = states[q] /\ owners'[q] = owners[q] /\ tables'[q] = tables[q]
  /\ counts'[q] = counts[q]
  /\ writer' = q <=> writer = q

OthersSame(p) == \A q \in Process \ {p} : Same(q) /\ stale'[q] = stale[q]

\* The types of all that do not concern the length of a batch.
PlainTypes ==
  /\ db \in Tables
  /\ writer \in Process \cup {Nobody}
  /\ pc \in [Process -> {"idle", "plan", "replan", "write", "commit", "done"}]
  /\ run \in [Process -> [batch : Batches, dry : BOOLEAN, planned : [Action -> Nat]]]
  /\ plan \in [Process -> Seq(Action \cup {"rejected"})]
  /\ states \in [Process -> [Export -> State \cup {NoRow, Unread}]]
  /\ owners \in [Process -> [Identity -> Export \cup {Nobody, Unread}]]
  /\ tables \in [Process -> Tables \cup {None}]
  /\ stale \in [Process -> BOOLEAN]
  /\ next \in [Process -> Nat \ {0}]
  /\ counts \in [Process -> [Action -> Nat]]

LEMMA TypesFit == TypeOK <=> PlainTypes /\ \A p \in Process : next[p] <= Len(Messages(p)) + 1
  BY DEF TypeOK, PlainTypes

----------------------------------------------------------------------------
(* Steps of one process.                                                   *)

\* The first plan is made before the second begins.
LEMMA PlannedStays ==
  ASSUME NEW q \in Process, ProcessInv(q), run'[q] = run[q],
         pc'[q] \in {"replan", "write"} => pc[q] \in {"replan", "write"}
  PROVE  PlannedInv(q)'
  BY DEF ProcessInv, PlannedInv, PlannedTotal, Rejections, Messages

\* Of another process nothing changes, unless it is the database.
LEMMA OtherKeeps ==
  ASSUME WriterInv, NEW q \in Process, db' = db, Same(q), stale'[q] = stale[q]
  PROVE  ProcessInv(q)'
<1>1. ProcessInv(q) /\ Messages(q)' = Messages(q)
  BY DEF WriterInv, Same, Messages
<1>2. LockInv(q)'
  BY <1>1 DEF ProcessInv, LockInv, Same
<1>3. /\ \A e : Existing(q, e)' = Existing(q, e)
      /\ \A i : CurrentOwner(q, i)' = CurrentOwner(q, i)
  BY DEF Same, Existing, CurrentOwner, View
<1>4. ReplanInv(q)'
  BY <1>1, <1>3 DEF ProcessInv, ReplanInv, Same, Mirror
<1>5. WriteInv(q)'
  BY <1>1 DEF ProcessInv, WriteInv, Written, Same
<1>6. CommitInv(q)'
  BY <1>1 DEF ProcessInv, CommitInv, Applied, Same
<1>7. CountInv(q)'
  BY <1>1 DEF ProcessInv, CountInv, Total, Rejections, Same
<1>8. PlannedInv(q)'
  BY <1>1, PlannedStays DEF Same
<1> QED
  BY <1>2, <1>4, <1>5, <1>6, <1>7, <1>8 DEF ProcessInv

LEMMA LocalStep ==
  ASSUME WriterInv, NEW p \in Process, db' = db, PlainTypes', OthersSame(p), ProcessInv(p)'
  PROVE  WriterInv'
<1>1. \A q \in Process : ProcessInv(q)'
  BY OtherKeeps DEF OthersSame
<1>2. TypeOK'
  BY <1>1, TypesFit DEF ProcessInv, LockInv, TypeOK, PlainTypes
<1>3. Fits(db)' /\ IndexIsCoherent' /\ CheckpointInv'
  BY DEF WriterInv, Fits, IndexIsCoherent, CheckpointInv
<1> QED
  BY <1>1, <1>2, <1>3 DEF WriterInv

LEMMA TypesAre == TypeOK => PlainTypes
  BY TypesFit

LEMMA StartKeeps ==
  ASSUME WriterInv, NEW p \in Process, Start(p)
  PROVE  WriterInv'
<1>1. PlainTypes /\ TypeOK /\ ProcessInv(p)
  BY TypesAre DEF WriterInv
<1>2. PICK b \in Batches, dry \in BOOLEAN :
        run' = [run EXCEPT ![p] = [batch |-> b, dry |-> dry, planned |-> NoCounts]]
  BY DEF Start
<1>3. pc' = [pc EXCEPT ![p] = "plan"] /\ pc[p] = "idle"
      /\ UNCHANGED <<db, writer, plan, states, owners, tables, stale, next, counts>>
  BY DEF Start, Goto
<1>4. PlainTypes'
  <2>1. NoCounts \in [Action -> Nat]
    BY NothingTypesHold DEF NothingTypes
  <2> QED
    BY <1>1, <1>2, <1>3, <2>1 DEF PlainTypes
<1>5. OthersSame(p)
  BY <1>1, <1>2, <1>3 DEF PlainTypes, OthersSame, Same
<1>6. /\ pc'[p] = "plan" /\ plan'[p] = <<>> /\ next'[p] = 1 /\ tables'[p] = None
      /\ writer' # p /\ ~stale'[p]
  BY <1>1, <1>3 DEF ProcessInv, LockInv, PlainTypes
<1>7. Len(Messages(p)') \in Nat
  BY <1>1, <1>2, BatchAssumption DEF Messages, PlainTypes
<1>8. ProcessInv(p)'
  BY <1>6, <1>7 DEF ProcessInv, LockInv, ReplanInv, WriteInv, CommitInv, CountInv, PlannedInv
<1> QED
  BY <1>3, <1>4, <1>5, <1>8, LocalStep

\* The process is done, or gone.
LEMMA EndKeeps ==
  ASSUME WriterInv, NEW p \in Process, Drop(p), Finish(p),
         Total(p) + Rejections(p) = Len(Messages(p))
  PROVE  WriterInv'
<1>1. PlainTypes /\ TypeOK /\ Forget(p)
  BY TypesAre DEF WriterInv, Finish
<1>2. PlainTypes' /\ UNCHANGED db
  BY <1>1, ForgetTypes, DropTypes, FinishTypes DEF PlainTypes
<1>3. OthersSame(p)
  <2>1. /\ \A q \in Process \ {p} : pc'[q] = pc[q] /\ next'[q] = next[q]
        /\ UNCHANGED <<run, counts>>
    BY <1>1, FinishTypes
  <2>2. \A q \in Process \ {p} :
          plan'[q] = plan[q] /\ states'[q] = states[q] /\ owners'[q] = owners[q]
    BY <1>1, ForgetTypes
  <2>3. \A q \in Process \ {p} : /\ tables'[q] = tables[q] /\ stale'[q] = stale[q]
                                 /\ writer' = q <=> writer = q
    BY <1>1, DropTypes
  <2> QED
    BY <2>1, <2>2, <2>3 DEF OthersSame, Same
<1>4. ProcessInv(p)'
  <2>1. /\ pc'[p] = "done" /\ next'[p] = 1 /\ UNCHANGED <<run, counts>> /\ plan'[p] = <<>>
        /\ tables'[p] = None /\ stale'[p] = FALSE /\ writer' # p
    BY <1>1, ForgetTypes, DropTypes, FinishTypes
  <2>2. Messages(p)' = Messages(p) /\ Total(p)' = Total(p) /\ Rejections(p)' = Rejections(p)
        /\ Len(Messages(p)) \in Nat
    BY <1>1, <2>1, MessageTypes DEF Messages, Total, Rejections
  <2> QED
    BY <2>1, <2>2 DEF ProcessInv, LockInv, ReplanInv, WriteInv, CommitInv, CountInv, PlannedInv
<1> QED
  BY <1>2, <1>3, <1>4, LocalStep

LEMMA GoneKeeps ==
  ASSUME WriterInv, NEW p \in Process, Return(p) \/ Crash(p)
  PROVE  WriterInv'
<1>1. PlainTypes /\ TypeOK /\ Leave(p) /\ Forget(p) /\ ProcessInv(p)
  BY TypesAre DEF WriterInv, Return, Crash, Leave
<1>2. /\ tables' \in [Process -> Tables \cup {None}] /\ stale' \in [Process -> BOOLEAN]
      /\ writer' \in Process \cup {Nobody} /\ UNCHANGED db
      /\ tables'[p] = None /\ ~stale'[p] /\ writer' # p
      /\ \A q \in Process \ {p} : /\ tables'[q] = tables[q] /\ stale'[q] = stale[q]
                                  /\ writer' = q <=> writer = q
  <2>1. CASE Crash(p)
    BY <1>1, <2>1, DropTypes DEF Crash
  <2>2. CASE Return(p)
    BY <1>1, <2>2 DEF Return, PlainTypes, ProcessInv, LockInv
  <2> QED
    BY <2>1, <2>2
<1>3. PlainTypes'
  BY <1>1, <1>2, ForgetTypes, LeaveTypes DEF PlainTypes
<1>4. OthersSame(p)
  <2>1. \A q \in Process \ {p} : /\ pc'[q] = pc[q] /\ next'[q] = next[q]
                                 /\ run'[q] = run[q] /\ counts'[q] = counts[q]
    BY <1>1, LeaveTypes
  <2>2. \A q \in Process \ {p} :
          plan'[q] = plan[q] /\ states'[q] = states[q] /\ owners'[q] = owners[q]
    BY <1>1, ForgetTypes
  <2> QED
    BY <1>2, <2>1, <2>2 DEF OthersSame, Same
<1>5. ProcessInv(p)'
  <2>1. pc'[p] = "idle" /\ next'[p] = 1 /\ plan'[p] = <<>> /\ run'[p] = NoRun
    BY <1>1, LeaveTypes, ForgetTypes
  <2>2. Len(Messages(p)') \in Nat
    BY <2>1, NothingTypesHold, BatchAssumption DEF NothingTypes, Messages
  <2> QED
    BY <1>2, <2>1, <2>2 DEF ProcessInv, LockInv, ReplanInv, WriteInv, CommitInv, CountInv, PlannedInv
<1> QED
  BY <1>2, <1>3, <1>4, <1>5, LocalStep

LEMMA DisjointSum ==
  ASSUME NEW S, NEW T, IsFiniteSet(S), IsFiniteSet(T), S \cap T = {}
  PROVE  /\ IsFiniteSet(S \cup T)
         /\ Cardinality(S \cup T) = Cardinality(S) + Cardinality(T)
<1>1. IsFiniteSet(S \cup T)
      /\ Cardinality(S \cup T) = Cardinality(S) + Cardinality(T) - Cardinality(S \cap T)
  BY FS_Union
<1>2. Cardinality(S \cap T) = 0 /\ Cardinality(S) \in Nat /\ Cardinality(T) \in Nat
  BY FS_EmptySet, FS_CardinalityType
<1> QED
  BY <1>1, <1>2

LEMMA CountTo ==
  ASSUME NEW n \in Nat
  PROVE  IsFiniteSet(1 .. n) /\ Cardinality(1 .. n) = n
  BY FS_Interval

\* Each message has one outcome.
LEMMA SummaryTotal ==
  ASSUME TypeOK, NEW p \in Process, CountInv(p), pc[p] = "plan",
         Len(plan[p]) = Len(Messages(p))
  PROVE  Summary(p)["inserted"] + Summary(p)["updated"] + Summary(p)["unchanged"]
           + Summary(p)["failed"] + Rejections(p) = Len(Messages(p))
<1> DEFINE n == Len(Messages(p))
           of(a) == {i \in 1 .. n : plan[p][i] = a}
<1>1. n \in Nat /\ DOMAIN plan[p] = 1 .. n /\ DOMAIN Messages(p) = 1 .. n
      /\ \A i \in 1 .. n : plan[p][i] \in Outcome
  BY MessageTypes
<1>2. \A a \in Action : Summary(p)[a] = Cardinality(of(a))
  BY <1>1 DEF Summary
<1>3. Rejections(p) = Cardinality(of("rejected"))
  <2>1. of("rejected") = {i \in DOMAIN Messages(p) : ~MapperAccepts(Messages(p)[i])}
    BY <1>1 DEF CountInv
  <2> QED
    BY <2>1 DEF Rejections
<1>4. IsFiniteSet(1 .. n) /\ Cardinality(1 .. n) = n
  BY <1>1, CountTo
<1>5. \A a : IsFiniteSet(of(a)) /\ Cardinality(of(a)) \in Nat
  BY <1>4, FS_Subset, FS_CardinalityType
<1> DEFINE two == of("inserted") \cup of("updated")
           three == two \cup of("unchanged")
           four == three \cup of("failed")
<1>6. four \cup of("rejected") = 1 .. n
  BY <1>1 DEF Outcome, Action
<1>7. /\ of("inserted") \cap of("updated") = {} /\ two \cap of("unchanged") = {}
      /\ three \cap of("failed") = {} /\ four \cap of("rejected") = {}
  OBVIOUS
<1> HIDE DEF of, n
<1>8. IsFiniteSet(two) /\ Cardinality(two) = Cardinality(of("inserted")) + Cardinality(of("updated"))
  BY <1>5, <1>7, DisjointSum
<1> HIDE DEF two
<1>9. IsFiniteSet(three) /\ Cardinality(three) = Cardinality(two) + Cardinality(of("unchanged"))
  BY <1>5, <1>7, <1>8, DisjointSum
<1> HIDE DEF three
<1>10. IsFiniteSet(four) /\ Cardinality(four) = Cardinality(three) + Cardinality(of("failed"))
  BY <1>5, <1>7, <1>9, DisjointSum
<1> HIDE DEF four
<1>11. n = Cardinality(four) + Cardinality(of("rejected"))
  BY <1>4, <1>5, <1>6, <1>7, <1>10, DisjointSum
<1>12. {"inserted", "updated", "unchanged", "failed"} \subseteq Action
  BY DEF Action
<1> QED
  BY <1>2, <1>3, <1>5, <1>8, <1>9, <1>10, <1>11, <1>12 DEF n

LEMMA EndPlanKeeps ==
  ASSUME WriterInv, NEW p \in Process, EndPlan(p)
  PROVE  WriterInv'
<1>1. PlainTypes /\ TypeOK /\ ProcessInv(p) /\ Forget(p)
  BY TypesAre DEF WriterInv, EndPlan
<1>2. PICK step \in {"done", "replan"} : pc' = [pc EXCEPT ![p] = step]
                                         /\ (step = "replan" => ~(Rejections(p) > 0))
  BY DEF EndPlan, Goto
<1>3. /\ pc[p] = "plan" /\ Len(plan[p]) = Len(Messages(p))
      /\ counts' = [counts EXCEPT ![p] = Summary(p)]
      /\ run' = [run EXCEPT ![p].planned = Summary(p)]
      /\ UNCHANGED <<db, writer, tables, stale, next>>
  BY DEF EndPlan
<1>4. counts' \in [Process -> [Action -> Nat]] /\ counts'[p] = Summary(p)
      /\ \A q \in Process \ {p} : counts'[q] = counts[q]
  <2>1. counts \in [Process -> [Action -> Nat]] /\ Summary(p) \in [Action -> Nat]
    BY <1>1, SummaryTypes DEF PlainTypes
  <2> QED
    BY <1>3, <2>1
<1>5. pc' \in [Process -> {"idle", "plan", "replan", "write", "commit", "done"}]
      /\ pc'[p] = step /\ \A q \in Process \ {p} : pc'[q] = pc[q]
  BY <1>1, <1>2 DEF PlainTypes
<1>6. /\ run' \in [Process -> [batch : Batches, dry : BOOLEAN, planned : [Action -> Nat]]]
      /\ run'[p].batch = run[p].batch /\ run'[p].planned = Summary(p)
      /\ \A q \in Process \ {p} : run'[q] = run[q]
  <2>1. /\ run \in [Process -> [batch : Batches, dry : BOOLEAN, planned : [Action -> Nat]]]
        /\ Summary(p) \in [Action -> Nat]
    BY <1>1, SummaryTypes DEF PlainTypes
  <2> QED
    BY <1>3, <2>1
<1>7. PlainTypes' /\ OthersSame(p)
  <2>1. \A q \in Process \ {p} :
          plan'[q] = plan[q] /\ states'[q] = states[q] /\ owners'[q] = owners[q]
    BY <1>1, ForgetTypes
  <2>2. PlainTypes'
    BY <1>1, <1>3, <1>4, <1>5, <1>6, ForgetTypes DEF PlainTypes
  <2>3. OthersSame(p)
    BY <1>3, <1>4, <1>5, <1>6, <2>1 DEF OthersSame, Same
  <2> QED
    BY <2>2, <2>3
<1>8. ProcessInv(p)'
  <2>1. /\ plan'[p] = <<>> /\ states'[p] = NothingRead /\ owners'[p] = NobodyRead
        /\ tables'[p] = None /\ ~stale'[p] /\ writer' # p /\ next'[p] = 1
    BY <1>1, <1>3, ForgetTypes DEF ProcessInv, LockInv
  <2>2. Messages(p)' = Messages(p) /\ Rejections(p)' = Rejections(p) /\ Len(Messages(p)) \in Nat
    BY <1>1, <1>6, MessageTypes DEF Messages, Rejections
  <2>3. /\ Total(p)' + Rejections(p) = Len(Messages(p))
        /\ PlannedTotal(p)' + Rejections(p) = Len(Messages(p))
    BY <1>1, <1>3, <1>4, <1>6, SummaryTotal DEF ProcessInv, Total, PlannedTotal
  <2>4. step = "replan" => \A i \in DOMAIN Messages(p) : MapperAccepts(Messages(p)[i])
    <3>1. IsFiniteSet({i \in DOMAIN Messages(p) : ~MapperAccepts(Messages(p)[i])})
      <4>1. DOMAIN Messages(p) = 1 .. Len(Messages(p)) /\ Len(Messages(p)) \in Nat
        BY <1>1, MessageTypes
      <4>2. IsFiniteSet(DOMAIN Messages(p))
        BY <4>1, FS_Interval
      <4> QED
        BY <4>2, FS_Subset
    <3>2. Rejections(p) = 0 => {i \in DOMAIN Messages(p) : ~MapperAccepts(Messages(p)[i])} = {}
      BY <3>1, FS_EmptySet DEF Rejections
    <3>3. Rejections(p) \in Nat
      BY <3>1, FS_CardinalityType DEF Rejections
    <3> QED
      BY <1>2, <3>2, <3>3
  <2>5. pc'[p] = step
    BY <1>5
  <2> QED
    BY <2>1, <2>2, <2>3, <2>4, <2>5
    DEF ProcessInv, LockInv, ReplanInv, WriteInv, CommitInv, CountInv, PlannedInv
<1> QED
  BY <1>3, <1>6, <1>7, <1>8, LocalStep

LEMMA EndReplanKeeps ==
  ASSUME WriterInv, NEW p \in Process, EndReplan(p)
  PROVE  WriterInv'
<1>1. PlainTypes /\ TypeOK /\ ProcessInv(p)
  BY TypesAre DEF WriterInv
<1>2. /\ pc[p] = "replan" /\ Len(plan[p]) = Len(Messages(p))
      /\ pc' = [pc EXCEPT ![p] = "write"] /\ counts' = [counts EXCEPT ![p] = NoCounts]
      /\ states' = [states EXCEPT ![p] = NothingRead]
      /\ owners' = [owners EXCEPT ![p] = NobodyRead]
      /\ UNCHANGED <<db, writer, run, plan, tables, stale, next>>
  BY DEF EndReplan, Goto
<1>3. PlainTypes'
  BY <1>1, <1>2, NothingTypesHold DEF PlainTypes, NothingTypes
<1>4. OthersSame(p)
  BY <1>1, <1>2 DEF PlainTypes, OthersSame, Same
<1>5. ProcessInv(p)'
  <2> DEFINE ms == Messages(p)
  <2>1. /\ pc'[p] = "write" /\ counts'[p] = NoCounts /\ next'[p] = 1 /\ plan'[p] = plan[p]
        /\ tables'[p] = tables[p] /\ stale'[p] = stale[p] /\ run'[p] = run[p] /\ writer' # p
        /\ db' = db
    BY <1>1, <1>2 DEF ProcessInv, LockInv, PlainTypes
  <2>2. /\ Messages(p)' = ms /\ ms \in Seq(Message) /\ plan[p] \in Seq(Outcome)
        /\ Len(ms) \in Nat /\ Len(plan[p]) = Len(ms)
        /\ (ms = <<>> <=> plan[p] = <<>>)
    BY <1>1, <1>2, <2>1, MessageTypes, EmptySeq DEF Messages
  <2>3. LockInv(p)'
    BY <1>1, <1>2, <2>1, <2>2 DEF ProcessInv, LockInv
  <2>4. CountInv(p)'
    <3>1. Total(p)' = 0
      BY <2>1 DEF Total, NoCounts, Action
    <3> QED
      BY <1>1, <1>2, <2>1, <2>2, <3>1 DEF ProcessInv, CountInv
  <2>5. WriteInv(p)'
    <3>1. ms = <<>> => tables[p] = None
      BY <1>1, <1>2, <2>2 DEF ProcessInv, ReplanInv
    <3>2. ASSUME ms # <<>>
          PROVE  /\ Fits(tables[p]) /\ (stale[p] \/ tables[p] = db)
                 /\ PlanHolds(tables[p].rows, ms, plan[p]) /\ Written(p, tables[p], 0)'
      <4>1. Fits(tables[p]) /\ (stale[p] \/ tables[p] = db)
            /\ PlanHolds(tables[p].rows, ms, plan[p])
        BY <1>1, <1>2, <2>2, <3>2 DEF ProcessInv, ReplanInv
      <4>2. PICK t \in Tables : t = tables[p]
        BY <4>1 DEF Fits
      <4>3. Ledger!RowsAfter(t.rows, ms, 0) = t.rows
        BY RowsAtFirst DEF Tables
      <4>4. [t EXCEPT !.rows = t.rows] = t
        BY DEF Tables
      <4> QED
        BY <2>1, <2>2, <4>1, <4>2, <4>3, <4>4 DEF Written, Clean
    <3>3. ms # <<>> => Fits(tables[p])' /\ PlanHolds(tables[p].rows, ms, plan[p])'
                       /\ (stale'[p] \/ tables'[p] = db') /\ tables'[p] \in Tables
      BY <2>1, <2>2, <3>2 DEF Fits, PlanHolds
    <3>4. next'[p] - 1 = 0
      BY <2>1
    <3>5. ms # <<>> => \E base \in Tables :
              /\ Fits(base) /\ (stale'[p] \/ base = db')
              /\ PlanHolds(base.rows, ms, plan'[p])
              /\ Written(p, base, 0)'
      <4> SUFFICES ASSUME ms # <<>>
                   PROVE  \E base \in Tables :
                            /\ Fits(base) /\ (stale'[p] \/ base = db')
                            /\ PlanHolds(base.rows, ms, plan'[p])
                            /\ Written(p, base, 0)'
        OBVIOUS
      <4>1. PICK t \in Tables : t = tables[p]
        BY <3>2 DEF Fits
      <4>2. Written(p, t, 0)'
        BY <2>1, <3>2, <4>1 DEF Written
      <4> QED
        BY <2>1, <3>2, <4>1, <4>2
    <3> HIDE DEF ms
    <3> QED
      BY <2>1, <2>2, <3>1, <3>3, <3>4, <3>5 DEF WriteInv
  <2>6. PlannedInv(p)'
    BY <1>1, <1>2, <2>1, PlannedStays
  <2> QED
    BY <2>1, <2>3, <2>4, <2>5, <2>6 DEF ProcessInv, ReplanInv, CommitInv
<1> QED
  BY <1>2, <1>3, <1>4, <1>5, LocalStep

LEMMA TotalAfterCount ==
  ASSUME TypeOK, NEW p \in Process, NEW outcome \in Action, Count(p, outcome)
  PROVE  /\ Total(p)' = Total(p) + 1
         /\ outcome = "failed" => counts'[p]["failed"] # 0
         /\ outcome # "failed" => counts'[p]["failed"] = counts[p]["failed"]
<1>1. counts'[p] = [counts[p] EXCEPT ![outcome] = @ + 1] /\ counts[p] \in [Action -> Nat]
  BY CountTypes DEF TypeOK
<1>2. PICK f \in [Action -> Nat] : f = counts[p]
  BY <1>1
<1>3. PICK g : g = counts'[p]
  OBVIOUS
<1>4. /\ {"inserted", "updated", "unchanged", "failed"} \subseteq Action
      /\ outcome \in {"inserted", "updated", "unchanged", "failed"}
  BY DEF Action
<1>5. g["inserted"] + g["updated"] + g["unchanged"] + g["failed"] =
        f["inserted"] + f["updated"] + f["unchanged"] + f["failed"] + 1
  <2>1. /\ f["inserted"] \in Nat /\ f["updated"] \in Nat
        /\ f["unchanged"] \in Nat /\ f["failed"] \in Nat
    BY <1>2, <1>4
  <2>2. /\ g["inserted"] = IF outcome = "inserted" THEN f["inserted"] + 1 ELSE f["inserted"]
        /\ g["updated"] = IF outcome = "updated" THEN f["updated"] + 1 ELSE f["updated"]
        /\ g["unchanged"] = IF outcome = "unchanged" THEN f["unchanged"] + 1
                            ELSE f["unchanged"]
        /\ g["failed"] = IF outcome = "failed" THEN f["failed"] + 1 ELSE f["failed"]
    BY <1>1, <1>2, <1>3, <1>4
  <2> QED
    BY <1>4, <2>1, <2>2
<1>6. /\ outcome = "failed" => g["failed"] # 0
      /\ outcome # "failed" => g["failed"] = f["failed"]
  BY <1>1, <1>2, <1>3, <1>4
<1> QED
  BY <1>2, <1>3, <1>5, <1>6 DEF Total

\* A record is written, passed over, or fails.
LEMMA RecordKeeps ==
  ASSUME WriterInv, NEW p \in Process, NEW outcome \in Action, Count(p, outcome),
         pc[p] = "write", next[p] <= Len(plan[p]),
         UNCHANGED <<db, pc, run, plan, states, owners, stale>>,
         \/ UNCHANGED writer
         \/ MayWrite(p) /\ writer' = p,
         tables' \in [Process -> Tables \cup {None}], Fits(tables[p])',
         \A q \in Process \ {p} : tables'[q] = tables[q],
         ASSUME outcome # "failed", counts[p]["failed"] = 0, NEW base \in Tables,
                PlanHolds(base.rows, Messages(p), plan[p]), Written(p, base, next[p] - 1),
                NEW n \in Nat, n = next[p]
         PROVE  Written(p, base, n)'
  PROVE  WriterInv'
<1>1. PlainTypes /\ TypeOK /\ ProcessInv(p)
  BY TypesAre DEF WriterInv
<1>2. /\ counts' \in [Process -> [Action -> Nat]] /\ next' \in [Process -> Nat \ {0}]
      /\ next'[p] = next[p] + 1
      /\ \A q \in Process \ {p} : counts'[q] = counts[q] /\ next'[q] = next[q]
  BY <1>1, CountTypes
<1>3. /\ writer' \in Process \cup {Nobody}
      /\ \A q \in Process \ {p} : writer' = q <=> writer = q
      /\ writer' = p => ~stale[p]
  BY <1>1, ValueAssumption DEF MayWrite, PlainTypes, ProcessInv, LockInv
<1>4. PlainTypes'
  BY <1>1, <1>2, <1>3 DEF PlainTypes
<1>5. OthersSame(p)
  BY <1>2, <1>3 DEF OthersSame, Same
<1>6. ProcessInv(p)'
  <2> DEFINE ms == Messages(p)
  <2>1. /\ Messages(p)' = ms /\ ms # <<>> /\ Len(plan[p]) = Len(ms)
        /\ next[p] <= Len(ms) /\ next[p] \in Nat \ {0} /\ Len(ms) \in Nat
    BY <1>1, WritingFacts, MessageTypes DEF Messages
  <2>2. tables'[p] # None /\ tables[p] # None
    BY <1>1, WritingFacts, ValueAssumption DEF Fits
  <2>3. /\ pc'[p] = "write" /\ plan'[p] = plan[p] /\ stale'[p] = stale[p] /\ db' = db
        /\ run'[p] = run[p]
    BY DEF Count
  <2>4. LockInv(p)'
    BY <1>1, <1>2, <1>3, <2>1, <2>2, <2>3 DEF ProcessInv, LockInv
  <2>5. CountInv(p)'
    <3>1. Total(p)' = Total(p) + 1
      BY <1>1, TotalAfterCount
    <3> QED
      BY <1>1, <1>2, <2>1, <2>3, <3>1 DEF ProcessInv, CountInv
  <2>6. PICK base \in Tables :
          /\ Fits(base) /\ (stale[p] \/ base = db)
          /\ PlanHolds(base.rows, ms, plan[p])
          /\ counts[p]["failed"] = 0 => Written(p, base, next[p] - 1)
    BY <1>1, <2>1 DEF ProcessInv, WriteInv
  <2>7. PICK n \in Nat : n = next[p]
    BY <2>1
  <2>8. counts'[p]["failed"] = 0 => outcome # "failed" /\ counts[p]["failed"] = 0
    BY <1>1, TotalAfterCount
  <2>9. next'[p] - 1 = n
    BY <1>2, <2>7
  <2>10. counts'[p]["failed"] = 0 => Written(p, base, n)'
    BY <2>6, <2>7, <2>8
  <2> HIDE DEF ms
  <2>11. WriteInv(p)'
    BY <2>1, <2>3, <2>6, <2>9, <2>10 DEF WriteInv
  <2>12. PlannedInv(p)'
    BY <1>1, <2>3, PlannedStays
  <2> QED
    BY <2>3, <2>4, <2>5, <2>11, <2>12 DEF ProcessInv, ReplanInv, CommitInv
<1> QED
  BY <1>4, <1>5, <1>6, LocalStep

\* The rows of the next record.
LEMMA PutIsNext ==
  ASSUME NEW rows, NEW records, NEW n \in Nat, n > 0
  PROVE  Put(Ledger!RowsAfter(rows, records, n - 1), records[n]) =
           Ledger!RowsAfter(rows, records, n)
<1>1. PICK m \in Nat : n = m + 1 /\ n - 1 = m
  OBVIOUS
<1>2. Ledger!RowsAfter(rows, records, m + 1) =
        [e \in Export |-> IF e = records[m + 1].export THEN Ledger!RowOf(records[m + 1])
                          ELSE Ledger!RowsAfter(rows, records, m)[e]]
  BY RowsAfterNext
<1>3. PICK f : f = Ledger!RowsAfter(rows, records, m)
  OBVIOUS
<1>4. f = [e \in Export |-> f[e]]
  BY <1>3 DEF Ledger!RowsAfter
<1>5. Put(f, records[m + 1]) =
        [e \in Export |-> IF e = records[m + 1].export THEN Ledger!RowOf(records[m + 1])
                          ELSE f[e]]
  <2>1. PICK r : r = records[m + 1]
    OBVIOUS
  <2>2. Put(f, r) = [f EXCEPT ![r.export] = Ledger!RowOf(r)]
    BY DEF Put, Ledger!RowOf
  <2>3. [f EXCEPT ![r.export] = Ledger!RowOf(r)] =
          [e \in Export |-> IF e = r.export THEN Ledger!RowOf(r) ELSE f[e]]
    BY <1>4
  <2> QED
    BY <2>1, <2>2, <2>3
<1> QED
  BY <1>1, <1>2, <1>3, <1>5

LEMMA PutFits ==
  ASSUME NEW rows \in [Export -> Row \cup {NoRow}], Unique(rows), Storable(rows),
         NEW r \in Message, ~Collides(rows, r), r.meta \notin Unstorable
  PROVE  Unique(Put(rows, r)) /\ Storable(Put(rows, r))
<1>1. \A e \in Export : Put(rows, r)[e] = IF e = r.export THEN [at |-> r.at, meta |-> r.meta]
                                          ELSE rows[e]
  BY DEF Put
<1>2. \A e \in Export \ {r.export} : rows[e] # NoRow => rows[e].at # r.at
  BY DEF Collides
<1>3. Storable(Put(rows, r))
  BY <1>1 DEF Storable
<1>4. Unique(Put(rows, r))
  BY <1>1, <1>2 DEF Unique
<1> QED
  BY <1>3, <1>4

LEMMA WriteKeeps ==
  ASSUME WriterInv, NEW p \in Process, Write(p)
  PROVE  WriterInv'
<1> DEFINE r == Messages(p)[next[p]]
<1>1. PlainTypes /\ TypeOK /\ ProcessInv(p)
  BY TypesAre DEF WriterInv
<1>2. /\ pc[p] = "write" /\ next[p] <= Len(plan[p]) /\ plan[p][next[p]] \in {"inserted", "updated"}
      /\ MayWrite(p) /\ writer' = p /\ r.meta \notin Unstorable /\ ~Collides(tables[p].rows, r)
      /\ Count(p, plan[p][next[p]]) /\ UNCHANGED <<db, pc, run, plan, states, owners, stale>>
  BY DEF Write
<1>3. /\ Fits(tables[p]) /\ r \in Message
      /\ tables'[p] = [tables[p] EXCEPT !.rows = Put(@, r)] /\ tables'[p] \in Tables
      /\ \A q \in Process \ {p} : tables'[q] = tables[q]
      /\ tables' \in [Process -> Tables \cup {None}]
  BY WriteEffect
<1>4. Fits(tables[p])'
  <2>1. tables[p].rows \in [Export -> Row \cup {NoRow}]
    BY <1>3 DEF Fits, Tables
  <2>2. Unique(Put(tables[p].rows, r)) /\ Storable(Put(tables[p].rows, r))
    BY <1>2, <1>3, <2>1, PutFits DEF Fits
  <2>3. tables'[p].rows = Put(tables[p].rows, r)
    BY <1>3 DEF Fits, Tables
  <2> QED
    BY <1>3, <2>2, <2>3 DEF Fits, Unique, Storable
<1>5. ASSUME NEW base \in Tables, Written(p, base, next[p] - 1), NEW n \in Nat, n = next[p]
      PROVE  Written(p, base, n)'
  <2>1. PICK rows : rows = Ledger!RowsAfter(base.rows, Messages(p), n - 1)
    OBVIOUS
  <2>2. n > 0 /\ tables[p] = [base EXCEPT !.rows = rows]
    BY <1>1, <1>5, <2>1 DEF Written, PlainTypes
  <2>3. Put(rows, r) = Ledger!RowsAfter(base.rows, Messages(p), n)
    BY <1>5, <2>1, <2>2, PutIsNext
  <2>4. tables'[p] = [base EXCEPT !.rows = Put(rows, r)]
    <3>1. DOMAIN base = {"rows", "decided", "history", "checkpoint"}
      BY DEF Tables
    <3> HIDE DEF r
    <3> QED
      BY <1>3, <2>2, <3>1
  <2>5. \A i \in 1 .. n : Messages(p)[i].meta \notin Unstorable /\ plan[p][i] # "failed"
    <3>1. \A i \in 1 .. n : i = n \/ i \in 1 .. n - 1
      OBVIOUS
    <3> QED
      BY <1>2, <1>5, <3>1 DEF Written, Clean
  <2>6. Messages(p)' = Messages(p) /\ plan' = plan
    BY <1>2 DEF Messages
  <2> HIDE DEF r
  <2> QED
    BY <2>3, <2>4, <2>5, <2>6 DEF Written, Clean
<1>6. plan[p][next[p]] \in Action
  BY <1>2 DEF Action
<1> HIDE DEF r
<1>7. PICK outcome \in Action : outcome = plan[p][next[p]]
  BY <1>6
<1>8. Count(p, outcome)
  BY <1>2, <1>7
<1> QED
  BY <1>2, <1>3, <1>4, <1>5, <1>8, RecordKeeps

LEMMA WriteFailsKeeps ==
  ASSUME WriterInv, NEW p \in Process, WriteFails(p)
  PROVE  WriterInv'
<1>1. PlainTypes /\ "failed" \in Action
  BY TypesAre DEF WriterInv, Action
<1>2. /\ pc[p] = "write" /\ next[p] <= Len(plan[p]) /\ Count(p, "failed")
      /\ UNCHANGED <<db, pc, run, plan, states, owners, tables, stale>>
      /\ \/ UNCHANGED writer
         \/ MayWrite(p) /\ writer' = p
  BY DEF WriteFails, CountFailure
<1>3. Fits(tables[p])' /\ tables' \in [Process -> Tables \cup {None}]
  BY <1>1, <1>2, WritingFacts DEF Fits, PlainTypes
<1> QED
  BY <1>1, <1>2, <1>3, RecordKeeps

LEMMA PassKeeps ==
  ASSUME WriterInv, NEW p \in Process, Pass(p)
  PROVE  WriterInv'
<1> DEFINE r == Messages(p)[next[p]]
           outcome == plan[p][next[p]]
<1>1. PlainTypes /\ outcome \in Action
  BY TypesAre DEF WriterInv, Action, Pass
<1>2. /\ pc[p] = "write" /\ next[p] <= Len(plan[p]) /\ Count(p, outcome)
      /\ outcome \in {"unchanged", "failed"}
      /\ UNCHANGED <<db, writer, pc, run, plan, states, owners, tables, stale>>
  BY DEF Pass
<1>3. /\ Fits(tables[p]) /\ r \in Message /\ next[p] \in DOMAIN plan[p]
  BY <1>2, WritingFacts
<1>4. Fits(tables[p])' /\ tables' \in [Process -> Tables \cup {None}]
  BY <1>1, <1>2, <1>3 DEF Fits, PlainTypes
<1>5. ASSUME outcome # "failed", NEW base \in Tables, Written(p, base, next[p] - 1),
             PlanHolds(base.rows, Messages(p), plan[p]), NEW n \in Nat, n = next[p]
      PROVE  Written(p, base, n)'
  <2>1. PICK rows : rows = Ledger!RowsAfter(base.rows, Messages(p), n - 1)
    OBVIOUS
  <2>2. n > 0 /\ tables[p] = [base EXCEPT !.rows = rows]
    BY <1>1, <1>5, <2>1 DEF Written, PlainTypes
  <2>3. \A i \in 1 .. n : plan[p][i] # "failed"
    <3>1. \A i \in 1 .. n : i = n \/ i \in 1 .. n - 1
      OBVIOUS
    <3> QED
      BY <1>5, <3>1 DEF Written, Clean
  <2>4. rows[r.export] = Ledger!RowOf(r)
    <3>1. Clean(plan[p], n) /\ n \in DOMAIN plan[p] /\ plan[p][n] = "unchanged"
      BY <1>2, <1>3, <1>5, <2>3 DEF Clean
    <3>2. Right(rows, r, "unchanged")
      BY <1>5, <2>1, <3>1 DEF PlanHolds
    <3> QED
      BY <3>2 DEF Right
  <2>5. tables[p].rows = rows
    BY <2>2 DEF Tables
  <2>6. r.meta \notin Unstorable
    <3>1. r.export \in Export /\ Ledger!RowOf(r) \in Row /\ Ledger!RowOf(r).meta = r.meta
      BY <1>3 DEF Message, Row, Ledger!RowOf
    <3>2. rows[r.export] # NoRow
      BY <2>4, <3>1, ValueAssumption
    <3>3. rows[r.export].meta \notin Unstorable
      BY <1>3, <2>5, <3>1, <3>2 DEF Fits, Storable
    <3> QED
      BY <2>4, <3>1, <3>3
  <2>7. Put(rows, r) = rows
    <3>1. rows \in [Export -> Row \cup {NoRow}]
      BY <1>3, <2>5 DEF Fits, Tables
    <3> QED
      BY <2>4, <3>1 DEF Put, Ledger!RowOf
  <2>8. rows = Ledger!RowsAfter(base.rows, Messages(p), n)
    BY <1>5, <2>1, <2>2, <2>7, PutIsNext
  <2>9. \A i \in 1 .. n : Messages(p)[i].meta \notin Unstorable
    <3>1. \A i \in 1 .. n : i = n \/ i \in 1 .. n - 1
      OBVIOUS
    <3> QED
      BY <1>5, <2>6, <3>1 DEF Written
  <2>10. Messages(p)' = Messages(p) /\ plan' = plan /\ tables' = tables
    BY <1>2 DEF Messages
  <2> HIDE DEF r, outcome
  <2> QED
    BY <2>2, <2>3, <2>8, <2>9, <2>10 DEF Written, Clean
<1> HIDE DEF r, outcome
<1> QED
  BY <1>1, <1>2, <1>4, <1>5, RecordKeeps

\* In a transaction there is nothing that the mapper rejected.
LEMMA NothingRejected ==
  ASSUME WriterInv, NEW p \in Process, pc[p] \in {"replan", "write", "commit"}
  PROVE  Rejections(p) = 0
<1>1. {i \in DOMAIN Messages(p) : ~MapperAccepts(Messages(p)[i])} = {}
  BY DEF WriterInv, ProcessInv, LockInv
<1> QED
  BY <1>1, FS_EmptySet DEF Rejections

\* When all records have had their turn, all are counted.
LEMMA AllWritten ==
  ASSUME WriterInv, NEW p \in Process, pc[p] = "write", next[p] > Len(plan[p])
  PROVE  /\ next[p] - 1 = Len(Messages(p)) /\ Len(plan[p]) = Len(Messages(p))
         /\ Total(p) + Rejections(p) = Len(Messages(p))
<1>1. TypeOK /\ ProcessInv(p)
  BY DEF WriterInv
<1>2. /\ next[p] \in Nat /\ Len(Messages(p)) \in Nat /\ Len(plan[p]) = Len(Messages(p))
      /\ next[p] <= Len(Messages(p)) + 1 /\ Total(p) = next[p] - 1
  BY <1>1, MessageTypes DEF ProcessInv, WriteInv, LockInv, CountInv
<1> QED
  BY <1>2, NothingRejected

LEMMA FailuresKeep ==
  ASSUME WriterInv, NEW p \in Process, ReplanFails(p) \/ RollBack(p) \/ PersistFails(p)
  PROVE  WriterInv'
<1>1. Drop(p) /\ Finish(p)
  BY DEF ReplanFails, RollBack, PersistFails
<1>2. Total(p) + Rejections(p) = Len(Messages(p))
  <2>1. CASE ReplanFails(p)
    BY <2>1 DEF ReplanFails, WriterInv, ProcessInv, CountInv
  <2>2. CASE RollBack(p) \/ PersistFails(p)
    BY <2>2, AllWritten DEF RollBack, PersistFails, Complete
  <2> QED
    BY <2>1, <2>2
<1> QED
  BY <1>1, <1>2, EndKeeps

LEMMA SavepointFailsKeeps ==
  ASSUME WriterInv, NEW p \in Process, SavepointFails(p)
  PROVE  WriterInv'
<1>1. PlainTypes /\ TypeOK /\ ProcessInv(p) /\ Forget(p) /\ Drop(p)
  BY TypesAre DEF WriterInv, SavepointFails
<1>2. /\ pc' \in [Process -> {"idle", "plan", "replan", "write", "commit", "done"}]
      /\ next' \in [Process -> Nat \ {0}] /\ UNCHANGED run
      /\ pc'[p] = "done" /\ next'[p] = 1
      /\ \A q \in Process \ {p} : pc'[q] = pc[q] /\ next'[q] = next[q]
  BY <1>1 DEF SavepointFails, PlainTypes, Goto
<1>3. /\ counts' \in [Process -> [Action -> Nat]] /\ counts'[p] = run[p].planned
      /\ \A q \in Process \ {p} : counts'[q] = counts[q]
  <2>1. counts \in [Process -> [Action -> Nat]] /\ run[p].planned \in [Action -> Nat]
    BY <1>1 DEF PlainTypes
  <2>2. counts' = [counts EXCEPT ![p] = run[p].planned]
    BY DEF SavepointFails
  <2> QED
    BY <2>1, <2>2
<1>4. PlainTypes' /\ UNCHANGED db
  BY <1>1, <1>2, <1>3, ForgetTypes, DropTypes DEF PlainTypes
<1>5. OthersSame(p)
  <2>1. \A q \in Process \ {p} :
          plan'[q] = plan[q] /\ states'[q] = states[q] /\ owners'[q] = owners[q]
    BY <1>1, ForgetTypes
  <2>2. \A q \in Process \ {p} : /\ tables'[q] = tables[q] /\ stale'[q] = stale[q]
                                 /\ writer' = q <=> writer = q
    BY <1>1, DropTypes
  <2> QED
    BY <1>2, <1>3, <2>1, <2>2 DEF OthersSame, Same
<1>6. ProcessInv(p)'
  <2>1. /\ plan'[p] = <<>> /\ tables'[p] = None /\ stale'[p] = FALSE /\ writer' # p
    BY <1>1, ForgetTypes, DropTypes
  <2>2. Messages(p)' = Messages(p) /\ Rejections(p)' = Rejections(p) /\ Len(Messages(p)) \in Nat
    BY <1>1, <1>2, MessageTypes DEF Messages, Rejections
  <2>3. Total(p)' + Rejections(p) = Len(Messages(p))
    BY <1>1, <1>3 DEF ProcessInv, PlannedInv, PlannedTotal, Total, SavepointFails
  <2> QED
    BY <1>2, <2>1, <2>2, <2>3
    DEF ProcessInv, LockInv, ReplanInv, WriteInv, CommitInv, CountInv, PlannedInv
<1> QED
  BY <1>4, <1>5, <1>6, LocalStep

LEMMA PersistKeeps ==
  ASSUME WriterInv, NEW p \in Process, Persist(p)
  PROVE  WriterInv'
<1> DEFINE ms == Messages(p)
<1>1. PlainTypes /\ TypeOK /\ ProcessInv(p)
  BY TypesAre DEF WriterInv
<1>2. /\ pc[p] = "write" /\ next[p] > Len(plan[p]) /\ counts[p]["failed"] = 0 /\ MayPersist(p)
      /\ writer' = p /\ pc' = [pc EXCEPT ![p] = "commit"]
      /\ UNCHANGED <<db, run, plan, states, owners, stale, next, counts>>
  BY DEF Persist, Complete, Goto
<1>3. /\ tables'[p] = [rows |-> Snapshot(p).rows,
                       decided |-> Ledger!DecisionsAfter(Snapshot(p).decided, ms),
                       history |-> Snapshot(p).history \cup Observed(p),
                       checkpoint |-> run[p].batch.cursor]
      /\ Snapshot(p) \in Tables /\ tables'[p] \in Tables
      /\ \A q \in Process \ {p} : tables'[q] = tables[q]
      /\ tables' \in [Process -> Tables \cup {None}]
  BY PersistTypes
<1>4. PlainTypes'
  BY <1>1, <1>2, <1>3 DEF PlainTypes
<1>5. writer = p \/ writer = Nobody
  BY <1>2 DEF MayPersist, MayWrite
<1>6. ~stale[p]
  BY <1>1, <1>2 DEF MayPersist, MayWrite, ProcessInv, LockInv, WriteInv
<1>7. OthersSame(p)
  <2>1. \A q \in Process \ {p} : pc'[q] = pc[q]
    BY <1>1, <1>2 DEF PlainTypes
  <2>2. \A q \in Process \ {p} : writer' = q <=> writer = q
    BY <1>2, <1>5, ValueAssumption
  <2> QED
    BY <1>2, <1>3, <2>1, <2>2 DEF OthersSame, Same
<1>8. /\ Snapshot(p).decided = db.decided /\ Snapshot(p).history = db.history
      /\ Snapshot(p).rows = Ledger!RowsAfter(db.rows, ms, Len(ms))
      /\ Fits(Snapshot(p)) /\ Ledger!Acceptable(db.rows, ms)
  <2>1. CASE ms = <<>>
    <3>1. Snapshot(p) = db /\ Fits(db) /\ Len(ms) = 0 /\ DOMAIN ms = {}
      BY <2>1 DEF Snapshot, WriterInv
    <3>2. Ledger!RowsAfter(db.rows, ms, 0) = db.rows
      BY <3>1, RowsAtFirst DEF Fits, Tables
    <3> HIDE DEF ms
    <3> QED
      BY <3>1, <3>2 DEF Ledger!Acceptable
  <2>2. CASE ms # <<>>
    <3>1. next[p] - 1 = Len(ms) /\ Len(plan[p]) = Len(ms)
      BY <1>2, AllWritten
    <3>2. /\ PlanHolds(db.rows, ms, plan[p]) /\ Written(p, db, Len(ms)) /\ Fits(tables[p])
          /\ Snapshot(p) = tables[p]
      BY <1>1, <1>2, <1>6, <2>2, <3>1 DEF ProcessInv, WriteInv, Snapshot
    <3>3. /\ tables[p] = [db EXCEPT !.rows = Ledger!RowsAfter(db.rows, ms, Len(ms))]
          /\ db \in Tables
      BY <1>1, <3>2 DEF Written, PlainTypes
    <3>4. Ledger!Acceptable(db.rows, ms)
      <4>1. DOMAIN ms = 1 .. Len(ms) /\ DOMAIN plan[p] = 1 .. Len(ms) /\ Len(ms) \in Nat
        BY <1>1, <3>1, MessageTypes
      <4> SUFFICES ASSUME NEW i \in 1 .. Len(ms)
                   PROVE  /\ ms[i].kind = "good" /\ ms[i].meta \notin Unstorable
                          /\ Ledger!Free(Ledger!RowsAfter(db.rows, ms, i - 1), ms[i])
        BY <4>1 DEF Ledger!Acceptable
      <4>2. Clean(plan[p], i) /\ ms[i].meta \notin Unstorable
        BY <3>2, <4>1 DEF Written, Clean
      <4>3. Right(Ledger!RowsAfter(db.rows, ms, i - 1), ms[i], plan[p][i])
        BY <3>2, <4>1, <4>2 DEF PlanHolds
      <4> QED
        BY <4>2, <4>3 DEF Right
    <3> HIDE DEF ms
    <3>5. /\ tables[p].decided = db.decided /\ tables[p].history = db.history
          /\ tables[p].rows = Ledger!RowsAfter(db.rows, ms, Len(ms))
      BY <3>3 DEF Tables
    <3> QED
      BY <3>2, <3>4, <3>5
  <2> QED
    BY <2>1, <2>2
<1>9. ProcessInv(p)'
  <2>1. /\ pc'[p] = "commit" /\ Messages(p)' = ms /\ Len(ms) \in Nat /\ run'[p] = run[p]
        /\ plan'[p] = plan[p] /\ next'[p] = next[p]
    BY <1>1, <1>2, MessageTypes DEF PlainTypes, Messages
  <2>2. LockInv(p)'
    <3>1. tables'[p] # None
      BY <1>3, ValueAssumption
    <3> QED
      BY <1>1, <1>2, <1>6, <2>1, <3>1 DEF ProcessInv, LockInv
  <2>3. CountInv(p)'
    <3>1. Total(p) + Rejections(p) = Len(ms)
      BY <1>2, AllWritten
    <3>2. Total(p)' = Total(p) /\ Rejections(p)' = Rejections(p)
      BY <1>2, <2>1 DEF Total, Rejections
    <3> QED
      BY <2>1, <3>1, <3>2 DEF CountInv
  <2>4. CommitInv(p)'
    <3>1. tables'[p] = Applied(run[p].batch)
      BY <1>3, <1>8 DEF Applied, Messages, Observed
    <3>2. Fits(tables[p])'
      BY <1>3, <1>8 DEF Fits, Unique, Storable
    <3>3. Applied(run[p].batch)' = Applied(run[p].batch)
      BY <1>2 DEF Applied
    <3> QED
      BY <1>2, <1>8, <2>1, <3>1, <3>2, <3>3 DEF CommitInv
  <2> QED
    BY <2>1, <2>2, <2>3, <2>4 DEF ProcessInv, ReplanInv, WriteInv, PlannedInv
<1> QED
  BY <1>2, <1>4, <1>7, <1>9, LocalStep

----------------------------------------------------------------------------
(* The planner.                                                            *)

LEMMA OwnerIs ==
  ASSUME NEW t, Fits(t), NEW i \in Identity, NEW e \in Export
  PROVE  Owner(t, i) = e <=> t.rows[e] # NoRow /\ t.rows[e].at = i
<1> DEFINE owning == {f \in Export : t.rows[f] # NoRow /\ t.rows[f].at = i}
<1>1. CASE owning = {}
  BY <1>1, ValueAssumption DEF Owner
<1>2. CASE owning # {}
  <2>1. PICK f : f = CHOOSE g \in owning : TRUE
    OBVIOUS
  <2>2. f \in owning /\ Owner(t, i) = f
    BY <1>2, <2>1 DEF Owner
  <2> QED
    BY <2>2 DEF Fits, Unique
<1> QED
  BY <1>1, <1>2

\* What _load_record_state reads is the row.
LEMMA LoadIs ==
  ASSUME NEW t \in Tables, NEW e \in Export
  PROVE  /\ Load(t, e) = NoRow <=> t.rows[e] = NoRow
         /\ t.rows[e] # NoRow =>
              Load(t, e).at = t.rows[e].at /\ Load(t, e).meta = t.rows[e].meta
<1>1. CASE t.rows[e] = NoRow
  BY <1>1 DEF Load
<1>2. CASE t.rows[e] # NoRow
  <2>1. t.rows[e] \in Row
    BY <1>2 DEF Tables
  <2>2. Load(t, e) = [at |-> t.rows[e].at, meta |-> t.rows[e].meta,
                      sorted |-> t.rows[e].meta \notin Reordered]
    BY <1>2 DEF Load
  <2>3. Load(t, e) \in State
    BY <2>1, <2>2 DEF Row, State
  <2> QED
    BY <1>2, <2>2, <2>3, ValueAssumption
<1> QED
  BY <1>1, <1>2

LEMMA FreshMirror ==
  ASSUME NEW p \in Process, states[p] = NothingRead, owners[p] = NobodyRead, Fits(View(p))
  PROVE  Mirror(p, View(p).rows)
<1>1. ASSUME NEW e \in Export PROVE Existing(p, e) = Load(View(p), e)
  BY DEF Existing, NothingRead
<1>2. ASSUME NEW i \in Identity PROVE CurrentOwner(p, i) = Owner(View(p), i)
  BY DEF CurrentOwner, NobodyRead
<1>3. PICK t : t = View(p)
  OBVIOUS
<1>4. t \in Tables /\ Fits(t)
  BY <1>3 DEF Fits
<1> QED
  BY <1>1, <1>2, <1>3, <1>4, LoadIs, OwnerIs DEF Mirror

LEMMA PlannedIsRight ==
  ASSUME NEW p \in Process, NEW rows \in [Export -> Row \cup {NoRow}], Mirror(p, rows),
         NEW r \in Message, MapperAccepts(r), PlannedAction(p, r) # "failed"
  PROVE  Right(rows, r, PlannedAction(p, r))
<1>1. Valid(r) /\ ~Taken(p, r) /\ r.kind = "good" /\ r.export \in Export /\ r.at \in Identity
  BY DEF PlannedAction, MapperAccepts, Valid, Message, Kind
<1>2. Ledger!Free(rows, r)
  <2> SUFFICES ASSUME NEW e \in Export \ {r.export}, rows[e] # NoRow, rows[e].at = r.at
               PROVE  FALSE
    BY DEF Ledger!Free
  <2>1. CurrentOwner(p, r.at) = e
    BY <1>1 DEF Mirror
  <2> QED
    BY <1>1, <2>1, ValueAssumption DEF Taken
<1>3. PICK old : old = Existing(p, r.export)
  OBVIOUS
<1>4. /\ old = NoRow <=> rows[r.export] = NoRow
      /\ rows[r.export] # NoRow => old.at = rows[r.export].at /\ old.meta = rows[r.export].meta
  BY <1>1, <1>3 DEF Mirror
<1>5. PlannedAction(p, r) = IF old = NoRow THEN "inserted"
                            ELSE IF old = StateOf(r) THEN "unchanged" ELSE "updated"
  BY <1>1, <1>3 DEF PlannedAction
<1>6. PlannedAction(p, r) = "inserted" <=> old = NoRow
  BY <1>5
<1>7. ASSUME PlannedAction(p, r) = "unchanged" PROVE rows[r.export] = Ledger!RowOf(r)
  <2>1. old # NoRow /\ old = StateOf(r)
    BY <1>5, <1>7
  <2>2. rows[r.export] \in Row /\ rows[r.export].at = r.at /\ rows[r.export].meta = r.meta
    BY <1>1, <1>4, <2>1 DEF StateOf
  <2> QED
    BY <2>2 DEF Row, Ledger!RowOf
<1> QED
  BY <1>1, <1>2, <1>4, <1>6, <1>7 DEF Right

\* What the planner remembers of a record it does not let fail is as if it were written.
LEMMA MirrorNext ==
  ASSUME PlainTypes, NEW p \in Process, NEW rows \in [Export -> Row \cup {NoRow}],
         Mirror(p, rows), NEW r \in Message, Ledger!Free(rows, r), View(p)' = View(p),
         states' = [states EXCEPT ![p][r.export] = StateOf(r)],
         owners' = [owners EXCEPT ![p] = OwnersAfter(p, r)]
  PROVE  Mirror(p, Put(rows, r))'
<1>1. r.export \in Export /\ r.at \in Identity /\ r.meta \in Meta /\ StateOf(r) \in State
  BY DEF Message, StateOf, State
<1>2. \A e \in Export : Put(rows, r)[e] = IF e = r.export THEN [at |-> r.at, meta |-> r.meta]
                                          ELSE rows[e]
  BY DEF Put
<1>3. [at |-> r.at, meta |-> r.meta] # NoRow
  <2>1. [at |-> r.at, meta |-> r.meta] \in Row
    BY <1>1 DEF Row
  <2> QED
    BY <2>1, ValueAssumption
<1>4. /\ states'[p][r.export] = StateOf(r)
      /\ \A e \in Export : e # r.export => states'[p][e] = states[p][e]
  <2>1. states[p] \in [Export -> State \cup {NoRow, Unread}]
        /\ states \in [Process -> [Export -> State \cup {NoRow, Unread}]]
    BY DEF PlainTypes
  <2> QED
    BY <1>1, <2>1
<1>5. owners'[p] = OwnersAfter(p, r)
  BY DEF PlainTypes
<1>6. Existing(p, r.export)' = StateOf(r)
  <2>1. StateOf(r) # Unread
    BY <1>1, ValueAssumption
  <2> QED
    BY <1>4, <2>1 DEF Existing
<1>7. \A e \in Export : e # r.export => Existing(p, e)' = Existing(p, e)
  BY <1>4 DEF Existing
<1>8. CurrentOwner(p, r.at)' = r.export
  <2>1. owners'[p][r.at] = r.export /\ r.export # Unread
    BY <1>1, <1>5, ValueAssumption DEF OwnersAfter, Left
  <2> QED
    BY <2>1 DEF CurrentOwner
<1>9. ASSUME NEW i \in Identity, i # r.at, i \in Left(p, r) PROVE CurrentOwner(p, i)' = Nobody
  <2>1. owners'[p][i] = Nobody /\ Nobody # Unread
    BY <1>5, <1>9, ValueAssumption DEF OwnersAfter
  <2> QED
    BY <2>1 DEF CurrentOwner
<1>10. ASSUME NEW i \in Identity, i # r.at, i \notin Left(p, r)
       PROVE  CurrentOwner(p, i)' = CurrentOwner(p, i)
  <2>1. owners'[p][i] = owners[p][i]
    BY <1>5, <1>10 DEF OwnersAfter
  <2> QED
    BY <2>1 DEF CurrentOwner
<1>11. ASSUME NEW e \in Export
       PROVE  /\ Existing(p, e)' = NoRow <=> Put(rows, r)[e] = NoRow
              /\ Put(rows, r)[e] # NoRow => /\ Existing(p, e)'.at = Put(rows, r)[e].at
                                            /\ Existing(p, e)'.meta = Put(rows, r)[e].meta
  <2>1. CASE e = r.export
    <3>1. StateOf(r) # NoRow
      BY <1>1, ValueAssumption
    <3> QED
      BY <1>2, <1>3, <1>6, <2>1, <3>1 DEF StateOf
  <2>2. CASE e # r.export
    BY <1>2, <1>7, <2>2 DEF Mirror
  <2> QED
    BY <2>1, <2>2
<1>12. /\ Existing(p, r.export) = NoRow <=> rows[r.export] = NoRow
       /\ rows[r.export] # NoRow => Existing(p, r.export).at = rows[r.export].at
       /\ \A i \in Identity, e \in Export :
            CurrentOwner(p, i) = e <=> rows[e] # NoRow /\ rows[e].at = i
  BY <1>1 DEF Mirror
<1>13. Left(p, r) = IF rows[r.export] = NoRow THEN {} ELSE {rows[r.export].at} \ {r.at}
  BY <1>12 DEF Left
<1>14. ASSUME NEW i \in Identity, NEW e \in Export
       PROVE  CurrentOwner(p, i)' = e <=> Put(rows, r)[e] # NoRow /\ Put(rows, r)[e].at = i
  <2>1. CASE i = r.at
    <3>1. CASE e = r.export
      BY <1>2, <1>3, <1>8, <2>1, <3>1
    <3>2. CASE e # r.export
      BY <1>2, <1>8, <2>1, <3>2 DEF Ledger!Free
    <3> QED
      BY <3>1, <3>2
  <2>2. CASE i # r.at /\ i \in Left(p, r)
    <3>1. CurrentOwner(p, i)' = Nobody /\ Nobody # e
      BY <1>9, <2>2, ValueAssumption
    <3>2. rows[r.export] # NoRow /\ rows[r.export].at = i
      BY <1>13, <2>2
    <3>3. CurrentOwner(p, i) = r.export
      BY <1>1, <1>12, <3>2
    <3>4. e # r.export => ~(rows[e] # NoRow /\ rows[e].at = i)
      BY <1>12, <3>3
    <3> QED
      BY <1>2, <2>2, <3>1, <3>4
  <2>3. CASE i # r.at /\ i \notin Left(p, r)
    <3>1. CurrentOwner(p, i)' = CurrentOwner(p, i)
      BY <1>10, <2>3
    <3>2. CASE e # r.export
      BY <1>2, <1>12, <3>1, <3>2
    <3>3. CASE e = r.export
      <4>1. ~(rows[r.export] # NoRow /\ rows[r.export].at = i)
        BY <1>13, <2>3
      <4> QED
        BY <1>2, <1>12, <2>3, <3>1, <3>3, <4>1
    <3> QED
      BY <3>2, <3>3
  <2> QED
    BY <2>1, <2>2, <2>3
<1> QED
  BY <1>11, <1>14 DEF Mirror

\* What planning a record does to the plan, and to the view of its transaction.
LEMMA PlanRecordEffect ==
  ASSUME WriterInv, NEW p \in Process, PlanRecord(p), NEW ms, ms = Messages(p),
         NEW k, k = Len(plan[p]), NEW r, r = ms[k + 1], NEW a, a = PlannedAction(p, r)
  PROVE  /\ k \in Nat /\ ms \in Seq(Message) /\ k + 1 \in 1 .. Len(ms) /\ r \in Message
         /\ a \in Outcome
         /\ a = "rejected" <=> ~MapperAccepts(r)
         /\ Len(plan'[p]) = k + 1 /\ plan'[p][k + 1] = a /\ DOMAIN plan'[p] = 1 .. k + 1
         /\ \A i \in 1 .. k : plan'[p][i] = plan[p][i]
         /\ tables'[p] = IF pc[p] = "replan" THEN View(p) ELSE tables[p]
         /\ IF pc[p] = "replan" /\ k = 0 THEN ~stale'[p] ELSE stale'[p] = stale[p]
         /\ View(p)' = View(p) /\ Messages(p)' = ms
         /\ OthersSame(p)
<1>1. PlainTypes /\ TypeOK /\ ProcessInv(p)
  BY TypesAre DEF WriterInv
<1>2. k \in Nat /\ ms \in Seq(Message) /\ k + 1 \in 1 .. Len(ms) /\ r \in Message
      /\ plan[p] \in Seq(Outcome)
  <2>1. /\ ms \in Seq(Message) /\ Len(ms) \in Nat /\ k \in Nat /\ k < Len(ms)
        /\ plan[p] \in Seq(Outcome)
    BY <1>1, MessageTypes DEF PlanRecord
  <2>2. ms[k + 1] \in Message
    BY <2>1
  <2> QED
    BY <2>1, <2>2
<1>3. a \in Outcome /\ (a = "rejected" <=> ~MapperAccepts(r))
  BY DEF PlannedAction, Outcome, Action
<1>4. plan' = [plan EXCEPT ![p] = Append(plan[p], a)]
  BY DEF PlanRecord
<1>5. plan'[p] = Append(plan[p], a) /\ \A q \in Process \ {p} : plan'[q] = plan[q]
  BY <1>1, <1>4 DEF PlainTypes
<1>6. /\ Len(plan'[p]) = k + 1 /\ plan'[p][k + 1] = a /\ DOMAIN plan'[p] = 1 .. k + 1
      /\ \A i \in 1 .. k : plan'[p][i] = plan[p][i]
  <2>1. PICK s \in Seq(Outcome) : s = plan[p]
    BY <1>2
  <2>2. /\ Len(Append(s, a)) = k + 1 /\ Append(s, a)[k + 1] = a
        /\ DOMAIN Append(s, a) = 1 .. k + 1
        /\ \A i \in 1 .. k : Append(s, a)[i] = s[i]
    BY <1>2, <1>3, <2>1
  <2> QED
    BY <1>5, <2>1, <2>2
<1>7. plan[p] = <<>> <=> k = 0
  BY <1>2, EmptySeq
<1>8. /\ UNCHANGED <<db, writer, pc, run, next, counts>> /\ pc[p] \in {"plan", "replan"}
      /\ IF pc[p] = "replan" /\ plan[p] = <<>>
         THEN tables' = [tables EXCEPT ![p] = db] /\ stale' = [stale EXCEPT ![p] = FALSE]
         ELSE UNCHANGED <<tables, stale>>
  BY DEF PlanRecord
<1>9. /\ tables'[p] = IF pc[p] = "replan" THEN View(p) ELSE tables[p]
      /\ IF pc[p] = "replan" /\ k = 0 THEN ~stale'[p] ELSE stale'[p] = stale[p]
      /\ \A q \in Process \ {p} : tables'[q] = tables[q] /\ stale'[q] = stale[q]
  BY <1>1, <1>7, <1>8 DEF View, PlainTypes
<1>10. plan'[p] # <<>>
  <2>1. Len(plan'[p]) # 0
    BY <1>2, <1>6
  <2> QED
    BY <2>1
<1>11. View(p)' = View(p)
  BY <1>8, <1>9, <1>10 DEF View
<1>12. \A q \in Process \ {p} : states'[q] = states[q] /\ owners'[q] = owners[q]
  <2>1. \/ UNCHANGED <<states, owners>>
        \/ /\ states' = [states EXCEPT ![p][r.export] = Existing(p, r.export)]
           /\ owners' = [owners EXCEPT ![p][r.at] = CurrentOwner(p, r.at)]
        \/ /\ states' = [states EXCEPT ![p][r.export] = StateOf(r)]
           /\ owners' = [owners EXCEPT ![p] = OwnersAfter(p, r)]
    BY DEF PlanRecord
  <2> QED
    BY <1>1, <2>1 DEF PlainTypes
<1>13. OthersSame(p) /\ Messages(p)' = ms
  BY <1>5, <1>8, <1>9, <1>12 DEF OthersSame, Same, Messages
<1> QED
  BY <1>2, <1>3, <1>6, <1>9, <1>11, <1>13

LEMMA PlanRecordKeeps ==
  ASSUME WriterInv, NEW p \in Process, PlanRecord(p)
  PROVE  WriterInv'
<1>1. PlainTypes /\ TypeOK /\ ProcessInv(p)
  BY TypesAre DEF WriterInv
<1>2. PICK ms, k, r, a : /\ ms = Messages(p) /\ k = Len(plan[p]) /\ r = ms[k + 1]
                         /\ a = PlannedAction(p, r)
  OBVIOUS
<1>3. /\ k \in Nat /\ ms \in Seq(Message) /\ k + 1 \in 1 .. Len(ms) /\ r \in Message
      /\ a \in Outcome
      /\ a = "rejected" <=> ~MapperAccepts(r)
      /\ Len(plan'[p]) = k + 1 /\ plan'[p][k + 1] = a /\ DOMAIN plan'[p] = 1 .. k + 1
      /\ \A i \in 1 .. k : plan'[p][i] = plan[p][i]
      /\ tables'[p] = IF pc[p] = "replan" THEN View(p) ELSE tables[p]
      /\ IF pc[p] = "replan" /\ k = 0 THEN ~stale'[p] ELSE stale'[p] = stale[p]
      /\ View(p)' = View(p) /\ Messages(p)' = ms
      /\ OthersSame(p)
  BY <1>2, PlanRecordEffect
<1>4. /\ pc[p] \in {"plan", "replan"} /\ UNCHANGED <<db, writer, pc, run, next, counts>>
      /\ plan[p] \in Seq(Outcome) /\ DOMAIN plan[p] = 1 .. k /\ DOMAIN ms = 1 .. Len(ms)
      /\ plan[p] = <<>> <=> k = 0
      /\ Fits(View(p))
  BY <1>1, <1>2, <1>3, MessageTypes, EmptySeq, ViewFits DEF PlanRecord
<1>5. PlainTypes'
  BY <1>1, <1>4, PlanRecordTypes DEF PlainTypes
<1>6. \A i \in 1 .. k + 1 : i = k + 1 \/ i \in 1 .. k
  BY <1>3
<1>7. LockInv(p)'
  <2>1. tables'[p] = None => ~stale'[p]
    <3>1. pc[p] = "replan" => tables'[p] # None
      BY <1>3, <1>4, ValueAssumption DEF Fits
    <3> QED
      BY <1>1, <1>3, <1>4, <3>1 DEF ProcessInv, LockInv
  <2>2. pc[p] # "replan" => tables'[p] = tables[p]
    BY <1>3
  <2> QED
    BY <1>1, <1>2, <1>3, <1>4, <2>1, <2>2 DEF ProcessInv, LockInv
<1>8. CountInv(p)'
  <2>1. \A i \in 1 .. k : plan[p][i] = "rejected" <=> ~MapperAccepts(ms[i])
    BY <1>1, <1>2, <1>4 DEF ProcessInv, CountInv
  <2>2. \A i \in 1 .. k + 1 : plan'[p][i] = "rejected" <=> ~MapperAccepts(ms[i])
    BY <1>2, <1>3, <1>6, <2>1
  <2>3. Total(p)' = Total(p) /\ Rejections(p)' = Rejections(p)
    BY <1>2, <1>3, <1>4 DEF Total, Rejections
  <2> QED
    BY <1>1, <1>2, <1>3, <1>4, <2>2, <2>3 DEF ProcessInv, CountInv
<1>9. ASSUME pc[p] = "replan"
      PROVE  /\ Fits(tables[p])' /\ (stale'[p] \/ tables'[p] = db')
             /\ PlanHolds(tables[p].rows, ms, plan[p])'
             /\ Clean(plan'[p], k + 1) =>
                  Mirror(p, Ledger!RowsAfter(tables[p].rows, ms, k + 1))'
  <2>1. PICK t, rows : t = View(p) /\ rows = Ledger!RowsAfter(t.rows, ms, k)
    OBVIOUS
  <2>2. tables'[p] = t /\ Fits(t) /\ t.rows \in [Export -> Row \cup {NoRow}]
    <3>1. tables'[p] = t
      BY <1>3, <1>9, <2>1
    <3>2. Fits(t)
      BY <1>4, <1>9, <2>1
    <3> QED
      BY <3>1, <3>2 DEF Fits, Tables
  <2>3. rows \in [Export -> Row \cup {NoRow}]
    <3>1. k \in 0 .. Len(ms) /\ ms \in Seq(Message)
      BY <1>3
    <3>2. t.rows \in [Export -> Row \cup {NoRow}]
      BY <2>2
    <3> QED
      BY <2>1, <3>1, <3>2, RowsAfterTypes
  <2>4. /\ stale'[p] \/ t = db'
        /\ PlanHolds(t.rows, ms, plan[p])
        /\ Clean(plan[p], k) => Mirror(p, rows)
    <3>1. CASE k = 0
      <4>1. t = db /\ states[p] = NothingRead /\ owners[p] = NobodyRead
        BY <1>1, <1>4, <1>9, <2>1, <3>1 DEF View, ProcessInv, ReplanInv
      <4>2. PlanHolds(t.rows, ms, plan[p])
        BY <1>4, <3>1 DEF PlanHolds
      <4>3. rows = t.rows
        BY <2>1, <2>2, <3>1, RowsAtFirst
      <4>4. Mirror(p, t.rows)
        BY <1>4, <2>1, <4>1, FreshMirror
      <4> QED
        BY <1>4, <4>1, <4>2, <4>3, <4>4
    <3>2. CASE k # 0
      <4>1. t = tables[p] /\ stale'[p] = stale[p]
        BY <1>3, <1>4, <1>9, <2>1, <3>2 DEF View
      <4> QED
        BY <1>1, <1>2, <1>4, <1>9, <2>1, <3>2, <4>1 DEF ProcessInv, ReplanInv
    <3> QED
      BY <3>1, <3>2
  <2>5. MapperAccepts(r)
    BY <1>1, <1>2, <1>3, <1>4, <1>9 DEF ProcessInv, LockInv
  <2>6. \A j \in 1 .. k : Clean(plan'[p], j) => Clean(plan[p], j)
    BY <1>3 DEF Clean
  <2>7. ASSUME Clean(plan'[p], k + 1)
        PROVE  Mirror(p, rows) /\ a # "failed" /\ Right(rows, r, a)
    <3>1. a # "failed" /\ Clean(plan[p], k)
      BY <1>3, <2>7 DEF Clean
    <3> QED
      BY <1>2, <1>3, <2>3, <2>4, <2>5, <3>1, PlannedIsRight
  <2>8. PlanHolds(t.rows, ms, plan'[p])
    <3>1. \A j \in 1 .. k : Clean(plan[p], j) =>
            Right(Ledger!RowsAfter(t.rows, ms, j - 1), ms[j], plan[p][j])
      BY <1>4, <2>4 DEF PlanHolds
    <3>2. ASSUME NEW j \in 1 .. k + 1, Clean(plan'[p], j)
          PROVE  Right(Ledger!RowsAfter(t.rows, ms, j - 1), ms[j], plan'[p][j])
      <4>1. CASE j \in 1 .. k
        BY <1>3, <2>6, <3>1, <3>2, <4>1
      <4>2. CASE j = k + 1
        <5>1. j - 1 = k
          BY <1>3, <4>2
        <5>2. Right(rows, r, a)
          BY <2>7, <3>2, <4>2
        <5> QED
          BY <1>2, <1>3, <2>1, <4>2, <5>1, <5>2
      <4> QED
        BY <1>6, <4>1, <4>2
    <3> QED
      BY <1>3, <3>2 DEF PlanHolds
  <2>9. ASSUME Clean(plan'[p], k + 1)
        PROVE  Mirror(p, Ledger!RowsAfter(t.rows, ms, k + 1))'
    <3>1. Valid(r) /\ ~Taken(p, r)
      BY <1>2, <2>5, <2>7, <2>9 DEF PlannedAction
    <3>2. /\ states' = [states EXCEPT ![p][r.export] = StateOf(r)]
          /\ owners' = [owners EXCEPT ![p] = OwnersAfter(p, r)]
      BY <1>2, <2>5, <3>1 DEF PlanRecord
    <3>3. Ledger!Free(rows, r) /\ Mirror(p, rows)
      BY <2>7, <2>9 DEF Right
    <3>4. Mirror(p, Put(rows, r))'
      BY <1>1, <1>3, <2>3, <3>2, <3>3, MirrorNext
    <3>5. Put(rows, r) = Ledger!RowsAfter(t.rows, ms, k + 1)
      <4>1. k + 1 \in Nat /\ k + 1 > 0 /\ (k + 1) - 1 = k
        BY <1>3
      <4> QED
        BY <1>2, <2>1, <4>1, PutIsNext
    <3> QED
      BY <3>4, <3>5
  <2>10. Fits(tables[p])' /\ (stale'[p] \/ tables'[p] = db')
    BY <2>2, <2>4 DEF Fits
  <2>11. PlanHolds(tables[p].rows, ms, plan[p])'
    BY <2>2, <2>8
  <2>12. Clean(plan'[p], k + 1) => Mirror(p, Ledger!RowsAfter(tables[p].rows, ms, k + 1))'
    BY <2>2, <2>9
  <2> QED
    BY <2>10, <2>11, <2>12
<1>10. ReplanInv(p)'
  <2>1. plan'[p] # <<>>
    <3>1. Len(plan'[p]) # 0
      BY <1>3
    <3> QED
      BY <3>1
  <2>2. pc' = pc /\ Messages(p)' = ms /\ Len(plan'[p]) = k + 1
    BY <1>3, <1>4
  <2> QED
    BY <1>9, <2>1, <2>2 DEF ReplanInv
<1>11. PlannedInv(p)'
  BY <1>1, <1>4, PlannedStays
<1>12. ProcessInv(p)'
  BY <1>4, <1>7, <1>8, <1>10, <1>11 DEF ProcessInv, WriteInv, CommitInv
<1> QED
  BY <1>3, <1>4, <1>5, <1>12, LocalStep

----------------------------------------------------------------------------
(* The commit.                                                             *)

Coherent(t) ==
  \A e \in Export :
    /\ t.rows[e] = NoRow <=> t.decided[e] = None
    /\ t.rows[e] # NoRow =>
         /\ t.decided[e] = t.rows[e].meta
         /\ <<e, t.rows[e].at>> \in t.history
         /\ ~Collides(t.rows, [export |-> e, at |-> t.rows[e].at])

LEMMA AppliedCoheres ==
  ASSUME TypeOK, Coherent(db), NEW b \in Batches, NEW t, t = Applied(b), Fits(t)
  PROVE  Coherent(t)
<1>1. PICK ms, n : ms = b.messages /\ n = Len(ms)
  OBVIOUS
<1>2. ms \in Seq(Message) /\ n \in Nat /\ DOMAIN ms = 1 .. n
  BY <1>1, BatchAssumption
<1>3. PICK old \in Tables : old = db
  BY DEF TypeOK
<1>4. /\ t.rows = Ledger!RowsAfter(old.rows, ms, n)
      /\ t.decided = Ledger!DecisionsAfter(old.decided, ms)
      /\ t.history = old.history \cup {<<ms[i].export, ms[i].at>> : i \in DOMAIN ms}
  BY <1>1, <1>3 DEF Applied
<1>5. ASSUME NEW e \in Export
      PROVE  /\ t.rows[e] = NoRow <=> t.decided[e] = None
             /\ t.rows[e] # NoRow => /\ t.decided[e] = t.rows[e].meta
                                     /\ <<e, t.rows[e].at>> \in t.history
  <2>1. CASE Ledger!Mentions(ms, e, n)
    <3>1. PICK k : k = Ledger!Last(ms, e, n)
      OBVIOUS
    <3>2. k \in 1 .. n /\ ms[k].export = e
      BY <1>2, <2>1, <3>1, LastFacts
    <3>3. t.rows[e] = Ledger!RowOf(ms[k])
      BY <1>4, <2>1, <3>1 DEF Ledger!RowsAfter
    <3>4. t.decided[e] = ms[k].meta
      BY <1>1, <1>4, <2>1, <3>1 DEF Ledger!DecisionsAfter
    <3>5. ms[k] \in Message
      BY <1>2, <3>2
    <3>6. /\ Ledger!RowOf(ms[k]) \in Row /\ Ledger!RowOf(ms[k]).at = ms[k].at
          /\ Ledger!RowOf(ms[k]).meta = ms[k].meta /\ ms[k].meta \in Meta
      BY <3>5 DEF Ledger!RowOf, Row, Message
    <3>7. <<ms[k].export, ms[k].at>> \in t.history
      BY <1>2, <1>4, <3>2
    <3> QED
      BY <3>2, <3>3, <3>4, <3>6, <3>7, ValueAssumption
  <2>2. CASE ~Ledger!Mentions(ms, e, n)
    <3>1. t.rows[e] = old.rows[e]
      BY <1>4, <2>2 DEF Ledger!RowsAfter
    <3>2. t.decided[e] = old.decided[e]
      BY <1>1, <1>4, <2>2 DEF Ledger!DecisionsAfter
    <3>3. old.history \subseteq t.history
      BY <1>4
    <3> QED
      BY <1>3, <3>1, <3>2, <3>3 DEF Coherent
  <2> QED
    BY <2>1, <2>2
<1>6. ASSUME NEW e \in Export, t.rows[e] # NoRow
      PROVE  ~Collides(t.rows, [export |-> e, at |-> t.rows[e].at])
  BY <1>6 DEF Fits, Unique, Collides
<1> QED
  BY <1>5, <1>6 DEF Coherent

LEMMA CommitKeepsOther ==
  ASSUME WriterInv, NEW p \in Process, NEW q \in Process \ {p}, Commit(p), Same(q),
         writer = p, stale'[q] = (tables[q] # None)
  PROVE  ProcessInv(q)'
<1>1. ProcessInv(q) /\ Messages(q)' = Messages(q) /\ pc[q] # "commit"
  BY DEF WriterInv, ProcessInv, CommitInv, Same, Messages
<1>2. LockInv(q)'
  BY <1>1 DEF ProcessInv, LockInv, Same
<1>3. Fits(tables[q]) => stale'[q]
  BY ValueAssumption DEF Fits
<1>4. ASSUME pc[q] = "replan", plan[q] # <<>>
      PROVE  /\ \A e : Existing(q, e)' = Existing(q, e)
             /\ \A i : CurrentOwner(q, i)' = CurrentOwner(q, i)
  BY <1>4 DEF Same, Existing, CurrentOwner, View
<1>5. ReplanInv(q)'
  BY <1>1, <1>3, <1>4 DEF ProcessInv, ReplanInv, Same, Mirror
<1>6. WriteInv(q)'
  <2>1. CASE pc[q] = "write" /\ Messages(q) # <<>>
    <3>1. PICK base \in Tables :
            /\ Fits(base) /\ PlanHolds(base.rows, Messages(q), plan[q])
            /\ counts[q]["failed"] = 0 => Written(q, base, next[q] - 1)
      BY <1>1, <2>1 DEF ProcessInv, WriteInv
    <3>2. PICK n : n = next[q] - 1
      OBVIOUS
    <3>3. next'[q] - 1 = n /\ counts'[q] = counts[q]
      BY <3>2 DEF Same
    <3>4. Written(q, base, n)' <=> Written(q, base, n)
      BY <1>1 DEF Written, Same
    <3>5. counts'[q]["failed"] = 0 => Written(q, base, next[q] - 1)'
      <4>1. counts[q]["failed"] = 0 => Written(q, base, n)
        BY <3>1, <3>2
      <4>2. counts[q]["failed"] = 0 => Written(q, base, n)'
        BY <3>4, <4>1
      <4> HIDE DEF Written
      <4> QED
        BY <3>3, <4>2
    <3>6. Fits(tables[q]) /\ Len(plan[q]) = Len(Messages(q)) /\ stale'[q]
      BY <1>1, <1>3, <2>1 DEF ProcessInv, WriteInv
    <3>7. /\ Messages(q)' = Messages(q) /\ plan'[q] = plan[q] /\ tables'[q] = tables[q]
          /\ Fits(base)' /\ PlanHolds(base.rows, Messages(q), plan[q])'
      BY <1>1, <3>1 DEF Same, Fits, PlanHolds
    <3>8. \E t \in Tables :
            /\ Fits(t) /\ (stale'[q] \/ t = db')
            /\ PlanHolds(t.rows, Messages(q), plan[q])
            /\ counts'[q]["failed"] = 0 => Written(q, t, next[q] - 1)'
      BY <3>1, <3>5, <3>6
    <3> QED
      BY <1>1, <2>1, <3>6, <3>7, <3>8 DEF WriteInv
  <2>2. CASE ~(pc[q] = "write" /\ Messages(q) # <<>>)
    BY <1>1, <2>2 DEF ProcessInv, WriteInv, Same
  <2> QED
    BY <2>1, <2>2
<1>7. CommitInv(q)'
  BY <1>1 DEF CommitInv, Same
<1>8. CountInv(q)'
  BY <1>1 DEF ProcessInv, CountInv, Total, Rejections, Same
<1>9. PlannedInv(q)'
  BY <1>1, PlannedStays DEF Same
<1> QED
  BY <1>2, <1>5, <1>6, <1>7, <1>8, <1>9 DEF ProcessInv

LEMMA CommitKeeps ==
  ASSUME WriterInv, NEW p \in Process, Commit(p)
  PROVE  WriterInv'
<1>1. PlainTypes /\ TypeOK /\ ProcessInv(p) /\ Forget(p) /\ Finish(p)
  BY TypesAre DEF WriterInv, Commit, Finish
<1>2. /\ pc[p] = "commit" /\ db' = tables[p] /\ writer' = Nobody
      /\ tables' = [tables EXCEPT ![p] = None]
      /\ stale' = [q \in Process |-> q # p /\ tables[q] # None]
  BY DEF Commit
<1>3. PICK b \in Batches : b = run[p].batch
  BY <1>1, MessageTypes
<1>4. /\ writer = p /\ tables[p] = Applied(b) /\ Fits(tables[p])
  BY <1>1, <1>2, <1>3 DEF ProcessInv, CommitInv
<1>5. PICK t : t = Applied(b)
  OBVIOUS
<1>6. db' = t /\ Fits(t)
  BY <1>2, <1>4, <1>5
<1>7. /\ pc' \in [Process -> {"idle", "plan", "replan", "write", "commit", "done"}]
      /\ next' \in [Process -> Nat \ {0}] /\ UNCHANGED <<run, counts>>
      /\ pc'[p] = "done" /\ next'[p] = 1
      /\ \A q \in Process \ {p} : pc'[q] = pc[q] /\ next'[q] = next[q]
  BY <1>1, FinishTypes
<1>8. PlainTypes'
  <2>1. tables' \in [Process -> Tables \cup {None}] /\ stale' \in [Process -> BOOLEAN]
    BY <1>1, <1>2 DEF PlainTypes
  <2>2. db' \in Tables
    BY <1>6 DEF Fits
  <2> QED
    BY <1>1, <1>2, <1>7, <2>1, <2>2, ForgetTypes DEF PlainTypes
<1>9. \A q \in Process \ {p} : Same(q) /\ stale'[q] = (tables[q] # None)
  <2>1. \A q \in Process \ {p} :
          plan'[q] = plan[q] /\ states'[q] = states[q] /\ owners'[q] = owners[q]
    BY <1>1, ForgetTypes
  <2>2. \A q \in Process \ {p} : /\ tables'[q] = tables[q] /\ stale'[q] = (tables[q] # None)
                                 /\ (writer' = q <=> writer = q)
    BY <1>1, <1>2, <1>4, ValueAssumption DEF PlainTypes
  <2> QED
    BY <1>7, <2>1, <2>2 DEF Same
<1>10. \A q \in Process \ {p} : ProcessInv(q)'
  BY <1>4, <1>9, CommitKeepsOther
<1>11. ProcessInv(p)'
  <2>1. Messages(p)' = Messages(p) /\ Total(p)' = Total(p) /\ Rejections(p)' = Rejections(p)
        /\ Len(Messages(p)) \in Nat
    BY <1>1, <1>7, MessageTypes DEF Messages, Total, Rejections
  <2>2. plan'[p] = <<>> /\ tables'[p] = None /\ ~stale'[p] /\ writer' # p
    BY <1>1, <1>2, ForgetTypes, ValueAssumption DEF PlainTypes
  <2>3. Total(p) + Rejections(p) = Len(Messages(p))
    BY <1>1, <1>2 DEF ProcessInv, CountInv
  <2> QED
    BY <1>7, <2>1, <2>2, <2>3
    DEF ProcessInv, LockInv, ReplanInv, WriteInv, CommitInv, CountInv, PlannedInv
<1>12. TypeOK'
  <2>1. \A q \in Process : (next[q] <= Len(Messages(q)) + 1)'
    BY <1>10, <1>11 DEF ProcessInv, LockInv
  <2> QED
    BY <1>8, <2>1 DEF TypeOK, PlainTypes
<1>13. Fits(db)'
  BY <1>6
<1>14. IndexIsCoherent'
  <2>1. Coherent(db)
    BY DEF WriterInv, IndexIsCoherent, Coherent
  <2>2. Coherent(t)
    BY <1>1, <1>5, <1>6, <2>1, AppliedCoheres
  <2> QED
    BY <1>6, <2>2 DEF Coherent, IndexIsCoherent
<1>15. CheckpointInv'
  <2>1. ASSUME NEW c \in Batches, NEW i \in DOMAIN c.messages, t.checkpoint = c.cursor,
               \A j \in DOMAIN c.messages : c.messages[j].export = c.messages[i].export => j <= i
        PROVE  t.rows[c.messages[i].export] = Ledger!RowOf(c.messages[i])
    <3>1. PICK ms, n : ms = c.messages /\ n = Len(ms)
      OBVIOUS
    <3>2. ms \in Seq(Message) /\ n \in Nat /\ i \in 1 .. n /\ DOMAIN ms = 1 .. n
      BY <3>1, BatchAssumption
    <3>3. c = b
      BY <1>5, <2>1, BatchAssumption DEF Applied
    <3>4. t.rows = Ledger!RowsAfter(db.rows, ms, n)
      BY <1>5, <3>1, <3>3 DEF Applied
    <3>5. Ledger!Mentions(ms, ms[i].export, n) /\ Ledger!Last(ms, ms[i].export, n) = i
      BY <2>1, <3>1, <3>2, LastIs
    <3>6. ms[i].export \in Export
      <4>1. ms[i] \in Message
        BY <3>2
      <4> QED
        BY <4>1 DEF Message
    <3> QED
      BY <3>1, <3>4, <3>5, <3>6 DEF Ledger!RowsAfter
  <2> QED
    BY <1>6, <2>1 DEF CheckpointInv
<1> QED
  BY <1>10, <1>11, <1>12, <1>13, <1>14, <1>15 DEF WriterInv

----------------------------------------------------------------------------
(* The theorems.                                                           *)

LEMMA WriterInvInit ==
  ASSUME Init
  PROVE  WriterInv
<1>1. /\ db \in Tables /\ db.checkpoint = None
      /\ \A e \in Export : db.rows[e] = NoRow /\ db.decided[e] = None
  BY DEF Init, Tables
<1>2. PlainTypes
  BY <1>1, NothingTypesHold DEF Init, PlainTypes, NothingTypes
<1>3. Fits(db) /\ IndexIsCoherent /\ CheckpointInv
  BY <1>1, BatchAssumption DEF Fits, Unique, Storable, IndexIsCoherent, CheckpointInv
<1>4. ASSUME NEW p \in Process
      PROVE  ProcessInv(p) /\ next[p] <= Len(Messages(p)) + 1
  <2>1. /\ pc[p] = "idle" /\ plan[p] = <<>> /\ tables[p] = None /\ ~stale[p] /\ next[p] = 1
        /\ writer # p
    BY ValueAssumption DEF Init
  <2>2. Len(Messages(p)) \in Nat
    BY <1>2, BatchAssumption DEF PlainTypes, Messages
  <2> QED
    BY <2>1, <2>2 DEF ProcessInv, LockInv, ReplanInv, WriteInv, CommitInv, CountInv, PlannedInv
<1> QED
  BY <1>2, <1>3, <1>4, TypesFit DEF WriterInv

LEMMA WriterInvStep ==
  ASSUME WriterInv, [Next]_vars
  PROVE  WriterInv'
<1>1. CASE UNCHANGED vars
  <2>1. \A q \in Process : Same(q) /\ stale'[q] = stale[q]
    BY <1>1 DEF vars, Same
  <2>2. \A q \in Process : ProcessInv(q)'
    BY <1>1, <2>1, OtherKeeps DEF vars
  <2>3. TypeOK' /\ Fits(db)' /\ IndexIsCoherent' /\ CheckpointInv'
    BY <1>1 DEF vars, WriterInv, TypeOK, Messages, Fits, IndexIsCoherent, CheckpointInv
  <2> QED
    BY <2>2, <2>3 DEF WriterInv
<1>2. ASSUME NEW p \in Process, Step(p) PROVE WriterInv'
  BY <1>2, StartKeeps, PlanRecordKeeps, EndPlanKeeps, EndReplanKeeps, PassKeeps, WriteKeeps,
     WriteFailsKeeps, FailuresKeep, SavepointFailsKeeps, PersistKeeps, CommitKeeps, GoneKeeps
  DEF Step
<1> QED
  BY <1>1, <1>2 DEF Next

LEMMA WriterInvHolds == Spec => []WriterInv
<1>1. Init => WriterInv
  BY WriterInvInit
<1>2. WriterInv /\ [Next]_vars => WriterInv'
  BY WriterInvStep
<1> QED
  BY <1>1, <1>2, PTL DEF Spec

\* The state is of the types it is meant to be, whatever the batches.
THEOREM WriterTypesHold == Spec => []TypeOK
<1>1. WriterInv => TypeOK
  BY DEF WriterInv
<1> QED
  BY <1>1, WriterInvHolds, PTL

\* What _plan_records planned of a record in the transaction is what the tables call for
\* when _insert_record or _update_record comes to it, as long as none failed before.
THEOREM PlanIsKeptHolds == Spec => []PlanIsKept
<1>1. ASSUME WriterInv, NEW p \in Process, pc[p] = "write", next[p] <= Len(plan[p]),
             counts[p]["failed"] = 0, plan[p][next[p]] # "failed",
             NEW r, r = Messages(p)[next[p]]
      PROVE  /\ ~Collides(tables[p].rows, r)
             /\ plan[p][next[p]] = "inserted" <=> tables[p].rows[r.export] = NoRow
  <2>1. /\ Fits(tables[p]) /\ next[p] \in DOMAIN Messages(p) /\ next[p] \in DOMAIN plan[p]
        /\ Messages(p) # <<>> /\ Len(plan[p]) = Len(Messages(p)) /\ r \in Message
    BY <1>1, WritingFacts
  <2>2. PICK n \in Nat : n = next[p]
    BY <1>1, MessageTypes DEF WriterInv
  <2>3. PICK base \in Tables : /\ PlanHolds(base.rows, Messages(p), plan[p])
                               /\ Written(p, base, next[p] - 1)
    BY <1>1, <2>1 DEF WriterInv, ProcessInv, WriteInv
  <2>4. Clean(plan[p], n)
    <3>1. \A i \in 1 .. n : i = n \/ i \in 1 .. n - 1
      OBVIOUS
    <3> QED
      BY <1>1, <2>2, <2>3, <3>1 DEF Written, Clean
  <2>5. Right(Ledger!RowsAfter(base.rows, Messages(p), n - 1), r, plan[p][n])
    BY <1>1, <2>1, <2>2, <2>3, <2>4 DEF PlanHolds
  <2>6. tables[p].rows = Ledger!RowsAfter(base.rows, Messages(p), n - 1)
    BY <2>2, <2>3 DEF Written, Tables
  <2> QED
    BY <2>2, <2>5, <2>6 DEF Right, Ledger!Free, Collides
<1>2. WriterInv => PlanIsKept
  BY <1>1 DEF PlanIsKept
<1> QED
  BY <1>2, WriterInvHolds, PTL

\* A finished run_sync_batch has counted every message of its batch exactly once.
THEOREM InputsAreAccountedHolds == Spec => []InputsAreAccounted
<1>1. WriterInv => InputsAreAccounted
  BY DEF WriterInv, ProcessInv, CountInv, Total, InputsAreAccounted, Messages
<1> QED
  BY <1>1, WriterInvHolds, PTL

\* The rows, decisions and locator history that syncs commit fit together, however they
\* interleave and fail.
THEOREM IndexIsCoherentHolds == Spec => []IndexIsCoherent
<1>1. WriterInv => IndexIsCoherent
  BY DEF WriterInv
<1> QED
  BY <1>1, WriterInvHolds, PTL

\* Where no attachments are sorted otherwise by SQL, the batch of the checkpoint would be
\* reported as unchanged.
THEOREM ReplayIsUnchangedHolds ==
  ASSUME Reordered = {}
  PROVE  Spec => []ReplayIsUnchanged
<1>1. ASSUME WriterInv, NEW b \in Batches, NEW i \in DOMAIN b.messages,
             db.checkpoint = b.cursor,
             \A j \in DOMAIN b.messages : b.messages[j].export = b.messages[i].export => j <= i
      PROVE  Load(db, b.messages[i].export) = StateOf(b.messages[i])
  <2>1. PICK r : r = b.messages[i]
    OBVIOUS
  <2>2. r \in Message
    BY <2>1, BatchAssumption
  <2>3. db.rows[r.export] = Ledger!RowOf(r)
    BY <1>1, <2>1 DEF WriterInv, CheckpointInv
  <2>4. Ledger!RowOf(r) \in Row /\ Ledger!RowOf(r).at = r.at /\ Ledger!RowOf(r).meta = r.meta
    BY <2>2 DEF Ledger!RowOf, Row, Message
  <2>5. db.rows[r.export] # NoRow
    BY <2>3, <2>4, ValueAssumption
  <2> QED
    BY <2>1, <2>3, <2>4, <2>5 DEF Load, StateOf
<1>2. WriterInv => ReplayIsUnchanged
  BY <1>1 DEF ReplayIsUnchanged
<1> QED
  BY <1>2, WriterInvHolds, PTL

\* Each commit applies one batch whole, as SyncLedger does, and nothing else changes what
\* is committed: IndexWriter implements it.
THEOREM ImplementsSyncLedgerHolds == Spec => ImplementsSyncLedger
<1>1. Init => Ledger!Init
  BY DEF Init, Ledger!Init
<1>2. ASSUME WriterInv, [Next]_vars PROVE [Ledger!Next]_db
  <2>1. CASE UNCHANGED vars
    BY <2>1 DEF vars
  <2>2. ASSUME NEW p \in Process, Commit(p) PROVE Ledger!Next
    <3>1. PICK b \in Batches : b = run[p].batch
      BY <1>2, MessageTypes DEF WriterInv
    <3>2. Ledger!Acceptable(db.rows, b.messages) /\ tables[p] = Applied(b)
      BY <1>2, <2>2, <3>1 DEF WriterInv, ProcessInv, CommitInv, Commit, Messages
    <3>3. Ledger!Apply(b)
      BY <2>2, <3>2 DEF Ledger!Apply, Applied, Commit
    <3> QED
      BY <3>3 DEF Ledger!Next
  <2>3. ASSUME NEW p \in Process, Step(p), ~Commit(p) PROVE UNCHANGED db
    BY <2>3 DEF Step, Start, PlanRecord, EndPlan, EndReplan, Pass, Write, WriteFails,
                ReplanFails, SavepointFails, RollBack, Persist, PersistFails, Return, Crash, Drop
  <2> QED
    BY <1>2, <2>1, <2>2, <2>3 DEF Next
<1>3. WriterInv /\ [Next]_vars => [Ledger!Next]_db
  BY <1>2
<1> QED
  BY <1>1, <1>3, WriterInvHolds, PTL DEF Spec, ImplementsSyncLedger, Ledger!Spec

----------------------------------------------------------------------------
(* The search, and the order of its rows.                                  *)

\* A row comes before the other in the order of the results.
Earlier(e, f) == Before(db.rows[e].meta, e, db.rows[f].meta, f)

\* Of the steady rows, those up to the cursor have been shown, once each.
SearchInv ==
  /\ cursor \in [sent : Meta, export : Export] \cup {None}
  /\ shown \in [Export -> Nat]
  /\ steady \subseteq Matching
  /\ \A e \in steady : shown[e] = IF BeyondCursor(e) THEN 0 ELSE 1
  /\ over => \A e \in steady : ~BeyondCursor(e)

LEMMA MatchingTypes ==
  ASSUME TypeOK
  PROVE  /\ Matching \subseteq Export /\ Page \subseteq Candidates /\ Candidates \subseteq Matching
         /\ \A e \in Matching : e \in Nat /\ db.rows[e].meta \in Nat /\ db.rows[e].meta \in Meta
<1>1. ASSUME NEW e \in Export, db.rows[e] # NoRow
      PROVE  e \in Nat /\ db.rows[e].meta \in Meta /\ db.rows[e].meta \in Nat
  <2>1. db.rows[e] \in Row
    BY <1>1 DEF TypeOK, Tables
  <2> QED
    BY <2>1, SearchAssumption DEF Row
<1> QED
  BY <1>1 DEF Matching, Page, Candidates

LEMMA OrderIsTotal ==
  ASSUME TypeOK, NEW e \in Matching, NEW f \in Matching
  PROVE  /\ ~Earlier(e, e)
         /\ e # f => Earlier(e, f) \/ Earlier(f, e)
         /\ \A g \in Matching : Earlier(e, f) /\ Earlier(f, g) => Earlier(e, g)
<1>1. \A x \in Matching : x \in Nat /\ db.rows[x].meta \in Nat
  BY MatchingTypes
<1> QED
  BY <1>1 DEF Earlier, Before

LEMMA AheadGrows ==
  ASSUME TypeOK, NEW e \in Candidates, NEW f \in Candidates
  PROVE  /\ Ahead(e) \subseteq Candidates /\ Cardinality(Ahead(e)) \in Nat
         /\ Earlier(e, f) => Cardinality(Ahead(e)) < Cardinality(Ahead(f))
<1>1. Ahead(e) \subseteq Candidates /\ Ahead(f) \subseteq Candidates
  BY DEF Ahead
<1>2. IsFiniteSet(Candidates)
  BY MatchingTypes, SearchAssumption, FS_Subset
<1>3. /\ IsFiniteSet(Ahead(e)) /\ IsFiniteSet(Ahead(f))
      /\ Cardinality(Ahead(e)) \in Nat /\ Cardinality(Ahead(f)) \in Nat
  BY <1>1, <1>2, FS_Subset, FS_CardinalityType
<1>4. ASSUME Earlier(e, f)
      PROVE  Cardinality(Ahead(e)) < Cardinality(Ahead(f))
  <2>1. e \notin Ahead(e) /\ e \in Ahead(f)
    BY <1>4, MatchingTypes, OrderIsTotal DEF Ahead, Earlier
  <2>2. Ahead(e) \subseteq Ahead(f)
    <3> SUFFICES ASSUME NEW g \in Ahead(e) PROVE g \in Ahead(f)
      OBVIOUS
    <3>1. g \in Candidates /\ Earlier(g, e)
      BY DEF Ahead, Earlier
    <3>2. Earlier(g, f)
      BY <1>4, <3>1, MatchingTypes, OrderIsTotal
    <3> QED
      BY <3>1, <3>2 DEF Ahead, Earlier
  <2>3. Cardinality(Ahead(e)) <= Cardinality(Ahead(f))
        /\ (Cardinality(Ahead(e)) = Cardinality(Ahead(f)) => Ahead(e) = Ahead(f))
    BY <1>3, <2>2, FS_Subset
  <2> QED
    BY <1>3, <2>1, <2>3
<1> QED
  BY <1>1, <1>3, <1>4

LEMMA LeastOfNaturals ==
  ASSUME NEW T \in SUBSET Nat, T # {}
  PROVE  \E k \in T : \A m \in T : k <= m
<1>1. PICK n \in T : TRUE
  OBVIOUS
<1> DEFINE S == {i \in 1 .. n + 1 : (n + 1) - i \in T}
<1>2. S \in SUBSET (1 .. n + 1) /\ n + 1 \in Nat
  BY <1>1
<1>3. S # {}
  <2>1. 1 \in 1 .. n + 1 /\ (n + 1) - 1 \in T
    BY <1>1
  <2> QED
    BY <2>1
<1>4. PICK i \in S : \A j \in S : j <= i
  BY <1>2, <1>3, Greatest
<1>5. (n + 1) - i \in T /\ i \in 1 .. n + 1
  BY <1>4
<1>6. ASSUME NEW m \in T PROVE (n + 1) - i <= m
  <2>1. CASE m > n
    BY <1>1, <1>5, <1>6, <2>1
  <2>2. CASE m <= n
    <3>1. m \in Nat /\ n \in Nat
      BY <1>1, <1>6
    <3>2. (n + 1) - m \in 1 .. n + 1 /\ (n + 1) - ((n + 1) - m) = m
      BY <2>2, <3>1
    <3>3. (n + 1) - m \in S
      BY <1>6, <3>2
    <3>4. (n + 1) - m <= i
      BY <1>4, <3>3
    <3> QED
      BY <1>5, <3>1, <3>4
  <2> QED
    BY <1>1, <2>1, <2>2
<1> QED
  BY <1>5, <1>6

\* Where there is something to show, it is shown from the first row on.
LEMMA PageStarts ==
  ASSUME TypeOK, Candidates # {}
  PROVE  Page # {}
<1> DEFINE T == {Cardinality(Ahead(e)) : e \in Candidates}
<1>1. T \in SUBSET Nat /\ T # {}
  BY AheadGrows
<1>2. PICK k \in T : \A m \in T : k <= m
  BY <1>1, LeastOfNaturals
<1>3. PICK e \in Candidates : k = Cardinality(Ahead(e))
  BY <1>2
<1>4. Ahead(e) = {}
  <2> SUFFICES ASSUME NEW f \in Ahead(e) PROVE FALSE
    OBVIOUS
  <2>1. f \in Candidates /\ Earlier(f, e)
    BY DEF Ahead, Earlier
  <2>2. Cardinality(Ahead(f)) < Cardinality(Ahead(e)) /\ Cardinality(Ahead(f)) \in Nat
        /\ Cardinality(Ahead(e)) \in Nat
    BY <2>1, AheadGrows
  <2>3. k <= Cardinality(Ahead(f))
    BY <1>2, <2>1
  <2> QED
    BY <1>3, <2>2, <2>3
<1>5. Cardinality(Ahead(e)) < Limit
  BY <1>4, FS_EmptySet, SearchAssumption
<1> QED
  BY <1>3, <1>5 DEF Page

\* A page has a last row.
LEMMA PageEnds ==
  ASSUME TypeOK, Page # {}
  PROVE  LastOfPage \in Page /\ \A f \in Page : f = LastOfPage \/ Earlier(f, LastOfPage)
<1> DEFINE T == {Cardinality(Ahead(e)) + 1 : e \in Page}
<1>1. Page \subseteq Candidates /\ Limit \in Nat
  BY MatchingTypes, SearchAssumption
<1>2. T \in SUBSET (1 .. Limit) /\ T # {}
  <2>1. \A e \in Page : Cardinality(Ahead(e)) + 1 \in 1 .. Limit
    BY <1>1, AheadGrows DEF Page
  <2> QED
    BY <2>1
<1>3. PICK k \in T : \A m \in T : m <= k
  BY <1>1, <1>2, Greatest
<1>4. PICK e \in Page : k = Cardinality(Ahead(e)) + 1
  BY <1>3
<1>5. \A f \in Page : f = e \/ f \in Ahead(e)
  <2> SUFFICES ASSUME NEW f \in Page, f # e, f \notin Ahead(e) PROVE FALSE
    OBVIOUS
  <2>1. ~Earlier(f, e)
    BY <1>1 DEF Ahead, Earlier
  <2>2. Earlier(e, f)
    BY <1>1, <2>1, MatchingTypes, OrderIsTotal
  <2>3. Cardinality(Ahead(e)) < Cardinality(Ahead(f)) /\ Cardinality(Ahead(f)) \in Nat
        /\ Cardinality(Ahead(e)) \in Nat
    BY <1>1, <2>2, AheadGrows
  <2>4. Cardinality(Ahead(f)) + 1 <= k
    BY <1>3
  <2> QED
    BY <1>4, <2>3, <2>4
<1>6. LastOfPage \in Page /\ \A f \in Page : f = LastOfPage \/ f \in Ahead(LastOfPage)
  BY <1>4, <1>5 DEF LastOfPage
<1> QED
  BY <1>6 DEF Ahead, Earlier

\* What is not on the page comes after it.
LEMMA RestIsLater ==
  ASSUME TypeOK, Page # {}, NEW e \in Candidates, e \notin Page
  PROVE  Earlier(LastOfPage, e)
<1>1. PICK last : last = LastOfPage
  OBVIOUS
<1>2. last \in Page /\ last \in Candidates /\ last \in Matching /\ e \in Matching
  BY <1>1, PageEnds, MatchingTypes
<1>3. ASSUME Earlier(e, last) PROVE FALSE
  <2>1. Cardinality(Ahead(e)) < Cardinality(Ahead(last)) /\ Cardinality(Ahead(e)) \in Nat
        /\ Cardinality(Ahead(last)) \in Nat
    BY <1>2, <1>3, AheadGrows
  <2>2. Cardinality(Ahead(last)) < Limit /\ ~(Cardinality(Ahead(e)) < Limit) /\ Limit \in Nat
    BY <1>2, SearchAssumption DEF Page
  <2> QED
    BY <2>1, <2>2
<1>4. e # last
  BY <1>2
<1> QED
  BY <1>1, <1>2, <1>3, <1>4, OrderIsTotal

LEMMA NextPageKeeps ==
  ASSUME TypeOK, SearchInv, NextPage
  PROVE  SearchInv'
<1>1. /\ over' = (Page = {}) /\ UNCHANGED <<vars, steady>> /\ db' = db
      /\ shown' = [e \in Export |-> IF e \in Page /\ shown[e] < 2 THEN shown[e] + 1 ELSE shown[e]]
      /\ cursor' = IF Page = {} THEN cursor
                   ELSE [sent |-> db.rows[LastOfPage].meta, export |-> LastOfPage]
  BY DEF NextPage, vars
<1>2. /\ cursor \in [sent : Meta, export : Export] \cup {None} /\ shown \in [Export -> Nat]
      /\ steady \subseteq Matching
      /\ \A e \in steady : shown[e] = IF BeyondCursor(e) THEN 0 ELSE 1
  BY DEF SearchInv
<1>3. /\ Matching \subseteq Export /\ Page \subseteq Candidates /\ Candidates \subseteq Matching
      /\ \A e \in Matching : e \in Nat /\ db.rows[e].meta \in Nat /\ db.rows[e].meta \in Meta
  BY MatchingTypes
<1>4. shown' \in [Export -> Nat] /\ Matching' = Matching
  BY <1>1, <1>2 DEF Matching
<1>5. CASE Page = {}
  <2>1. Candidates = {} /\ cursor' = cursor
    BY <1>1, <1>5, PageStarts
  <2>2. \A e \in Export : BeyondCursor(e)' = BeyondCursor(e) /\ shown'[e] = shown[e]
    BY <1>1, <1>2, <1>5, <2>1 DEF BeyondCursor
  <2>3. \A e \in steady : ~BeyondCursor(e)
    BY <1>2, <2>1 DEF Candidates
  <2> QED
    BY <1>1, <1>2, <1>3, <1>4, <2>1, <2>2, <2>3 DEF SearchInv
<1>6. CASE Page # {}
  <2>1. PICK last : last = LastOfPage
    OBVIOUS
  <2>2. /\ last \in Page /\ \A f \in Page : f = last \/ Earlier(f, last)
        /\ last \in Candidates /\ last \in Matching
    BY <1>3, <1>6, <2>1, PageEnds
  <2>3. /\ cursor' = [sent |-> db.rows[last].meta, export |-> last] /\ ~over'
        /\ cursor' \in [sent : Meta, export : Export] /\ cursor' # None
    <3>1. cursor' = [sent |-> db.rows[last].meta, export |-> last] /\ ~over'
      BY <1>1, <1>6, <2>1
    <3>2. db.rows[last].meta \in Meta /\ last \in Export
      BY <1>3, <2>2
    <3>3. cursor' \in [sent : Meta, export : Export]
      BY <3>1, <3>2
    <3> QED
      BY <3>1, <3>3, SearchAssumption
  <2>4. ASSUME NEW e \in Export PROVE BeyondCursor(e)' <=> Earlier(last, e)
    BY <1>1, <2>3 DEF BeyondCursor, Earlier
  <2>5. ASSUME NEW e \in steady
        PROVE  shown'[e] = IF Earlier(last, e) THEN 0 ELSE 1
    <3>1. e \in Matching /\ e \in Export /\ (shown[e] = IF BeyondCursor(e) THEN 0 ELSE 1)
      BY <1>2, <1>3, <2>5
    <3>2. CASE e \in Page
      <4>1. shown'[e] = 1
        BY <1>1, <1>3, <3>1, <3>2 DEF Candidates
      <4>2. ~Earlier(last, e)
        BY <2>2, <3>1, <3>2, OrderIsTotal
      <4> QED
        BY <4>1, <4>2
    <3>3. CASE e \in Candidates /\ e \notin Page
      BY <1>1, <1>6, <2>1, <3>1, <3>3, RestIsLater DEF Candidates
    <3>4. CASE e \notin Candidates
      <4>1. ~BeyondCursor(e) /\ shown'[e] = 1
        BY <1>1, <1>3, <3>1, <3>4 DEF Candidates
      <4>2. BeyondCursor(last)
        BY <2>2 DEF Candidates
      <4>3. cursor \in [sent : Meta, export : Export] /\ Meta \subseteq Nat /\ Export \subseteq Nat
        BY <1>2, <4>1, SearchAssumption DEF BeyondCursor
      <4>4. PICK s \in Nat, x \in Nat : s = cursor.sent /\ x = cursor.export
        BY <4>3
      <4>5. /\ Before(s, x, db.rows[last].meta, last)
            /\ ~Before(s, x, db.rows[e].meta, e)
        BY <4>1, <4>2, <4>4 DEF BeyondCursor
      <4>6. ~Earlier(last, e)
        BY <1>3, <2>2, <3>1, <4>4, <4>5 DEF Earlier, Before
      <4> QED
        BY <4>1, <4>6
    <3> QED
      BY <1>3, <3>2, <3>3, <3>4
  <2> QED
    BY <1>1, <1>2, <1>3, <1>4, <2>3, <2>4, <2>5 DEF SearchInv
<1> QED
  BY <1>5, <1>6

LEMMA SyncKeeps ==
  ASSUME TypeOK, SearchInv, Sync
  PROVE  SearchInv'
<1>1. /\ steady' = {e \in steady : db'.rows[e] = db.rows[e]}
      /\ UNCHANGED <<cursor, shown, over>>
  BY DEF Sync
<1>2. \A e \in steady' : e \in steady /\ db'.rows[e] = db.rows[e]
  BY <1>1
<1>3. \A e \in steady' : BeyondCursor(e)' = BeyondCursor(e)
  BY <1>1, <1>2 DEF BeyondCursor
<1>4. steady' \subseteq Matching'
  BY <1>2 DEF SearchInv, Matching
<1> QED
  BY <1>1, <1>2, <1>3, <1>4 DEF SearchInv

LEMMA FirstPageKeeps ==
  ASSUME TypeOK, SearchInv, FirstPage
  PROVE  SearchInv'
<1>1. /\ ~over' /\ cursor' = None /\ shown' = [e \in Export |-> 0] /\ steady' = Matching
      /\ db' = db
  BY DEF FirstPage, vars
<1>2. Matching' = Matching /\ \A e : BeyondCursor(e)'
  BY <1>1 DEF Matching, BeyondCursor
<1>3. steady' \subseteq Export
  BY <1>1, MatchingTypes
<1> QED
  BY <1>1, <1>2, <1>3 DEF SearchInv

\* Whatever is synced between the pages, each row that matches and does not change is
\* shown by exactly one page: for any limit, any filter and any batches.
THEOREM SteadyRowsOnceHolds == SearchSpec => []SteadyRowsOnce
<1>1. SearchInit => WriterInv /\ SearchInv
  BY WriterInvInit DEF SearchInit, SearchInv
<1>2. ASSUME WriterInv, SearchInv, [SearchNext]_<<vars, searchVars>>
      PROVE  WriterInv' /\ SearchInv'
  <2>1. TypeOK
    BY <1>2 DEF WriterInv
  <2>2. [Next]_vars
    BY <1>2 DEF SearchNext, FirstPage, NextPage, Sync
  <2>3. CASE UNCHANGED <<vars, searchVars>>
    <3>1. UNCHANGED <<db, cursor, shown, steady, over>>
      BY <2>3 DEF vars, searchVars
    <3> QED
      BY <1>2, <2>2, <3>1, WriterInvStep DEF SearchInv, Matching, BeyondCursor
  <2> QED
    BY <1>2, <2>1, <2>2, <2>3, WriterInvStep, FirstPageKeeps, NextPageKeeps, SyncKeeps
    DEF SearchNext
<1>3. SearchInv => SteadyRowsOnce
  BY DEF SearchInv, SteadyRowsOnce
<1>4. WriterInv /\ SearchInv /\ [SearchNext]_<<vars, searchVars>> => WriterInv' /\ SearchInv'
  BY <1>2
<1> QED
  BY <1>1, <1>3, <1>4, PTL DEF SearchSpec
=============================================================================
