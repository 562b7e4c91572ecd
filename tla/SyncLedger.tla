------------------------------ MODULE SyncLedger ------------------------------
(***************************************************************************)
(* What a sync promises of the index: a batch is applied in one step, rows, *)
(* decisions, locator history and checkpoint together, or not at all; and   *)
(* only a batch all of whose records could be written one after the other.  *)
(***************************************************************************)
EXTENDS Naturals, Sequences

CONSTANTS Export, Batches, Unstorable, NoRow, None

VARIABLES db

\* Among the first n records, the last of an export.
Mentions(records, e, n) == \E i \in 1 .. n : records[i].export = e
Last(records, e, n) ==
  CHOOSE i \in 1 .. n :
    records[i].export = e /\ \A j \in i + 1 .. n : records[j].export # e

\* The rows when the first n records are written, and the decisions when all are.
RowOf(r) == [at |-> r.at, meta |-> r.meta]

RowsAfter(rows, records, n) ==
  [e \in Export |->
     IF Mentions(records, e, n) THEN RowOf(records[Last(records, e, n)]) ELSE rows[e]]

DecisionsAfter(decided, records) ==
  LET n == Len(records)
  IN  [e \in Export |->
         IF Mentions(records, e, n) THEN records[Last(records, e, n)].meta ELSE decided[e]]

Free(rows, r) ==
  \A e \in Export \ {r.export} : rows[e] # NoRow => rows[e].at # r.at

Acceptable(rows, records) ==
  \A i \in DOMAIN records :
    /\ records[i].kind = "good" /\ records[i].meta \notin Unstorable
    /\ Free(RowsAfter(rows, records, i - 1), records[i])

Init ==
  db = [rows |-> [e \in Export |-> NoRow], decided |-> [e \in Export |-> None],
        history |-> {}, checkpoint |-> None]

Apply(b) ==
  LET records == b.messages
  IN  /\ Acceptable(db.rows, records)
      /\ db' = [rows |-> RowsAfter(db.rows, records, Len(records)),
                decided |-> DecisionsAfter(db.decided, records),
                history |-> db.history \cup
                              {<<records[i].export, records[i].at>> : i \in DOMAIN records},
                checkpoint |-> b.cursor]

Next == \E b \in Batches : Apply(b)

Spec == Init /\ [][Next]_db
===============================================================================
