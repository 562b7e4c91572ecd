------------------------------ MODULE LiveSync ------------------------------
(***************************************************************************)
(* Incremental sync of one live mailbox: `mpi sync run --cursor ...`, that *)
(* is, fetch_batch of live_adapter.py and run_sync_batch of sync.py, run   *)
(* by an operator who passes on the saved checkpoint, in processes that    *)
(* may overlap (cmd_sync takes no lease).                                  *)
(*                                                                         *)
(* The IMAP server is external: it delivers, expunges and, when the        *)
(* mailbox is rebuilt, renumbers its messages under a new UIDVALIDITY.     *)
(* Message subjects are all different, and a message has one copy.         *)
(***************************************************************************)
EXTENDS Naturals, FiniteSets, FiniteSetsExt

CONSTANTS
  Mail,          \* messages, by their Message-ID
  NoMail,        \* no message
  Malformed,     \* messages whose headers the adapter refuses
  Process,       \* processes running `mpi sync run`
  PageSize,      \* MAILPLUS_PAGE_SIZE
  MaxUid,        \* bound: UIDs the server assigns under one UIDVALIDITY
  MaxValidity    \* bound: values of UIDVALIDITY

ASSUME SyncAssumption ==
  /\ NoMail \notin Mail
  /\ Malformed \subseteq Mail
  /\ PageSize \in Nat \ {0}
  /\ MaxUid \in Nat \ {0}
  /\ MaxValidity \in Nat \ {0}

VARIABLES
  box,         \* the mailbox: the message under each UID
  lastUid,     \* the last UID the server assigned
  validity,    \* UIDVALIDITY
  index,       \* messages and ingest_decisions: the message stored under each locator
               \* imap:<mailbox>:<uid>, which after a renumbering is another one's
  checkpoint,  \* sync_checkpoints.cursor
  pc,          \* where each process is
  cursor,      \* the cursor it was given
  page,        \* the UIDs it has still to fetch
  batch,       \* the SyncBatch it is making: its cursor and the records so far
  setBack      \* history: the checkpoint went back to a former UIDVALIDITY

serverVars == <<box, lastUid, validity>>
storeVars == <<index, checkpoint>>
runVars == <<pc, cursor, page, batch>>
vars == <<serverVars, storeVars, runVars, setBack>>

Uid == 1 .. MaxUid

\* "uidvalidity:<v>;uid:<u>", or the empty cursor of a first run.
Cursor == [validity : 0 .. MaxValidity, uid : 0 .. MaxUid]
NoCursor == [validity |-> 0, uid |-> 0]

NoBatch == [cursor |-> NoCursor, records |-> {}]

Init ==
  /\ box = [u \in Uid |-> NoMail]
  /\ lastUid = 0
  /\ validity = 1
  /\ index = [u \in Uid |-> NoMail]
  /\ checkpoint = NoCursor
  /\ pc = [p \in Process |-> "idle"]
  /\ cursor = [p \in Process |-> NoCursor]
  /\ page = [p \in Process |-> {}]
  /\ batch = [p \in Process |-> NoBatch]
  /\ setBack = FALSE

----------------------------------------------------------------------------
(* The IMAP server.                                                        *)

Mails(b) == {b[u] : u \in Uid} \ {NoMail}

Deliver(m) ==
  /\ lastUid < MaxUid
  /\ m \notin Mails(box)
  /\ lastUid' = lastUid + 1
  /\ box' = [box EXCEPT ![lastUid'] = m]
  /\ UNCHANGED <<validity, storeVars, runVars, setBack>>

Expunge(u) ==
  /\ box[u] # NoMail
  /\ box' = [box EXCEPT ![u] = NoMail]
  /\ UNCHANGED <<lastUid, validity, storeVars, runVars, setBack>>

\* The messages get UIDs from 1 on, in any order.
Renumber ==
  /\ validity < MaxValidity
  /\ validity' = validity + 1
  /\ lastUid' = Cardinality(Mails(box))
  /\ box' \in {b \in [Uid -> Mails(box) \cup {NoMail}] :
                 Mails(b) = Mails(box) /\ \A u \in Uid : b[u] = NoMail <=> u > lastUid'}
  /\ UNCHANGED <<storeVars, runVars, setBack>>

----------------------------------------------------------------------------
(* The operator starts a run.                                              *)

At(p, step) == pc[p] = step
Goto(p, step) == pc' = [pc EXCEPT ![p] = step]

Start(p, c) ==
  /\ cursor' = [cursor EXCEPT ![p] = c]
  /\ Goto(p, "search")
  /\ UNCHANGED <<serverVars, storeVars, page, batch, setBack>>

\* --cursor with what `mpi sync checkpoint` shows, nothing if there is none.
Resume(p) == At(p, "idle") /\ Start(p, checkpoint)

\* After LiveCursorInvalidated: "restart metadata sync explicitly".
StartOver(p) == At(p, "invalidated") /\ Start(p, NoCursor)

\* The operator starts from the beginning though nothing calls for it.
StartOverAnyway(p) == At(p, "idle") /\ Start(p, NoCursor)

----------------------------------------------------------------------------
(* fetch_batch.                                                            *)

\* The run is over, without a trace in the database.
Stop(p, step) ==
  /\ Goto(p, step)
  /\ cursor' = [cursor EXCEPT ![p] = NoCursor]
  /\ page' = [page EXCEPT ![p] = {}]
  /\ batch' = [batch EXCEPT ![p] = NoBatch]

\* expected_uidvalidity against what SELECT answered.
CursorValid(c) == c.validity \in {0, validity}

\* What the server answers to UID SEARCH n:*, where * is the last message there is,
\* even if its UID is below n.
SearchFrom(n) ==
  LET present == {u \in Uid : box[u] # NoMail}
  IN  {u \in present : u >= n \/ \A v \in present : v <= u}

\* Wrong: the answer is not filtered.
MatchesUnfiltered(last) == SearchFrom(last + 1)

Matches(last) == {u \in SearchFrom(last + 1) : u > last}

\* Wrong: the page is cut off before the answer is sorted.
PageOfNewest(uids) == {u \in uids : Cardinality({v \in uids : v > u}) < PageSize}

\* sorted(...)[:page_size]
PageOf(uids) == {u \in uids : Cardinality({v \in uids : v < u}) < PageSize}

\* Wrong: the cursor stays where it was.
NextUidGiven(uids, last) == last

NextUid(uids, last) == IF uids = {} THEN last ELSE Max(uids)

\* From login to the UID search, in one session.
Search(p) ==
  LET last == cursor[p].uid
      uids == PageOf(Matches(last))
  IN  /\ At(p, "search")
      /\ IF CursorValid(cursor[p])
         THEN /\ Goto(p, "fetch")
              /\ page' = [page EXCEPT ![p] = uids]
              /\ batch' = [batch EXCEPT ![p] =
                   [cursor |-> [validity |-> validity, uid |-> NextUid(uids, last)],
                    records |-> {}]]
              /\ UNCHANGED cursor
         ELSE Stop(p, "invalidated")
      /\ UNCHANGED <<serverVars, storeVars, setBack>>

\* Whether UID FETCH answers with headers the adapter takes. A renumbered mailbox
\* ends the session.
Fetchable(p, u) ==
  /\ validity = batch[p].cursor.validity
  /\ box[u] \notin Malformed \cup {NoMail}

\* The headers of the next message of the page. What cannot be fetched ends the run.
Fetch(p) ==
  /\ At(p, "fetch")
  /\ \E u \in page[p] :
       /\ \A v \in page[p] : u <= v
       /\ IF Fetchable(p, u)
          THEN /\ page' = [page EXCEPT ![p] = @ \ {u}]
               /\ batch' = [batch EXCEPT ![p].records = @ \cup {[uid |-> u, mail |-> box[u]]}]
               /\ UNCHANGED <<pc, cursor>>
          ELSE Stop(p, "idle")
  /\ UNCHANGED <<serverVars, storeVars, setBack>>

----------------------------------------------------------------------------
(* run_sync_batch.                                                         *)

\* write_index_records: a row is inserted, or updated if its locator is known.
WrittenIndex(records) ==
  [u \in Uid |->
     IF \E r \in records : r.uid = u
     THEN (CHOOSE r \in records : r.uid = u).mail
     ELSE index[u]]

\* The transaction: rows, decisions and checkpoint, all or nothing. The planning
\* before it finds no fault with the records the adapter makes.
Apply(p) ==
  /\ At(p, "fetch")
  /\ page[p] = {}
  /\ index' = WrittenIndex(batch[p].records)
  /\ checkpoint' = batch[p].cursor
  /\ setBack' = \/ setBack
                \/ checkpoint.validity = validity /\ batch[p].cursor.validity # validity
  /\ Stop(p, "idle")
  /\ UNCHANGED serverVars

\* A run ends early: its process dies, the server or the database refuses, or it is
\* a dry run.
Fail(p) ==
  /\ pc[p] \in {"search", "fetch"}
  /\ Stop(p, "idle")
  /\ UNCHANGED <<serverVars, storeVars, setBack>>

----------------------------------------------------------------------------

ServerNext ==
  \/ \E m \in Mail : Deliver(m)
  \/ \E u \in Uid : Expunge(u)
  \/ Renumber

Work(p) == Resume(p) \/ StartOver(p) \/ Search(p) \/ Fetch(p) \/ Apply(p)

Next ==
  \/ ServerNext
  \/ \E p \in Process : Work(p) \/ StartOverAnyway(p) \/ Fail(p)

\* The operator syncs again and again, and each run goes on unless it fails.
Spec == Init /\ [][Next]_vars /\ \A p \in Process : WF_vars(Work(p))

----------------------------------------------------------------------------
(* Properties.                                                             *)

TypeOK ==
  /\ box \in [Uid -> Mail \cup {NoMail}]
  /\ lastUid \in 0 .. MaxUid
  /\ validity \in 1 .. MaxValidity
  /\ index \in [Uid -> Mail \cup {NoMail}]
  /\ checkpoint \in Cursor
  /\ pc \in [Process -> {"idle", "invalidated", "search", "fetch"}]
  /\ cursor \in [Process -> Cursor]
  /\ page \in [Process -> SUBSET Uid]
  /\ batch \in [Process -> [cursor : Cursor, records : SUBSET [uid : Uid, mail : Mail]]]
  /\ setBack \in BOOLEAN

\* The checkpoint "cannot ... skip an unprocessed lower UID": every message that is
\* in the mailbox with a UID up to the checkpoint's is in the index, under its own
\* locator.
CheckpointSkipsNothing ==
  checkpoint.validity = validity =>
    \A u \in Uid : u <= checkpoint.uid /\ box[u] # NoMail => index[u] = box[u]

\* The checkpoint means what an operator takes it to mean: new mail, expunged mail,
\* failed and overlapping runs leave no gap below it. The one exception is a run
\* that overlaps with a renumbering and comes late: it sets the checkpoint back to
\* a former UIDVALIDITY, its rows are of messages that have other UIDs now, and a
\* run that is still going on sets the checkpoint forward again over them.
SyncedUpToCheckpoint == ~setBack => CheckpointSkipsNothing

\* "so the checkpoint cannot regress": a run that was given the checkpoint, and is
\* not overtaken, does not bring it back, whatever the server answered at the end
\* of the mailbox.
CheckpointAdvances ==
  [][\A p \in Process :
       pc[p] = "fetch" /\ cursor[p] = checkpoint /\ checkpoint' # checkpoint
         /\ pc'[p] = "idle"
       => /\ checkpoint.validity \in {0, checkpoint'.validity}
          /\ checkpoint'.uid >= checkpoint.uid]_vars

\* Mail that stays in the mailbox gets into the index, unless the headers of some
\* message there are malformed: however often runs failed, were restarted for no
\* reason or overlapped before that came to an end, resuming from the checkpoint
\* gets there. (The exception is that of SyncedUpToCheckpoint: such mail may never
\* be indexed.)
MailIsIndexed ==
  <>[][ServerNext \/ \E p \in Process : Work(p)]_vars =>
    \A m \in Mail \ Malformed :
      m \in Mails(box) ~>
        \/ m \notin Mails(box)
        \/ \E u \in Uid : index[u] = m
        \/ Mails(box) \cap Malformed # {}
        \/ setBack
============================================================================
