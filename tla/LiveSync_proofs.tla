-------------------------- MODULE LiveSync_proofs --------------------------
(***************************************************************************)
(* Proofs about LiveSync, for any messages, processes, page size and       *)
(* bounds: what the checkpoint of a mailbox stands for.                    *)
(***************************************************************************)
EXTENDS LiveSync, FiniteSetTheorems, WellFoundedInduction, TLAPS

----------------------------------------------------------------------------
(* Numbers: a set of them has a least element, a set of UIDs also a        *)
(* greatest one.                                                           *)

LEMMA Least ==
  ASSUME NEW S \in SUBSET Nat, S # {}
  PROVE  \E n \in S : \A m \in S : n <= m
<1> DEFINE Below == {pair \in Nat \X Nat : pair[1] < pair[2]}
<1>1. IsWellFoundedOn(Below, Nat)
  <2>1. OpToRel(<, Nat) = Below
    BY DEF OpToRel
  <2> QED
    BY <2>1, NatLessThanWellFounded
<1> HIDE DEF Below
<1>2. PICK n \in S : \A m \in S : ~(<<m, n>> \in Below)
  BY <1>1, WFMin
<1>3. ASSUME NEW m \in S PROVE n <= m
  <2>1. m \in Nat /\ n \in Nat /\ ~(<<m, n>> \in Below)
    BY <1>2
  <2> QED
    BY <2>1 DEF Below
<1> QED
  BY <1>3

LEMMA MaxOfUids ==
  ASSUME NEW S \in SUBSET Uid, S # {}
  PROVE  Max(S) \in S /\ \A u \in S : u <= Max(S)
<1>1. MaxUid \in Nat /\ \A u \in S : u \in Nat /\ u <= MaxUid
  BY SyncAssumption DEF Uid
<1> DEFINE T == {MaxUid - u : u \in S}
<1>2. T \in SUBSET Nat /\ T # {}
  BY <1>1
<1>3. PICK n \in T : \A m \in T : n <= m
  BY <1>2, Least
<1>4. PICK u \in S : n = MaxUid - u
  OBVIOUS
<1>5. \A v \in S : u >= v
  BY <1>1, <1>3, <1>4
<1> QED
  BY <1>1, <1>5 DEF Max

LEMMA UidsFinite ==
  ASSUME NEW S \in SUBSET Uid
  PROVE  IsFiniteSet(S) /\ Cardinality(S) \in Nat
<1>1. IsFiniteSet(Uid)
  BY FS_Interval, SyncAssumption DEF Uid
<1> QED
  BY <1>1, FS_Subset, FS_CardinalityType

----------------------------------------------------------------------------
(* The functions of the adapter and the index writer.                      *)

\* A page is cut off at the top.
LEMMA PageFacts ==
  ASSUME NEW S \in SUBSET Uid
  PROVE  /\ PageOf(S) \subseteq S
         /\ \A u \in S, v \in PageOf(S) : u <= v => u \in PageOf(S)
<1>1. PageOf(S) \subseteq S
  BY DEF PageOf
<1>2. ASSUME NEW u \in S, NEW v \in PageOf(S), u <= v
      PROVE  u \in PageOf(S)
  <2> DEFINE under(w) == {x \in S : x < w}
  <2>1. under(u) \subseteq under(v) /\ under(v) \subseteq Uid /\ under(u) \subseteq Uid
    <3>1. u \in Nat /\ v \in Nat /\ \A x \in S : x \in Nat
      <4>1. \A x \in Uid : x \in Nat
        BY SyncAssumption DEF Uid
      <4> QED
        BY <1>1, <4>1
    <3>2. \A x \in S : x < u => x < v
      BY <1>2, <3>1
    <3> QED
      BY <3>2
  <2>2. Cardinality(under(u)) \in Nat /\ Cardinality(under(v)) \in Nat /\ IsFiniteSet(under(v))
    BY <2>1, UidsFinite
  <2>3. Cardinality(under(u)) <= Cardinality(under(v))
    BY <2>1, <2>2, FS_Subset
  <2>4. Cardinality(under(v)) < PageSize
    BY DEF PageOf
  <2> QED
    BY <2>2, <2>3, <2>4, SyncAssumption DEF PageOf
<1> QED
  BY <1>1, <1>2

\* The page that follows a cursor, and the cursor after it, leave no message out.
LEMMA PageLeavesNoGap ==
  ASSUME box \in [Uid -> Mail \cup {NoMail}], NEW last \in 0 .. MaxUid,
         NEW uids, uids = PageOf(Matches(last))
  PROVE  /\ uids \in SUBSET Uid
         /\ NextUid(uids, last) \in 0 .. MaxUid /\ last <= NextUid(uids, last)
         /\ \A u \in uids : u <= NextUid(uids, last)
         /\ \/ NextUid(uids, last) = last
            \/ NextUid(uids, last) \in Uid /\ box[NextUid(uids, last)] # NoMail
         /\ \A u \in Uid :
              last < u /\ u <= NextUid(uids, last) /\ box[u] # NoMail => u \in uids
<1>1. Matches(last) = {u \in Uid : box[u] # NoMail /\ u > last}
  BY SyncAssumption DEF Matches, SearchFrom, Uid
<1>2. /\ uids \subseteq Matches(last) /\ Matches(last) \subseteq Uid
      /\ \A u \in Matches(last), v \in uids : u <= v => u \in uids
  BY <1>1, PageFacts
<1>3. CASE uids = {}
  <2>1. NextUid(uids, last) = last
    BY <1>3 DEF NextUid
  <2>2. \A u \in Uid : ~(last < u /\ u <= last)
    BY SyncAssumption DEF Uid
  <2>3. last <= last /\ uids \in SUBSET Uid
    BY <1>3, SyncAssumption
  <2> QED
    BY <1>3, <2>1, <2>2, <2>3
<1>4. CASE uids # {}
  <2>1. /\ NextUid(uids, last) \in uids
        /\ \A u \in uids : u <= NextUid(uids, last)
    BY <1>2, <1>4, MaxOfUids DEF NextUid
  <2> DEFINE n == NextUid(uids, last)
  <2>2. n \in Uid /\ box[n] # NoMail /\ last < n
    BY <1>1, <1>2, <2>1
  <2> HIDE DEF n
  <2>3. n \in 0 .. MaxUid /\ last <= n
    BY <2>2, SyncAssumption DEF Uid
  <2>4. ASSUME NEW u \in Uid, last < u, u <= n, box[u] # NoMail
        PROVE  u \in uids
    <3>1. u \in Matches(last)
      BY <1>1, <2>4, SyncAssumption DEF Uid
    <3> QED
      BY <1>2, <2>1, <2>4, <3>1 DEF n
  <2> QED
    BY <1>2, <2>1, <2>2, <2>3, <2>4 DEF n
<1> QED
  BY <1>3, <1>4

Record == [uid : Uid, mail : Mail]

\* Under each locator is the message of a record of the batch, or what was there.
LEMMA WrittenIndexFacts ==
  ASSUME index \in [Uid -> Mail \cup {NoMail}], NEW records \in SUBSET Record
  PROVE  /\ WrittenIndex(records) \in [Uid -> Mail \cup {NoMail}]
         /\ \A u \in Uid :
              \/ \E r \in records : r.uid = u /\ WrittenIndex(records)[u] = r.mail
              \/ /\ ~\E r \in records : r.uid = u
                 /\ WrittenIndex(records)[u] = index[u]
<1>1. ASSUME NEW u \in Uid, NEW q \in records, q.uid = u
      PROVE  \E r \in records : r.uid = u /\ WrittenIndex(records)[u] = r.mail
  <2> DEFINE r == CHOOSE r \in records : r.uid = u
  <2>1. r \in records /\ r.uid = u
    BY <1>1
  <2>2. WrittenIndex(records)[u] = r.mail
    BY <1>1 DEF WrittenIndex
  <2> QED
    BY <2>1, <2>2
<1>2. ASSUME NEW u \in Uid, ~\E r \in records : r.uid = u
      PROVE  WrittenIndex(records)[u] = index[u]
  BY <1>2 DEF WrittenIndex
<1>3. \A u \in Uid : WrittenIndex(records)[u] \in Mail \cup {NoMail}
  BY <1>1, <1>2 DEF Record
<1>4. WrittenIndex(records) \in [Uid -> Mail \cup {NoMail}]
  BY <1>3 DEF WrittenIndex
<1> QED
  BY <1>1, <1>2, <1>4

\* A renumbered mailbox fits below the bound of the UIDs.
LEMMA MailsFit ==
  ASSUME box \in [Uid -> Mail \cup {NoMail}]
  PROVE  Cardinality(Mails(box)) \in 0 .. MaxUid /\ Mails(box) \subseteq Mail
<1> DEFINE T == {box[u] : u \in Uid}
<1>1. IsFiniteSet(Uid) /\ Cardinality(Uid) = MaxUid
  BY FS_Interval, SyncAssumption DEF Uid
<1>2. box \in Surjection(Uid, T)
  BY DEF Surjection
<1>3. IsFiniteSet(T) /\ Cardinality(T) <= MaxUid
  BY <1>1, <1>2, FS_Surjection
<1>4. Mails(box) \subseteq T
  BY DEF Mails
<1>5. IsFiniteSet(Mails(box)) /\ Cardinality(Mails(box)) <= Cardinality(T)
  BY <1>3, <1>4, FS_Subset
<1>6. Cardinality(Mails(box)) \in Nat /\ Cardinality(T) \in Nat
  BY <1>3, <1>5, FS_CardinalityType
<1>7. Mails(box) \subseteq Mail
  BY DEF Mails
<1> QED
  BY <1>3, <1>5, <1>6, <1>7, SyncAssumption

----------------------------------------------------------------------------
(* Types.                                                                  *)

LEMMA StopTypes ==
  ASSUME TypeOK, NEW p \in Process, NEW step \in {"idle", "invalidated"}, Stop(p, step)
  PROVE  /\ pc' \in [Process -> {"idle", "invalidated", "search", "fetch"}]
         /\ cursor' \in [Process -> Cursor]
         /\ page' \in [Process -> SUBSET Uid]
         /\ batch' \in [Process -> [cursor : Cursor, records : SUBSET [uid : Uid, mail : Mail]]]
<1>1. NoCursor \in Cursor
  BY SyncAssumption DEF NoCursor, Cursor
<1> QED
  BY <1>1 DEF TypeOK, Stop, Goto, NoBatch

LEMMA TypeStep ==
  ASSUME TypeOK, [Next]_vars
  PROVE  TypeOK'
<1> USE DEF TypeOK
<1>1. ASSUME NEW m \in Mail, Deliver(m)
      PROVE  TypeOK'
  <2>1. lastUid' \in 0 .. MaxUid /\ lastUid' \in Uid
    BY <1>1, SyncAssumption DEF Deliver, Uid
  <2> QED
    BY <1>1, <2>1 DEF Deliver, storeVars, runVars
<1>2. ASSUME NEW u \in Uid, Expunge(u)
      PROVE  TypeOK'
  BY <1>2 DEF Expunge, storeVars, runVars
<1>3. ASSUME Renumber
      PROVE  TypeOK'
  <2>1. lastUid' \in 0 .. MaxUid /\ Mails(box) \subseteq Mail
    BY <1>3, MailsFit DEF Renumber
  <2>2. validity' \in 1 .. MaxValidity
    BY <1>3, SyncAssumption DEF Renumber
  <2>3. box' \in [Uid -> Mail \cup {NoMail}]
    BY <1>3, <2>1 DEF Renumber
  <2> QED
    BY <1>3, <2>1, <2>2, <2>3 DEF Renumber, storeVars, runVars
<1>4. ASSUME NEW p \in Process, NEW c \in Cursor, Start(p, c)
      PROVE  TypeOK'
  BY <1>4 DEF Start, Goto, serverVars, storeVars
<1>5. ASSUME NEW p \in Process, Resume(p) \/ StartOver(p) \/ StartOverAnyway(p)
      PROVE  TypeOK'
  <2>1. NoCursor \in Cursor
    BY SyncAssumption DEF NoCursor, Cursor
  <2> QED
    BY <1>4, <1>5, <2>1 DEF Resume, StartOver, StartOverAnyway
<1>6. ASSUME NEW p \in Process, NEW step \in {"idle", "invalidated"}, Stop(p, step),
             UNCHANGED <<serverVars, storeVars, setBack>>
      PROVE  TypeOK'
  BY <1>6, StopTypes DEF serverVars, storeVars
<1>7. ASSUME NEW p \in Process, Search(p)
      PROVE  TypeOK'
  <2> DEFINE last == cursor[p].uid
             uids == PageOf(Matches(last))
             b == [cursor |-> [validity |-> validity, uid |-> NextUid(uids, last)],
                   records |-> {}]
  <2>1. last \in 0 .. MaxUid
    BY DEF Cursor
  <2>2. uids \in SUBSET Uid /\ NextUid(uids, last) \in 0 .. MaxUid
    BY <2>1, PageLeavesNoGap
  <2>3. b \in [cursor : Cursor, records : SUBSET [uid : Uid, mail : Mail]]
    BY <2>2, SyncAssumption DEF Cursor
  <2>4. \/ /\ Goto(p, "fetch") /\ page' = [page EXCEPT ![p] = uids]
           /\ batch' = [batch EXCEPT ![p] = b] /\ UNCHANGED cursor
        \/ Stop(p, "invalidated")
    BY <1>7 DEF Search
  <2>5. UNCHANGED <<serverVars, storeVars, setBack>>
    BY <1>7 DEF Search
  <2> HIDE DEF b, uids, last
  <2>6. CASE Stop(p, "invalidated")
    BY <1>6, <2>5, <2>6
  <2>7. CASE /\ Goto(p, "fetch") /\ page' = [page EXCEPT ![p] = uids]
             /\ batch' = [batch EXCEPT ![p] = b] /\ UNCHANGED cursor
    <3>1. /\ pc' \in [Process -> {"idle", "invalidated", "search", "fetch"}]
          /\ cursor' \in [Process -> Cursor]
      BY <2>7 DEF Goto
    <3>2. page' \in [Process -> SUBSET Uid]
      BY <2>2, <2>7
    <3>3. batch' \in [Process -> [cursor : Cursor, records : SUBSET [uid : Uid, mail : Mail]]]
      BY <2>3, <2>7
    <3> QED
      BY <2>5, <3>1, <3>2, <3>3 DEF serverVars, storeVars
  <2> QED
    BY <2>4, <2>6, <2>7
<1>8. ASSUME NEW p \in Process, Fetch(p)
      PROVE  TypeOK'
  <2>1. PICK u \in page[p] :
          \/ /\ Fetchable(p, u)
             /\ page' = [page EXCEPT ![p] = @ \ {u}]
             /\ batch' = [batch EXCEPT ![p].records = @ \cup {[uid |-> u, mail |-> box[u]]}]
             /\ UNCHANGED <<pc, cursor>>
          \/ Stop(p, "idle")
    BY <1>8 DEF Fetch
  <2>2. UNCHANGED <<serverVars, storeVars, setBack>> /\ u \in Uid
    BY <1>8 DEF Fetch
  <2>3. CASE Stop(p, "idle")
    BY <1>6, <2>2, <2>3
  <2>4. CASE ~Stop(p, "idle")
    <3>1. [uid |-> u, mail |-> box[u]] \in [uid : Uid, mail : Mail]
      BY <2>1, <2>2, <2>4 DEF Fetchable
    <3>2. batch[p] \in [cursor : Cursor, records : SUBSET [uid : Uid, mail : Mail]]
      OBVIOUS
    <3> DEFINE b == [batch[p] EXCEPT !.records = @ \cup {[uid |-> u, mail |-> box[u]]}]
    <3>3. b \in [cursor : Cursor, records : SUBSET [uid : Uid, mail : Mail]]
      BY <3>1, <3>2
    <3>4. batch' = [batch EXCEPT ![p] = b]
      BY <2>1, <2>4
    <3> HIDE DEF b
    <3>5. batch' \in [Process -> [cursor : Cursor, records : SUBSET [uid : Uid, mail : Mail]]]
      BY <3>3, <3>4
    <3>6. page' \in [Process -> SUBSET Uid] /\ UNCHANGED <<pc, cursor>>
      BY <2>1, <2>4
    <3> QED
      BY <2>2, <3>5, <3>6 DEF serverVars, storeVars
  <2> QED
    BY <2>3, <2>4
<1>9. ASSUME NEW p \in Process, Apply(p)
      PROVE  TypeOK'
  <2>1. /\ index' \in [Uid -> Mail \cup {NoMail}] /\ checkpoint' \in Cursor
        /\ setBack' \in BOOLEAN /\ UNCHANGED serverVars
    <3>1. batch[p].records \in SUBSET Record /\ batch[p].cursor \in Cursor
      BY DEF Record
    <3>2. WrittenIndex(batch[p].records) \in [Uid -> Mail \cup {NoMail}]
      BY <3>1, WrittenIndexFacts
    <3> QED
      BY <1>9, <3>1, <3>2 DEF Apply
  <2>2. Stop(p, "idle")
    BY <1>9 DEF Apply
  <2> QED
    BY <2>1, <2>2, StopTypes DEF serverVars
<1>10. ASSUME NEW p \in Process, Fail(p)
       PROVE  TypeOK'
  BY <1>6, <1>10 DEF Fail
<1>11. CASE UNCHANGED vars
  BY <1>11 DEF vars, serverVars, storeVars, runVars
<1> QED
  BY <1>1, <1>2, <1>3, <1>5, <1>7, <1>8, <1>9, <1>10, <1>11 DEF Next, ServerNext, Work

\* Every variable keeps its type: cursors and UIDs stay within what the server assigned.
THEOREM SyncTypesHold == Spec => []TypeOK
<1>1. ASSUME Init
      PROVE  TypeOK
  <2>1. NoCursor \in Cursor
    BY SyncAssumption DEF NoCursor, Cursor
  <2>2. validity \in 1 .. MaxValidity /\ lastUid \in 0 .. MaxUid
    BY <1>1, SyncAssumption DEF Init
  <2>3. NoBatch \in [cursor : Cursor, records : SUBSET [uid : Uid, mail : Mail]]
    BY <2>1 DEF NoBatch
  <2>4. batch \in [Process -> [cursor : Cursor, records : SUBSET [uid : Uid, mail : Mail]]]
    BY <1>1, <2>3 DEF Init
  <2>5. /\ box \in [Uid -> Mail \cup {NoMail}] /\ index \in [Uid -> Mail \cup {NoMail}]
        /\ checkpoint \in Cursor /\ cursor \in [Process -> Cursor]
    BY <1>1, <2>1 DEF Init
  <2>6. /\ pc \in [Process -> {"idle", "invalidated", "search", "fetch"}]
        /\ page \in [Process -> SUBSET Uid] /\ setBack \in BOOLEAN
    BY <1>1 DEF Init
  <2> QED
    BY <2>2, <2>4, <2>5, <2>6 DEF TypeOK
<1> QED
  BY <1>1, TypeStep, PTL DEF Spec

----------------------------------------------------------------------------
(* The invariant.                                                          *)

\* UIDs are assigned in order.
ServerInv == \A u \in Uid : box[u] # NoMail => u <= lastUid

\* A cursor is of a UIDVALIDITY there was, up to a UID there was.
CursorIsOf(c) ==
  /\ c.validity <= validity
  /\ c.validity = 0 => c.uid = 0
  /\ c.validity = validity => c.uid <= lastUid

\* What is in the mailbox up to n is in the index.
Synced(n) == \A u \in Uid : u <= n /\ box[u] # NoMail => index[u] = box[u]

\* A cursor that a run was given stands for what a checkpoint stands for, even if
\* other runs have set the checkpoint elsewhere in the meantime.
CursorInv(p) ==
  /\ CursorIsOf(cursor[p])
  /\ ~setBack /\ cursor[p].validity = validity
       => checkpoint.validity = validity /\ Synced(cursor[p].uid)

\* Unless the mailbox was renumbered, what is there between the cursor of a run and that
\* of its batch is still to be fetched or in the batch, and a record is of the message
\* under its UID, if that was not expunged.
BatchInv(p) ==
  pc[p] = "fetch" =>
    LET c == batch[p].cursor IN
    /\ c.validity > 0 /\ CursorIsOf(c)
    /\ cursor[p].validity \in {0, c.validity} /\ cursor[p].uid <= c.uid
    /\ \A u \in page[p] : u <= c.uid
    /\ \A r \in batch[p].records : r.uid <= c.uid
    /\ c.validity = validity =>
         /\ \A u \in Uid :
              cursor[p].uid < u /\ u <= c.uid /\ box[u] # NoMail
                => u \in page[p] \/ \E r \in batch[p].records : r.uid = u
         /\ \A r \in batch[p].records : box[r.uid] \in {r.mail, NoMail}

SyncInv ==
  /\ TypeOK /\ ServerInv /\ CursorIsOf(checkpoint) /\ SyncedUpToCheckpoint
  /\ \A p \in Process : CursorInv(p) /\ BatchInv(p)

----------------------------------------------------------------------------
(* The server's steps.                                                     *)

\* Under one UIDVALIDITY mail comes only above the last UID.
LEMMA ServerStep ==
  ASSUME TypeOK, ServerInv, ServerNext
  PROVE  /\ ServerInv'
         /\ \/ validity' > validity
            \/ /\ validity' = validity /\ lastUid <= lastUid'
               /\ \A u \in Uid : u <= lastUid => box'[u] \in {box[u], NoMail}
<1> DEFINE Goal == /\ ServerInv'
                   /\ \/ validity' > validity
                      \/ /\ validity' = validity /\ lastUid <= lastUid'
                         /\ \A u \in Uid : u <= lastUid => box'[u] \in {box[u], NoMail}
<1>1. /\ \A u \in Uid : u \in Nat
      /\ lastUid \in Nat /\ validity \in Nat
  BY SyncAssumption DEF Uid, TypeOK
<1>2. ASSUME NEW m \in Mail, Deliver(m)
      PROVE  Goal
  <2>1. /\ lastUid' = lastUid + 1 /\ validity' = validity
        /\ \A u \in Uid : box'[u] = IF u = lastUid' THEN m ELSE box[u]
    BY <1>2 DEF Deliver, TypeOK
  <2> QED
    BY <1>1, <2>1 DEF ServerInv
<1>3. ASSUME NEW u \in Uid, Expunge(u)
      PROVE  Goal
  <2>1. /\ lastUid' = lastUid /\ validity' = validity
        /\ \A v \in Uid : box'[v] \in {box[v], NoMail}
    BY <1>3 DEF Expunge, TypeOK
  <2> QED
    BY <1>1, <2>1 DEF ServerInv
<1>4. ASSUME Renumber
      PROVE  Goal
  <2>1. /\ validity' = validity + 1
        /\ \A u \in Uid : box'[u] = NoMail <=> u > lastUid'
    BY <1>4 DEF Renumber
  <2>2. lastUid' \in Nat
    BY <1>4, MailsFit DEF Renumber, TypeOK
  <2> QED
    BY <1>1, <2>1, <2>2 DEF ServerInv
<1> HIDE DEF Goal
<1>5. Goal
  BY <1>2, <1>3, <1>4 DEF ServerNext
<1> QED
  BY <1>5 DEF Goal

LEMMA ServerKeepsInv ==
  ASSUME SyncInv, TypeOK', ServerNext
  PROVE  SyncInv'
<1>1. TypeOK /\ ServerInv
  BY DEF SyncInv
<1>2. UNCHANGED <<storeVars, runVars, setBack>>
  BY DEF ServerNext, Deliver, Expunge, Renumber
<1>3. /\ ServerInv'
      /\ \/ validity' > validity
         \/ /\ validity' = validity /\ lastUid <= lastUid'
            /\ \A u \in Uid : u <= lastUid => box'[u] \in {box[u], NoMail}
  BY <1>1, ServerStep
<1>4. /\ validity \in Nat /\ validity' \in Nat /\ lastUid \in Nat /\ lastUid' \in Nat
      /\ \A u \in Uid : u \in Nat
  BY <1>1, SyncAssumption DEF TypeOK, Uid
<1>5. ASSUME NEW c \in Cursor, CursorIsOf(c)
      PROVE  CursorIsOf(c)'
  <2>1. c.validity \in Nat /\ c.uid \in Nat
    BY SyncAssumption DEF Cursor
  <2> QED
    BY <1>3, <1>4, <1>5, <2>1 DEF CursorIsOf
<1>6. ASSUME NEW c \in Cursor, CursorIsOf(c), c.validity = validity'
      PROVE  /\ validity' = validity /\ c.uid <= lastUid
             /\ \A u \in Uid : u <= c.uid => box'[u] \in {box[u], NoMail}
  <2>1. c.validity \in Nat /\ c.uid \in Nat
    BY SyncAssumption DEF Cursor
  <2> QED
    BY <1>3, <1>4, <1>6, <2>1 DEF CursorIsOf
<1>7. ASSUME NEW c \in Cursor, CursorIsOf(c), c.validity = validity', Synced(c.uid)
      PROVE  Synced(c.uid)'
  BY <1>2, <1>6, <1>7 DEF Synced, storeVars
<1>8. CursorIsOf(checkpoint)'
  BY <1>1, <1>2, <1>5 DEF SyncInv, TypeOK, storeVars
<1>9. SyncedUpToCheckpoint'
  <2>1. checkpoint \in Cursor /\ CursorIsOf(checkpoint)
    BY <1>1 DEF SyncInv, TypeOK
  <2> QED
    BY <1>2, <1>6, <1>7, <2>1
    DEF SyncInv, SyncedUpToCheckpoint, CheckpointSkipsNothing, Synced, storeVars
<1>10. ASSUME NEW p \in Process
       PROVE  CursorInv(p)'
  <2>1. cursor[p] \in Cursor /\ CursorInv(p)
    BY <1>1 DEF SyncInv, TypeOK
  <2> QED
    BY <1>2, <1>5, <1>6, <1>7, <2>1 DEF CursorInv, storeVars, runVars
<1>11. ASSUME NEW p \in Process
       PROVE  BatchInv(p)'
  <2> SUFFICES ASSUME pc[p] = "fetch"
               PROVE  BatchInv(p)'
    BY <1>2 DEF BatchInv, runVars
  <2> DEFINE c == batch[p].cursor
  <2>1. /\ c \in Cursor /\ batch[p].records \in SUBSET Record /\ cursor[p] \in Cursor
        /\ UNCHANGED <<pc, cursor, page, batch>>
    BY <1>1, <1>2 DEF TypeOK, Record, runVars
  <2>2. /\ c.validity > 0 /\ CursorIsOf(c)
        /\ cursor[p].validity \in {0, c.validity} /\ cursor[p].uid <= c.uid
        /\ \A u \in page[p] : u <= c.uid
        /\ \A r \in batch[p].records : r.uid <= c.uid
        /\ c.validity = validity =>
             /\ \A u \in Uid :
                  cursor[p].uid < u /\ u <= c.uid /\ box[u] # NoMail
                    => u \in page[p] \/ \E r \in batch[p].records : r.uid = u
             /\ \A r \in batch[p].records : box[r.uid] \in {r.mail, NoMail}
    BY DEF SyncInv, BatchInv
  <2>3. CursorIsOf(c)'
    BY <1>5, <2>1, <2>2
  <2>4. ASSUME c.validity = validity'
        PROVE  /\ \A u \in Uid :
                    cursor[p].uid < u /\ u <= c.uid /\ box'[u] # NoMail
                      => u \in page[p] \/ \E r \in batch[p].records : r.uid = u
               /\ \A r \in batch[p].records : box'[r.uid] \in {r.mail, NoMail}
    <3>1. /\ validity' = validity /\ c.uid <= lastUid
          /\ \A u \in Uid : u <= c.uid => box'[u] \in {box[u], NoMail}
      BY <1>6, <2>1, <2>2, <2>4
    <3>2. ASSUME NEW r \in batch[p].records
          PROVE  box'[r.uid] \in {r.mail, NoMail}
      <4>1. r.uid \in Uid
        BY <2>1 DEF Record
      <4>2. box[r.uid] \in {r.mail, NoMail}
        BY <2>2, <2>4, <3>1
      <4>3. r.uid <= c.uid
        BY <2>2
      <4>4. box'[r.uid] \in {box[r.uid], NoMail}
        BY <3>1, <4>1, <4>3
      <4> QED
        BY <4>2, <4>4
    <3> QED
      BY <2>2, <2>4, <3>1, <3>2
  <2> QED
    BY <2>1, <2>2, <2>3, <2>4 DEF BatchInv
<1> QED
  BY <1>3, <1>8, <1>9, <1>10, <1>11 DEF SyncInv

----------------------------------------------------------------------------
(* The steps of a run.                                                     *)

\* A step of one run that changes nothing but where that run is.
LEMMA LocalStep ==
  ASSUME SyncInv, TypeOK', NEW p \in Process,
         UNCHANGED <<serverVars, storeVars, setBack>>,
         \A q \in Process \ {p} : /\ pc'[q] = pc[q] /\ cursor'[q] = cursor[q]
                                  /\ page'[q] = page[q] /\ batch'[q] = batch[q],
         CursorInv(p)', BatchInv(p)'
  PROVE  SyncInv'
<1>1. /\ ServerInv' /\ CursorIsOf(checkpoint)' /\ SyncedUpToCheckpoint'
  BY DEF SyncInv, ServerInv, CursorIsOf, SyncedUpToCheckpoint, CheckpointSkipsNothing,
         serverVars, storeVars
<1>2. ASSUME NEW q \in Process \ {p}
      PROVE  CursorInv(q)'
  BY <1>2 DEF SyncInv, CursorInv, CursorIsOf, Synced, serverVars, storeVars
<1>3. ASSUME NEW q \in Process \ {p}
      PROVE  BatchInv(q)'
  BY <1>3 DEF SyncInv, BatchInv, CursorIsOf, serverVars, storeVars
<1> QED
  BY <1>1, <1>2, <1>3 DEF SyncInv

\* A run that is over, or has not begun.
LEMMA StopStep ==
  ASSUME TypeOK, ServerInv, TypeOK', ServerInv', NEW p \in Process,
         NEW step \in {"idle", "invalidated"}, Stop(p, step)
  PROVE  CursorInv(p)' /\ BatchInv(p)'
<1>1. pc'[p] = step /\ cursor'[p] = NoCursor
  BY DEF Stop, Goto, TypeOK
<1>2. validity' \in Nat /\ validity' # 0 /\ 0 <= validity'
  BY SyncAssumption DEF TypeOK
<1>3. CursorInv(p)'
  BY <1>1, <1>2 DEF CursorInv, CursorIsOf, NoCursor
<1>4. BatchInv(p)'
  BY <1>1 DEF BatchInv
<1> QED
  BY <1>3, <1>4

LEMMA StopKeepsInv ==
  ASSUME SyncInv, TypeOK', NEW p \in Process, NEW step \in {"idle", "invalidated"},
         Stop(p, step), UNCHANGED <<serverVars, storeVars, setBack>>
  PROVE  SyncInv'
<1>1. TypeOK /\ ServerInv /\ ServerInv'
  BY DEF SyncInv, ServerInv, serverVars
<1>2. \A q \in Process \ {p} : /\ pc'[q] = pc[q] /\ cursor'[q] = cursor[q]
                               /\ page'[q] = page[q] /\ batch'[q] = batch[q]
  BY <1>1 DEF Stop, Goto, TypeOK
<1> QED
  BY <1>1, <1>2, StopStep, LocalStep

\* A run is given the checkpoint, which stands for itself, or nothing.
LEMMA StartKeepsInv ==
  ASSUME SyncInv, TypeOK', NEW p \in Process,
         Resume(p) \/ StartOver(p) \/ StartOverAnyway(p)
  PROVE  SyncInv'
<1>1. TypeOK
  BY DEF SyncInv
<1>2. PICK c \in {checkpoint, NoCursor} : Start(p, c)
  BY DEF Resume, StartOver, StartOverAnyway
<1>3. /\ pc'[p] = "search" /\ cursor'[p] = c
      /\ UNCHANGED <<serverVars, storeVars, setBack>>
      /\ \A q \in Process \ {p} : /\ pc'[q] = pc[q] /\ cursor'[q] = cursor[q]
                                  /\ page'[q] = page[q] /\ batch'[q] = batch[q]
  BY <1>1, <1>2 DEF Start, Goto, TypeOK
<1>4. CASE c = NoCursor
  <2>1. validity' \in Nat /\ validity' # 0 /\ 0 <= validity'
    BY SyncAssumption DEF TypeOK
  <2>2. CursorInv(p)'
    BY <1>3, <1>4, <2>1 DEF CursorInv, CursorIsOf, NoCursor
  <2>3. BatchInv(p)'
    BY <1>3 DEF BatchInv
  <2> QED
    BY <1>3, <2>2, <2>3, LocalStep
<1>5. CASE c = checkpoint
  <2>1. CursorInv(p)'
    BY <1>3, <1>5
    DEF SyncInv, CursorInv, CursorIsOf, Synced, SyncedUpToCheckpoint, CheckpointSkipsNothing,
        serverVars, storeVars
  <2>2. BatchInv(p)'
    BY <1>3 DEF BatchInv
  <2> QED
    BY <1>3, <2>1, <2>2, LocalStep
<1> QED
  BY <1>2, <1>4, <1>5

\* The page holds what there is between the cursor of the run and that of its batch.
LEMMA SearchKeepsInv ==
  ASSUME SyncInv, TypeOK', NEW p \in Process, Search(p)
  PROVE  SyncInv'
<1>1. TypeOK /\ ServerInv /\ CursorInv(p)
  BY DEF SyncInv
<1> DEFINE last == cursor[p].uid
           uids == PageOf(Matches(last))
           b == [cursor |-> [validity |-> validity, uid |-> NextUid(uids, last)],
                 records |-> {}]
<1>2. UNCHANGED <<serverVars, storeVars, setBack>>
  BY DEF Search
<1>3. CASE ~CursorValid(cursor[p])
  BY <1>2, <1>3, StopKeepsInv DEF Search
<1>4. CASE CursorValid(cursor[p])
  <2>1. /\ pc' = [pc EXCEPT ![p] = "fetch"] /\ page' = [page EXCEPT ![p] = uids]
        /\ batch' = [batch EXCEPT ![p] = b] /\ UNCHANGED cursor
    BY <1>4 DEF Search, Goto
  <2>2. last \in 0 .. MaxUid /\ cursor[p] \in Cursor
    BY <1>1 DEF TypeOK, Cursor
  <2>3. PICK n : n = NextUid(uids, last)
    OBVIOUS
  <2>4. PICK U : U = uids
    OBVIOUS
  <2>5. /\ U \in SUBSET Uid
        /\ n \in 0 .. MaxUid /\ last <= n
        /\ \A u \in U : u <= n
        /\ \/ n = last
           \/ n \in Uid /\ box[n] # NoMail
        /\ \A u \in Uid : last < u /\ u <= n /\ box[u] # NoMail => u \in U
    BY <1>1, <2>2, <2>3, <2>4, PageLeavesNoGap DEF TypeOK
  <2>6. /\ pc'[p] = "fetch" /\ page'[p] = U /\ UNCHANGED cursor
        /\ batch'[p].cursor = [validity |-> validity, uid |-> n] /\ batch'[p].records = {}
        /\ \A q \in Process \ {p} : /\ pc'[q] = pc[q] /\ cursor'[q] = cursor[q]
                                    /\ page'[q] = page[q] /\ batch'[q] = batch[q]
    BY <1>1, <2>1, <2>3, <2>4 DEF TypeOK
  <2> HIDE DEF last, uids, b
  <2>7. CursorInv(p)'
    BY <1>1, <1>2, <2>6 DEF CursorInv, CursorIsOf, Synced, serverVars, storeVars
  <2>8. validity \in Nat /\ validity > 0 /\ lastUid \in Nat /\ \A u \in Uid : u \in Nat
    BY <1>1, SyncAssumption DEF TypeOK, Uid
  <2>9. n <= lastUid
    <3>1. CASE n = last
      <4>1. cursor[p].validity = 0 => cursor[p].uid = 0
        BY <1>1 DEF CursorInv, CursorIsOf
      <4>2. cursor[p].validity = validity => cursor[p].uid <= lastUid
        BY <1>1 DEF CursorInv, CursorIsOf
      <4> QED
        BY <1>4, <2>8, <3>1, <4>1, <4>2 DEF CursorValid, last
    <3>2. CASE n \in Uid /\ box[n] # NoMail
      BY <1>1, <3>2 DEF ServerInv
    <3> QED
      BY <2>5, <3>1, <3>2
  <2>10. BatchInv(p)'
    <3>1. cursor'[p].validity \in {0, validity} /\ cursor'[p].uid = last
      BY <1>4, <2>6 DEF CursorValid, last
    <3>2. CursorIsOf(batch[p].cursor)'
      BY <1>2, <2>6, <2>8, <2>9 DEF CursorIsOf, serverVars
    <3>3. validity' = validity /\ box' = box
      BY <1>2 DEF serverVars
    <3> QED
      BY <2>5, <2>6, <2>8, <3>1, <3>2, <3>3 DEF BatchInv
  <2> QED
    BY <1>2, <2>6, <2>7, <2>10, LocalStep
<1> QED
  BY <1>3, <1>4

\* The next message of the page becomes a record of the batch.
LEMMA FetchKeepsInv ==
  ASSUME SyncInv, TypeOK', NEW p \in Process, Fetch(p)
  PROVE  SyncInv'
<1>1. TypeOK /\ ServerInv /\ CursorInv(p) /\ BatchInv(p)
  BY DEF SyncInv
<1>2. UNCHANGED <<serverVars, storeVars, setBack>> /\ pc[p] = "fetch"
  BY DEF Fetch, At
<1>3. PICK u \in page[p] :
        \/ /\ Fetchable(p, u)
           /\ page' = [page EXCEPT ![p] = @ \ {u}]
           /\ batch' = [batch EXCEPT ![p].records = @ \cup {[uid |-> u, mail |-> box[u]]}]
           /\ UNCHANGED <<pc, cursor>>
        \/ Stop(p, "idle")
  BY DEF Fetch
<1>4. CASE Stop(p, "idle")
  BY <1>2, <1>4, StopKeepsInv
<1>5. CASE ~Stop(p, "idle")
  <2>1. Fetchable(p, u) /\ UNCHANGED <<pc, cursor>>
    BY <1>3, <1>5
  <2>2. /\ page'[p] = page[p] \ {u}
        /\ batch'[p].cursor = batch[p].cursor
        /\ batch'[p].records = batch[p].records \cup {[uid |-> u, mail |-> box[u]]}
        /\ \A q \in Process \ {p} : page'[q] = page[q] /\ batch'[q] = batch[q]
    BY <1>1, <1>3, <1>5 DEF TypeOK
  <2>3. CursorInv(p)'
    BY <1>1, <1>2, <2>1 DEF CursorInv, CursorIsOf, Synced, serverVars, storeVars
  <2>4. BatchInv(p)'
    <3> DEFINE c == batch[p].cursor
    <3>1. /\ c.validity > 0 /\ CursorIsOf(c)
          /\ cursor[p].validity \in {0, c.validity} /\ cursor[p].uid <= c.uid
          /\ \A v \in page[p] : v <= c.uid
          /\ \A r \in batch[p].records : r.uid <= c.uid
          /\ c.validity = validity =>
               /\ \A v \in Uid :
                    cursor[p].uid < v /\ v <= c.uid /\ box[v] # NoMail
                      => v \in page[p] \/ \E r \in batch[p].records : r.uid = v
               /\ \A r \in batch[p].records : box[r.uid] \in {r.mail, NoMail}
      BY <1>1, <1>2 DEF BatchInv
    <3> DEFINE new == [uid |-> u, mail |-> box[u]]
    <3>2. new.uid = u /\ new.mail = box[u] /\ u <= c.uid
      BY <3>1
    <3> HIDE DEF c, new
    <3>3. /\ validity' = validity /\ box' = box /\ lastUid' = lastUid
          /\ pc'[p] = "fetch" /\ cursor'[p] = cursor[p]
      BY <1>2, <2>1 DEF serverVars
    <3>4. /\ batch'[p].records = batch[p].records \cup {new} /\ batch'[p].cursor = c
          /\ page'[p] = page[p] \ {u}
      BY <2>2 DEF new, c
    <3>5. CursorIsOf(batch[p].cursor)'
      BY <3>1, <3>3, <3>4 DEF CursorIsOf
    <3>6. \A r \in batch'[p].records : r.uid <= c.uid
      BY <3>1, <3>2, <3>4
    <3>7. ASSUME c.validity = validity, NEW v \in Uid,
                 cursor[p].uid < v, v <= c.uid, box[v] # NoMail
          PROVE  v \in page'[p] \/ \E r \in batch'[p].records : r.uid = v
      BY <3>1, <3>2, <3>4, <3>7
    <3>8. ASSUME c.validity = validity, NEW r \in batch'[p].records
          PROVE  box[r.uid] \in {r.mail, NoMail}
      BY <3>1, <3>2, <3>4, <3>8
    <3> QED
      BY <3>1, <3>3, <3>4, <3>5, <3>6, <3>7, <3>8 DEF BatchInv
  <2> QED
    BY <1>2, <2>1, <2>2, <2>3, <2>4, LocalStep
<1> QED
  BY <1>4, <1>5

\* A batch of the mailbox as it is leaves nothing out up to its cursor, and takes nothing
\* from what was in the index.
LEMMA BatchIsSynced ==
  ASSUME TypeOK, NEW p \in Process, Apply(p), BatchInv(p), CursorInv(p), ~setBack,
         SyncedUpToCheckpoint, batch[p].cursor.validity = validity
  PROVE  \A n \in 0 .. MaxUid : n = batch[p].cursor.uid \/ Synced(n) => Synced(n)'
<1> DEFINE c == batch[p].cursor
           R == batch[p].records
<1>1. /\ index' = WrittenIndex(R) /\ box' = box /\ pc[p] = "fetch" /\ page[p] = {}
      /\ R \in SUBSET Record /\ c \in Cursor /\ cursor[p] \in Cursor
  BY DEF Apply, At, serverVars, TypeOK, Record
<1>2. /\ \A u \in Uid : cursor[p].uid < u /\ u <= c.uid /\ box[u] # NoMail
                          => \E r \in R : r.uid = u
      /\ \A r \in R : box[r.uid] \in {r.mail, NoMail}
      /\ cursor[p].validity \in {0, c.validity} /\ CursorIsOf(cursor[p])
  BY <1>1 DEF BatchInv, CursorInv
<1>3. Synced(cursor[p].uid)
  <2>1. CASE cursor[p].validity = validity
    BY <2>1 DEF CursorInv
  <2>2. CASE cursor[p].validity = 0
    <3>1. cursor[p].uid = 0
      BY <1>2, <2>2 DEF CursorIsOf
    <3> QED
      BY <3>1, SyncAssumption DEF Synced, Uid
  <2> QED
    BY <1>2, <2>1, <2>2
<1>4. \A u \in Uid : \/ \E r \in R : r.uid = u /\ index'[u] = r.mail
                     \/ /\ ~\E r \in R : r.uid = u
                        /\ index'[u] = index[u]
  <2>1. PICK records : records = R
    OBVIOUS
  <2>2. records \in SUBSET Record /\ index \in [Uid -> Mail \cup {NoMail}]
    BY <1>1, <2>1 DEF TypeOK
  <2> HIDE DEF R
  <2>3. \A u \in Uid :
          \/ \E r \in records : r.uid = u /\ WrittenIndex(records)[u] = r.mail
          \/ /\ ~\E r \in records : r.uid = u
             /\ WrittenIndex(records)[u] = index[u]
    BY <2>2, WrittenIndexFacts
  <2> QED
    BY <1>1, <2>1, <2>3
<1> HIDE DEF c, R
<1>5. ASSUME NEW u \in Uid, box[u] # NoMail, \/ index[u] = box[u]
                                             \/ \E r \in R : r.uid = u
      PROVE  index'[u] = box[u]
  BY <1>2, <1>4, <1>5
<1>6. ASSUME NEW n \in 0 .. MaxUid, Synced(n)
      PROVE  Synced(n)'
  BY <1>1, <1>5, <1>6 DEF Synced
<1>7. ASSUME NEW n \in 0 .. MaxUid, n = c.uid
      PROVE  Synced(n)'
  <2>1. /\ \A u \in Uid : u \in Nat
        /\ cursor[p].uid \in Nat /\ n \in Nat
    BY <1>1, SyncAssumption DEF Uid, Cursor
  <2>2. ASSUME NEW u \in Uid, u <= n, box[u] # NoMail
        PROVE  index[u] = box[u] \/ \E r \in R : r.uid = u
    BY <1>2, <1>3, <1>7, <2>1, <2>2 DEF Synced
  <2> QED
    BY <1>1, <1>5, <2>2 DEF Synced
<1> QED
  BY <1>6, <1>7 DEF c

\* The batch is stored, and its cursor becomes the checkpoint.
LEMMA ApplyKeepsInv ==
  ASSUME SyncInv, TypeOK', NEW p \in Process, Apply(p)
  PROVE  SyncInv'
<1>1. TypeOK /\ ServerInv /\ CursorInv(p) /\ BatchInv(p)
  BY DEF SyncInv
<1>2. PICK c : c = batch[p].cursor
  OBVIOUS
<1>3. /\ c \in Cursor /\ CursorIsOf(c)
      /\ checkpoint' = c /\ UNCHANGED serverVars /\ Stop(p, "idle")
      /\ setBack' = (setBack \/ (checkpoint.validity = validity /\ c.validity # validity))
  BY <1>1, <1>2 DEF Apply, At, BatchInv, TypeOK
<1>4. ServerInv' /\ CursorIsOf(checkpoint)'
  BY <1>1, <1>3 DEF ServerInv, CursorIsOf, serverVars
<1>5. ASSUME ~setBack, c.validity = validity, NEW n \in 0 .. MaxUid, n = c.uid \/ Synced(n)
      PROVE  Synced(n)'
  BY <1>1, <1>2, <1>5, BatchIsSynced DEF SyncInv
<1>6. SyncedUpToCheckpoint'
  <2> SUFFICES ASSUME ~setBack', c.validity = validity
               PROVE  CheckpointSkipsNothing'
    BY <1>3 DEF SyncedUpToCheckpoint, CheckpointSkipsNothing, serverVars
  <2>1. PICK n \in 0 .. MaxUid : n = c.uid
    BY <1>3 DEF Cursor
  <2>2. Synced(n)'
    BY <1>3, <1>5, <2>1
  <2> QED
    BY <1>3, <2>1, <2>2 DEF Synced, CheckpointSkipsNothing
<1>7. ASSUME NEW q \in Process
      PROVE  CursorInv(q)' /\ BatchInv(q)'
  <2>1. CASE q = p
    BY <1>1, <1>3, <1>4, <2>1, StopStep
  <2>2. CASE q # p
    <3>1. /\ CursorInv(q) /\ BatchInv(q) /\ validity' = validity /\ box' = box
          /\ lastUid' = lastUid
          /\ pc'[q] = pc[q] /\ cursor'[q] = cursor[q] /\ page'[q] = page[q]
          /\ batch'[q] = batch[q]
      BY <1>1, <1>3, <2>2 DEF SyncInv, Stop, Goto, TypeOK, serverVars
    <3>2. BatchInv(q)'
      BY <3>1 DEF BatchInv, CursorIsOf
    <3>3. CursorIsOf(cursor[q])'
      BY <3>1 DEF CursorInv, CursorIsOf
    <3>4. ASSUME ~setBack', cursor'[q].validity = validity'
          PROVE  checkpoint'.validity = validity' /\ Synced(cursor[q].uid)'
      <4>1. PICK n \in 0 .. MaxUid : n = cursor[q].uid
        BY <1>1 DEF TypeOK, Cursor
      <4>2. ~setBack /\ checkpoint.validity = validity /\ Synced(n)
        BY <1>3, <3>1, <3>4, <4>1 DEF CursorInv
      <4>3. c.validity = validity
        BY <1>3, <3>4, <4>2
      <4>4. Synced(n)'
        BY <1>5, <4>2, <4>3
      <4> QED
        BY <1>3, <3>1, <4>1, <4>3, <4>4 DEF Synced
    <3> QED
      BY <3>2, <3>3, <3>4 DEF CursorInv
  <2> QED
    BY <2>1, <2>2
<1> QED
  BY <1>4, <1>6, <1>7 DEF SyncInv

LEMMA SyncInvStep ==
  ASSUME SyncInv, [Next]_vars
  PROVE  SyncInv'
<1>1. TypeOK'
  BY TypeStep DEF SyncInv
<1>2. CASE UNCHANGED vars
  BY <1>1, <1>2
  DEF SyncInv, TypeOK, ServerInv, CursorIsOf, SyncedUpToCheckpoint, CheckpointSkipsNothing,
      CursorInv, BatchInv, Synced, vars, serverVars, storeVars, runVars
<1>3. CASE ServerNext
  BY <1>1, <1>3, ServerKeepsInv
<1>4. ASSUME NEW p \in Process, Work(p) \/ StartOverAnyway(p) \/ Fail(p)
      PROVE  SyncInv'
  <2>1. CASE Resume(p) \/ StartOver(p) \/ StartOverAnyway(p)
    BY <1>1, <2>1, StartKeepsInv
  <2>2. CASE Search(p)
    BY <1>1, <2>2, SearchKeepsInv
  <2>3. CASE Fetch(p)
    BY <1>1, <2>3, FetchKeepsInv
  <2>4. CASE Apply(p)
    BY <1>1, <2>4, ApplyKeepsInv
  <2>5. CASE Fail(p)
    BY <1>1, <2>5, StopKeepsInv DEF Fail
  <2> QED
    BY <1>4, <2>1, <2>2, <2>3, <2>4, <2>5 DEF Work
<1> QED
  BY <1>2, <1>3, <1>4 DEF Next

LEMMA SyncInvHolds == Spec => []SyncInv
<1>1. ASSUME Init, TypeOK
      PROVE  SyncInv
  <2>1. validity = 1 /\ checkpoint = NoCursor /\ \A u \in Uid : box[u] = NoMail
    BY <1>1 DEF Init
  <2>2. /\ ServerInv /\ CursorIsOf(NoCursor) /\ SyncedUpToCheckpoint
    BY <2>1
    DEF ServerInv, CursorIsOf, NoCursor, SyncedUpToCheckpoint, CheckpointSkipsNothing
  <2>3. ASSUME NEW p \in Process
        PROVE  CursorInv(p) /\ BatchInv(p)
    <3>1. pc[p] = "idle" /\ cursor[p] = NoCursor
      BY <1>1 DEF Init
    <3> QED
      BY <2>1, <2>2, <3>1 DEF CursorInv, BatchInv, NoCursor
  <2> QED
    BY <1>1, <2>1, <2>2, <2>3 DEF SyncInv
<1> QED
  BY <1>1, SyncInvStep, SyncTypesHold, PTL DEF Spec

----------------------------------------------------------------------------
(* The theorems.                                                           *)

\* As long as no late run set the checkpoint back to a former UIDVALIDITY, every message
\* in the mailbox with a UID up to the checkpoint's is in the index: new mail, expunged
\* mail, failed and overlapping runs (cmd_sync takes no lease) leave no gap.
THEOREM NothingIsSkipped == Spec => []SyncedUpToCheckpoint
  BY SyncInvHolds, PTL DEF SyncInv

\* A run that was given the checkpoint and is not overtaken brings it forward under the
\* same UIDVALIDITY, or changes nothing.
THEOREM CheckpointAdvancesHolds == Spec => CheckpointAdvances
<1> DEFINE Advance ==
      \A p \in Process :
        pc[p] = "fetch" /\ cursor[p] = checkpoint /\ checkpoint' # checkpoint
          /\ pc'[p] = "idle"
        => /\ checkpoint.validity \in {0, checkpoint'.validity}
           /\ checkpoint'.uid >= checkpoint.uid
<1>1. ASSUME SyncInv, [Next]_vars
      PROVE  [Advance]_vars
  <2> SUFFICES ASSUME Next, NEW p \in Process, pc[p] = "fetch", cursor[p] = checkpoint,
                      checkpoint' # checkpoint, pc'[p] = "idle"
               PROVE  /\ checkpoint.validity \in {0, checkpoint'.validity}
                      /\ checkpoint'.uid >= checkpoint.uid
    BY <1>1
  <2>1. PICK q \in Process : Apply(q)
    BY DEF Next, ServerNext, Work, Deliver, Expunge, Renumber, Resume, StartOver,
           StartOverAnyway, Start, Search, Fetch, Fail, storeVars
  <2>2. q = p
    BY <1>1, <2>1 DEF Apply, Stop, Goto, SyncInv, TypeOK
  <2>3. checkpoint' = batch[p].cursor /\ BatchInv(p)
    BY <1>1, <2>1, <2>2 DEF Apply, SyncInv
  <2>4. checkpoint \in Cursor /\ checkpoint' \in Cursor
    BY <1>1, TypeStep DEF SyncInv, TypeOK
  <2> QED
    BY <2>3, <2>4, SyncAssumption DEF BatchInv, Cursor
<1> QED
  BY <1>1, SyncInvHolds, PTL DEF Spec, CheckpointAdvances
=============================================================================
