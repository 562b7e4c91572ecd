------------------------- MODULE EgressAudit_proofs -------------------------
(***************************************************************************)
(* Proofs about EgressAudit. The inductive invariant says what is on       *)
(* record of the request each process has in hand, by the step it is at:   *)
(* requests of different processes never meet, so that a step of one       *)
(* leaves what is said of the others alone (OthersUndisturbed).            *)
(***************************************************************************)
EXTENDS EgressAudit, TLAPS

Busy == {"insert", "commit", "chmod", "call", "parse"}

\* What must be on record for an event to be added.
Recordable(r, s) ==
  CASE s = "authorized" -> audit[r] = {} /\ r \notin Egress
    [] s = "completed"  -> audit[r] = {"authorized"} /\ r \in Egress
    [] s = "failed"     -> "authorized" \in audit[r] /\ "failed" \notin audit[r]

HandInv(p) == pc[p] \in Busy \/ tx[p].events # {} => made[p] >= 1

TxInv(p) ==
  /\ pc[p] \in {"insert", "chmod", "call", "parse"} => tx[p] = NoTransaction
  /\ pc[p] = "commit" =>
       tx[p] = [open |-> TRUE, events |-> {CurrentEvent(p)}, callerWork |-> FALSE]
  /\ tx[p].events \subseteq {CurrentEvent(p)}
  /\ tx[p].events # {} \/ tx[p].callerWork => tx[p].open

AuditInv(p) ==
  /\ pc[p] \in {"insert", "commit"} \/ tx[p].events # {} => Recordable(Current(p), status[p])
  /\ pc[p] = "call" \/ (pc[p] = "chmod" /\ status[p] = "authorized") =>
       audit[Current(p)] = {"authorized"} /\ Current(p) \notin Egress
  /\ pc[p] = "parse" => audit[Current(p)] = {"authorized"} /\ Current(p) \in Egress
  /\ pc[p] = "chmod" /\ status[p] = "completed" =>
       audit[Current(p)] = {"authorized", "completed"}

FreshInv(p) ==
  \A n \in 1 .. MaxRequests[p] :
    n > made[p] => audit[<<p, n>>] = {} /\ <<p, n>> \notin Egress

ResultInv(p) ==
  \A r \in results[p] :
    /\ \E n \in 1 .. made[p] : r = <<p, n>>
    /\ audit[r] = {"authorized", "completed"}
    /\ r = Current(p) => pc[p] \notin Busy /\ tx[p].events = {}

SettingInv(p) == pc[p] \in Busy => PolicyAllows /\ ClientIsPolicys

ThreadInv(p) == pc[p] \in Busy => thread[p] \in 1 .. LastThread

PInv(p) ==
  /\ HandInv(p)
  /\ TxInv(p)
  /\ AuditInv(p)
  /\ FreshInv(p)
  /\ ResultInv(p)
  /\ SettingInv(p)
  /\ ThreadInv(p)

IInv ==
  /\ TypeOK
  /\ EgressIsConsented
  /\ \A p \in Process : PInv(p)

\* The number of a request of p is one of those it may make.
LEMMA RequestForm ==
  ASSUME NEW p \in Process, NEW n \in 1 .. MaxRequests[p]
  PROVE  <<p, n>> \in Request
<1>1. <<p, n>> \in {p} \X (1 .. MaxRequests[p])
  OBVIOUS
<1> QED BY <1>1 DEF Request

LEMMA RequestParts ==
  ASSUME NEW r \in Request
  PROVE  \E p \in Process : \E n \in 1 .. MaxRequests[p] : r = <<p, n>>
BY DEF Request

LEMMA CurrentIsRequest ==
  ASSUME TypeOK, NEW p \in Process, made[p] >= 1
  PROVE  Current(p) \in Request /\ made[p] \in 1 .. MaxRequests[p]
<1>1. made[p] \in 1 .. MaxRequests[p]
  BY EgressAssumption DEF TypeOK
<1> QED BY <1>1, RequestForm DEF Current

----------------------------------------------------------------------------

LEMMA ResultsAreRequests ==
  ASSUME IInv, NEW p \in Process, NEW r \in results[p]
  PROVE  r \in Request
<1>1. PICK n \in 1 .. made[p] : r = <<p, n>>
  BY DEF IInv, PInv, ResultInv
<1>2. n \in 1 .. MaxRequests[p]
  BY EgressAssumption DEF IInv, TypeOK
<1> QED BY <1>1, <1>2, RequestForm

\* Initially nobody has anything in hand.
LEMMA InitInv == Init => IInv
<1> SUFFICES ASSUME Init PROVE IInv
  OBVIOUS
<1>1. TypeOK
  <2>1. made \in [Process -> Nat] /\ \A p \in Process : made[p] <= MaxRequests[p]
    BY EgressAssumption DEF Init
  <2>2. thread \in [Process -> 1 .. LastThread + 1]
    BY EgressAssumption DEF Init
  <2> QED BY <2>1, <2>2 DEF Init, TypeOK, Transaction, NoTransaction, Status
<1>2. EgressIsConsented
  BY DEF Init, EgressIsConsented
<1>3. ASSUME NEW p \in Process PROVE PInv(p)
  <2>1. HandInv(p) /\ TxInv(p) /\ AuditInv(p) /\ ResultInv(p) /\ SettingInv(p)
         /\ ThreadInv(p)
    BY DEF Init, ThreadInv, HandInv, TxInv, AuditInv, ResultInv, SettingInv, Busy, NoTransaction
  <2>2. FreshInv(p)
    BY RequestForm DEF Init, FreshInv, Egress
  <2> QED BY <2>1, <2>2 DEF PInv
<1> QED BY <1>1, <1>2, <1>3 DEF IInv

----------------------------------------------------------------------------

\* A step of one process that touches nothing of another leaves the other's
\* invariant alone.
LEMMA OthersUndisturbed ==
  ASSUME TypeOK, NEW q \in Process, PInv(q),
         pc'[q] = pc[q], tx'[q] = tx[q], made'[q] = made[q], status'[q] = status[q],
         results'[q] = results[q], thread'[q] = thread[q], setting' = setting,
         \A n \in 1 .. MaxRequests[q] :
           /\ audit'[<<q, n>>] = audit[<<q, n>>]
           /\ <<q, n>> \in Egress' <=> <<q, n>> \in Egress
  PROVE  PInv(q)'
<1>1. HandInv(q)' /\ TxInv(q)' /\ SettingInv(q)' /\ ThreadInv(q)'
  BY DEF PInv, ThreadInv, HandInv, TxInv, SettingInv, Current, CurrentEvent, PolicyAllows, ClientIsPolicys,
         CloudAllowed, RequestedClasses, AllowedClasses, Client, PolicyProvider
<1>2. FreshInv(q)'
  BY DEF PInv, FreshInv
<1>3. made[q] >= 1 => made[q] \in 1 .. MaxRequests[q]
  BY CurrentIsRequest
<1>4. AuditInv(q)'
  <2>1. CASE made[q] >= 1
    <3>1. audit'[Current(q)] = audit[Current(q)] /\ Current(q)' = Current(q)
      BY <1>3, <2>1 DEF Current
    <3>2. Current(q) \in Egress' <=> Current(q) \in Egress
      BY <1>3, <2>1 DEF Current
    <3> QED BY <3>1, <3>2 DEF PInv, AuditInv, Recordable
  <2>2. CASE ~(made[q] >= 1)
    BY <2>2 DEF PInv, HandInv, AuditInv, Busy
  <2> QED BY <2>1, <2>2
<1>5. ResultInv(q)'
  <2> SUFFICES ASSUME NEW r \in results[q]
      PROVE /\ \E n \in 1 .. made[q] : r = <<q, n>>
            /\ audit'[r] = {"authorized", "completed"}
            /\ r = Current(q) => pc[q] \notin Busy /\ tx[q].events = {}
    BY DEF ResultInv, Current
  <2>1. PICK n \in 1 .. made[q] : r = <<q, n>>
    BY DEF PInv, ResultInv
  <2>2. n \in 1 .. MaxRequests[q]
    BY EgressAssumption DEF TypeOK
  <2> QED BY <2>1, <2>2 DEF PInv, ResultInv
<1> QED BY <1>1, <1>2, <1>4, <1>5 DEF PInv

\* What each action leaves of other processes.
OthersUntouched(p) ==
  \A q \in Process \ {p} :
    /\ pc'[q] = pc[q] /\ tx'[q] = tx[q] /\ made'[q] = made[q]
    /\ status'[q] = status[q] /\ results'[q] = results[q] /\ thread'[q] = thread[q]
    /\ \A n \in 1 .. MaxRequests[q] :
         /\ audit'[<<q, n>>] = audit[<<q, n>>]
         /\ <<q, n>> \in Egress' <=> <<q, n>> \in Egress

LEMMA OneMoves ==
  ASSUME IInv, NEW p \in Process, setting' = setting, OthersUntouched(p),
         TypeOK', EgressIsConsented', PInv(p)'
  PROVE  IInv'
<1> SUFFICES ASSUME NEW q \in Process, q # p PROVE PInv(q)'
  BY DEF IInv
<1> QED BY OthersUndisturbed DEF IInv, OthersUntouched

\* A commit adds the event in hand to the table, if there is one.
LEMMA CommittedAudit ==
  ASSUME IInv, NEW p \in Process, audit' = Committed(p), NEW r \in Request
  PROVE  audit'[r] = IF tx[p].events # {} /\ r = Current(p)
                     THEN audit[r] \cup {status[p]} ELSE audit[r]
<1>1. audit'[r] = audit[r] \cup {e.status : e \in {x \in tx[p].events : x.request = r}}
  BY DEF Committed
<1>2. tx[p].events = {} \/ tx[p].events = {CurrentEvent(p)}
  BY DEF IInv, PInv, TxInv
<1>3. CASE tx[p].events = {}
  BY <1>1, <1>3
<1>4. CASE tx[p].events = {CurrentEvent(p)}
  <2>1. CurrentEvent(p).request = Current(p) /\ CurrentEvent(p).status = status[p]
    BY DEF CurrentEvent
  <2>2. CASE r = Current(p)
    <3>1. {x \in tx[p].events : x.request = r} = {CurrentEvent(p)}
      BY <1>4, <2>1, <2>2
    <3>2. {e.status : e \in {x \in tx[p].events : x.request = r}} = {status[p]}
      BY <3>1, <2>1
    <3> QED BY <1>1, <3>2, <2>2, <1>4
  <2>3. CASE r # Current(p)
    <3>1. {x \in tx[p].events : x.request = r} = {}
      BY <1>4, <2>1, <2>3
    <3> QED BY <1>1, <3>1, <2>3
  <2> QED BY <2>2, <2>3
<1> QED BY <1>2, <1>3, <1>4

LEMMA CommittedTypes ==
  ASSUME IInv, NEW p \in Process, audit' = Committed(p)
  PROVE  /\ audit' \in [Request -> SUBSET Status]
         /\ \A q \in Process \ {p} : \A n \in 1 .. MaxRequests[q] :
              audit'[<<q, n>>] = audit[<<q, n>>]
<1>1. ASSUME NEW r \in Request PROVE audit'[r] \in SUBSET Status
  <2>1. audit[r] \subseteq Status /\ status[p] \in Status
    BY DEF IInv, TypeOK
  <2> QED BY <2>1, CommittedAudit
<1>2. audit' = [r \in Request |-> audit'[r]]
  BY DEF Committed
<1>3. ASSUME NEW q \in Process \ {p}, NEW n \in 1 .. MaxRequests[q]
      PROVE audit'[<<q, n>>] = audit[<<q, n>>]
  <2>1. <<q, n>> \in Request /\ <<q, n>> # Current(p)
    BY RequestForm DEF Current
  <2> QED BY <2>1, CommittedAudit
<1> QED BY <1>1, <1>2, <1>3

\* A request that leaves is p's own.
LEMMA SentEgress ==
  ASSUME NEW p \in Process, Send(p)
  PROVE  Egress' = Egress \cup {Current(p)}
<1> DEFINE new == [request |-> Current(p), to |-> Client.mode, text |-> ThreadContext]
<1>1. sent' = sent \cup {new} /\ new.request = Current(p)
  BY DEF Send
<1> HIDE DEF new
<1> QED BY <1>1, Zenon DEF Egress

LEMMA SentConsented ==
  ASSUME IInv, NEW p \in Process, pc[p] = "call", Send(p), setting' = setting
  PROVE  /\ EgressIsConsented'
         /\ sent' \subseteq [request : Request, to : Mode, text : {"pseudonyms", "names"}]
<1>1. PolicyAllows /\ ClientIsPolicys /\ Current(p) \in Request
  BY CurrentIsRequest DEF IInv, PInv, SettingInv, HandInv, Busy
<1>2. Client.mode = setting.mode /\ setting.mode \in {"local", "cloud"}
  BY <1>1 DEF PolicyAllows, ClientIsPolicys
<1> DEFINE new == [request |-> Current(p), to |-> Client.mode, text |-> ThreadContext]
<1>3. sent' = sent \cup {new}
  BY DEF Send
<1>4. new \in [request : Request, to : Mode, text : {"pseudonyms", "names"}]
  BY <1>1, <1>2 DEF Mode, ThreadContext
<1>5. /\ new.to = "cloud" => setting.optIn /\ setting.key = "long" /\ new.text = "pseudonyms"
      /\ new.to \in {"local", "cloud"} /\ new.to = setting.mode
  BY <1>1, <1>2 DEF PolicyAllows, CloudAllowed, ThreadContext
<1>6. EgressIsConsented'
  BY <1>3, <1>5 DEF IInv, EgressIsConsented
<1>7. sent' \subseteq [request : Request, to : Mode, text : {"pseudonyms", "names"}]
  BY <1>3, <1>4 DEF IInv, TypeOK
<1> QED BY <1>6, <1>7

\* A call starts with an empty result.
LEMMA BeginKeeps ==
  ASSUME IInv, NEW p \in Process, Begin(p)
  PROVE  IInv'
<1>1. TypeOK'
  BY EgressAssumption DEF IInv, TypeOK, Begin, At, Goto
<1>2. OthersUntouched(p)
  BY DEF OthersUntouched, IInv, TypeOK, Egress, Begin, At, Goto
<1>3. EgressIsConsented'
  BY DEF IInv, EgressIsConsented, Begin, At, Goto
<1>4. PInv(p)'
  <2>1. HandInv(p)'
    BY DEF IInv, TypeOK, PInv, HandInv, TxInv, Busy, NoTransaction, Begin, At, Goto
  <2>2. TxInv(p)'
    BY DEF IInv, TypeOK, PInv, TxInv, Current, CurrentEvent, NoTransaction, Begin, At, Goto
  <2>3. AuditInv(p)'
    BY DEF IInv, TypeOK, PInv, TxInv, AuditInv, Recordable, Current, Egress, Busy, NoTransaction, Begin, At, Goto
  <2>4. FreshInv(p)'
    BY DEF IInv, TypeOK, PInv, FreshInv, Egress, Begin, At, Goto
  <2>5. ResultInv(p)'
    BY DEF IInv, TypeOK, PInv, ResultInv, AuditInv, Recordable, TxInv, Current, Egress, Busy, NoTransaction, Begin, At, Goto
  <2>6. SettingInv(p)'
    BY DEF IInv, PInv, SettingInv, Busy, PolicyAllows, ClientIsPolicys, CloudAllowed,
      RequestedClasses, AllowedClasses, Client, PolicyProvider, TypeOK, Begin, At, Goto
  <2>7. ThreadInv(p)'
    BY DEF IInv, TypeOK, PInv, ThreadInv, Busy, Begin, At, Goto
  <2> QED BY <2>1, <2>2, <2>3, <2>4, <2>5, <2>6, <2>7 DEF PInv
<1>5. setting' = setting
  BY DEF Begin
<1> QED BY <1>1, <1>2, <1>3, <1>4, <1>5, OneMoves

\* A thread is passed over.
LEMMA SkipKeeps ==
  ASSUME IInv, NEW p \in Process, Skip(p)
  PROVE  IInv'
<1>1. TypeOK'
  BY EgressAssumption DEF IInv, TypeOK, Skip, NextThread, At, Goto
<1>2. OthersUntouched(p)
  BY DEF OthersUntouched, IInv, TypeOK, Egress, Skip, NextThread, At, Goto
<1>3. EgressIsConsented'
  BY DEF IInv, EgressIsConsented, Skip, NextThread, At, Goto
<1>4. PInv(p)'
  <2>1. HandInv(p)'
    BY DEF IInv, TypeOK, PInv, HandInv, TxInv, Busy, NoTransaction, Skip, NextThread, At, Goto
  <2>2. TxInv(p)'
    BY DEF IInv, TypeOK, PInv, TxInv, Current, CurrentEvent, NoTransaction, Skip, NextThread, At, Goto
  <2>3. AuditInv(p)'
    BY DEF IInv, TypeOK, PInv, TxInv, AuditInv, Recordable, Current, Egress, Busy, NoTransaction, Skip, NextThread, At, Goto
  <2>4. FreshInv(p)'
    BY DEF IInv, TypeOK, PInv, FreshInv, Egress, Skip, NextThread, At, Goto
  <2>5. ResultInv(p)'
    BY DEF IInv, TypeOK, PInv, ResultInv, AuditInv, Recordable, TxInv, Current, Egress, Busy, NoTransaction, Skip, NextThread, At, Goto
  <2>6. SettingInv(p)'
    BY DEF IInv, PInv, SettingInv, Busy, PolicyAllows, ClientIsPolicys, CloudAllowed,
      RequestedClasses, AllowedClasses, Client, PolicyProvider, TypeOK, Skip, NextThread, At, Goto
  <2>7. ThreadInv(p)'
    BY DEF IInv, TypeOK, PInv, ThreadInv, Busy, Skip, NextThread, At, Goto
  <2> QED BY <2>1, <2>2, <2>3, <2>4, <2>5, <2>6, <2>7 DEF PInv
<1>5. setting' = setting
  BY DEF Skip
<1> QED BY <1>1, <1>2, <1>3, <1>4, <1>5, OneMoves

\* The result is returned.
LEMMA ReturnKeeps ==
  ASSUME IInv, NEW p \in Process, Return(p)
  PROVE  IInv'
<1>1. TypeOK'
  BY EgressAssumption DEF IInv, TypeOK, Return, At, Goto
<1>2. OthersUntouched(p)
  BY DEF OthersUntouched, IInv, TypeOK, Egress, Return, At, Goto
<1>3. EgressIsConsented'
  BY DEF IInv, EgressIsConsented, Return, At, Goto
<1>4. PInv(p)'
  <2>1. HandInv(p)'
    BY DEF IInv, TypeOK, PInv, HandInv, TxInv, Busy, NoTransaction, Return, At, Goto
  <2>2. TxInv(p)'
    BY DEF IInv, TypeOK, PInv, TxInv, Current, CurrentEvent, NoTransaction, Return, At, Goto
  <2>3. AuditInv(p)'
    BY DEF IInv, TypeOK, PInv, TxInv, AuditInv, Recordable, Current, Egress, Busy, NoTransaction, Return, At, Goto
  <2>4. FreshInv(p)'
    BY DEF IInv, TypeOK, PInv, FreshInv, Egress, Return, At, Goto
  <2>5. ResultInv(p)'
    BY DEF IInv, TypeOK, PInv, ResultInv, AuditInv, Recordable, TxInv, Current, Egress, Busy, NoTransaction, Return, At, Goto
  <2>6. SettingInv(p)'
    BY DEF IInv, PInv, SettingInv, Busy, PolicyAllows, ClientIsPolicys, CloudAllowed,
      RequestedClasses, AllowedClasses, Client, PolicyProvider, TypeOK, Return, At, Goto
  <2>7. ThreadInv(p)'
    BY DEF IInv, TypeOK, PInv, ThreadInv, Busy, Return, At, Goto
  <2> QED BY <2>1, <2>2, <2>3, <2>4, <2>5, <2>6, <2>7 DEF PInv
<1>5. setting' = setting
  BY DEF Return
<1> QED BY <1>1, <1>2, <1>3, <1>4, <1>5, OneMoves

\* The answer is read.
LEMMA ParseKeeps ==
  ASSUME IInv, NEW p \in Process, Parse(p)
  PROVE  IInv'
<1>1. TypeOK'
  BY EgressAssumption DEF IInv, TypeOK, Parse, Record, At, Goto, Status
<1>2. OthersUntouched(p)
  BY DEF OthersUntouched, IInv, TypeOK, Egress, Parse, Record, At, Goto, Status
<1>3. EgressIsConsented'
  BY DEF IInv, EgressIsConsented, Parse, Record, At, Goto, Status
<1>4. PInv(p)'
  <2>1. HandInv(p)'
    BY DEF IInv, TypeOK, PInv, HandInv, TxInv, Busy, NoTransaction, Parse, Record, At, Goto, Status
  <2>2. TxInv(p)'
    BY DEF IInv, TypeOK, PInv, TxInv, Current, CurrentEvent, NoTransaction, Parse, Record, At, Goto, Status
  <2>3. AuditInv(p)'
    BY DEF IInv, TypeOK, PInv, TxInv, AuditInv, Recordable, Current, Egress, Busy, NoTransaction, Parse, Record, At, Goto, Status
  <2>4. FreshInv(p)'
    BY DEF IInv, TypeOK, PInv, FreshInv, Egress, Parse, Record, At, Goto, Status
  <2>5. ResultInv(p)'
    BY DEF IInv, TypeOK, PInv, ResultInv, AuditInv, Recordable, TxInv, Current, Egress, Busy, NoTransaction, Parse, Record, At, Goto, Status
  <2>6. SettingInv(p)'
    BY DEF IInv, PInv, SettingInv, Busy, PolicyAllows, ClientIsPolicys, CloudAllowed,
      RequestedClasses, AllowedClasses, Client, PolicyProvider, TypeOK, Parse, Record, At, Goto, Status
  <2>7. ThreadInv(p)'
    BY DEF IInv, TypeOK, PInv, ThreadInv, Busy, Parse, Record, At, Goto, Status
  <2> QED BY <2>1, <2>2, <2>3, <2>4, <2>5, <2>6, <2>7 DEF PInv
<1>5. setting' = setting
  BY DEF Parse
<1> QED BY <1>1, <1>2, <1>3, <1>4, <1>5, OneMoves

\* The caller opens or goes on with a transaction.
LEMMA CallerWritesKeeps ==
  ASSUME IInv, NEW p \in Process, CallerWrites(p)
  PROVE  IInv'
<1>a. tx'[p].open /\ tx'[p].events = tx[p].events /\ tx'[p] \in Transaction
  BY DEF CallerWrites, IInv, TypeOK, Transaction
<1>1. TypeOK'
  BY EgressAssumption, <1>a DEF IInv, TypeOK, CallerWrites, At, Transaction
<1>2. OthersUntouched(p)
  BY <1>a DEF OthersUntouched, IInv, TypeOK, Egress, CallerWrites, At, Transaction
<1>3. EgressIsConsented'
  BY <1>a DEF IInv, EgressIsConsented, CallerWrites, At, Transaction
<1>4. PInv(p)'
  <2>1. HandInv(p)'
    BY <1>a DEF IInv, TypeOK, PInv, HandInv, TxInv, Busy, NoTransaction, CallerWrites, At, Transaction
  <2>2. TxInv(p)'
    BY <1>a DEF IInv, TypeOK, PInv, TxInv, Current, CurrentEvent, NoTransaction, CallerWrites, At, Transaction
  <2>3. AuditInv(p)'
    BY <1>a DEF IInv, TypeOK, PInv, TxInv, AuditInv, Recordable, Current, Egress, Busy, NoTransaction, CallerWrites, At, Transaction
  <2>4. FreshInv(p)'
    BY <1>a DEF IInv, TypeOK, PInv, FreshInv, Egress, CallerWrites, At, Transaction
  <2>5. ResultInv(p)'
    BY <1>a DEF IInv, TypeOK, PInv, ResultInv, AuditInv, Recordable, TxInv, Current, Egress, Busy, NoTransaction, CallerWrites, At, Transaction
  <2>6. SettingInv(p)'
    BY <1>a DEF IInv, PInv, SettingInv, Busy, PolicyAllows, ClientIsPolicys, CloudAllowed,
      RequestedClasses, AllowedClasses, Client, PolicyProvider, TypeOK, CallerWrites, At, Transaction
  <2>7. ThreadInv(p)'
    BY <1>a DEF IInv, TypeOK, PInv, ThreadInv, Busy, CallerWrites, At, Transaction
  <2> QED BY <2>1, <2>2, <2>3, <2>4, <2>5, <2>6, <2>7 DEF PInv
<1>5. setting' = setting
  BY DEF CallerWrites
<1> QED BY <1>1, <1>2, <1>3, <1>4, <1>5, OneMoves

\* The caller rolls back.
LEMMA CallerRollsBackKeeps ==
  ASSUME IInv, NEW p \in Process, CallerRollsBack(p)
  PROVE  IInv'
<1>1. TypeOK'
  BY EgressAssumption DEF IInv, TypeOK, CallerRollsBack, At, NoTransaction, Transaction
<1>2. OthersUntouched(p)
  BY DEF OthersUntouched, IInv, TypeOK, Egress, CallerRollsBack, At, NoTransaction, Transaction
<1>3. EgressIsConsented'
  BY DEF IInv, EgressIsConsented, CallerRollsBack, At, NoTransaction, Transaction
<1>4. PInv(p)'
  <2>1. HandInv(p)'
    BY DEF IInv, TypeOK, PInv, HandInv, TxInv, Busy, NoTransaction, CallerRollsBack, At, NoTransaction, Transaction
  <2>2. TxInv(p)'
    BY DEF IInv, TypeOK, PInv, TxInv, Current, CurrentEvent, NoTransaction, CallerRollsBack, At, NoTransaction, Transaction
  <2>3. AuditInv(p)'
    BY DEF IInv, TypeOK, PInv, TxInv, AuditInv, Recordable, Current, Egress, Busy, NoTransaction, CallerRollsBack, At, NoTransaction, Transaction
  <2>4. FreshInv(p)'
    BY DEF IInv, TypeOK, PInv, FreshInv, Egress, CallerRollsBack, At, NoTransaction, Transaction
  <2>5. ResultInv(p)'
    BY DEF IInv, TypeOK, PInv, ResultInv, AuditInv, Recordable, TxInv, Current, Egress, Busy, NoTransaction, CallerRollsBack, At, NoTransaction, Transaction
  <2>6. SettingInv(p)'
    BY DEF IInv, PInv, SettingInv, Busy, PolicyAllows, ClientIsPolicys, CloudAllowed,
      RequestedClasses, AllowedClasses, Client, PolicyProvider, TypeOK, CallerRollsBack, At, NoTransaction, Transaction
  <2>7. ThreadInv(p)'
    BY DEF IInv, TypeOK, PInv, ThreadInv, Busy, CallerRollsBack, At, NoTransaction, Transaction
  <2> QED BY <2>1, <2>2, <2>3, <2>4, <2>5, <2>6, <2>7 DEF PInv
<1>5. setting' = setting
  BY DEF CallerRollsBack
<1> QED BY <1>1, <1>2, <1>3, <1>4, <1>5, OneMoves

\* A request is authorized and gets its number, or the call ends.
LEMMA AuthorizeKeeps ==
  ASSUME IInv, NEW p \in Process, Authorize(p)
  PROVE  IInv'
<1>a. ~tx[p].open => tx[p] = NoTransaction
  BY DEF IInv, PInv, TxInv, TypeOK, Transaction, NoTransaction
<1>b. pc[p] = "loop" /\ tx' = tx /\ audit' = audit /\ sent' = sent /\ Egress' = Egress
  BY DEF Authorize, At, Egress
<1>c. ASSUME Authorized(p) PROVE TxInv(p)' /\ AuditInv(p)' /\ ResultInv(p)'
  <2>1. /\ made[p] < MaxRequests[p] /\ made' = [made EXCEPT ![p] = @ + 1]
        /\ status' = [status EXCEPT ![p] = "authorized"]
        /\ pc' = [pc EXCEPT ![p] = "insert"]
        /\ results' = results /\ tx[p] = NoTransaction
    BY <1>a, <1>c DEF Authorize, RecordAuthorization, Record, Goto, Authorized
  <2>2. made[p] + 1 \in 1 .. MaxRequests[p] /\ made'[p] = made[p] + 1 /\ made[p] \in Nat
    <3>1. made \in [Process -> Nat] /\ MaxRequests \in [Process -> Nat]
      BY EgressAssumption DEF IInv, TypeOK
    <3> QED BY <3>1, <2>1
  <2>3. Current(p)' = <<p, made[p] + 1>>
    BY <2>2 DEF Current
  <2>4. audit[<<p, made[p] + 1>>] = {} /\ <<p, made[p] + 1>> \notin Egress
    BY <2>2 DEF IInv, PInv, FreshInv, TypeOK
  <2>5. pc'[p] = "insert" /\ status'[p] = "authorized" /\ tx'[p] = NoTransaction
    BY <1>b, <2>1 DEF IInv, TypeOK
  <2>6. TxInv(p)'
    BY <2>5 DEF TxInv, NoTransaction
  <2>7. AuditInv(p)'
    BY <1>b, <2>3, <2>4, <2>5 DEF AuditInv, Recordable, NoTransaction
  <2>8. ResultInv(p)'
    <3> SUFFICES ASSUME NEW r \in results[p]
        PROVE (\E n \in 1 .. made'[p] : r = <<p, n>>)
              /\ audit[r] = {"authorized", "completed"} /\ r # Current(p)'
      BY <1>b, <2>1 DEF ResultInv, Current
    <3>1. PICK n \in 1 .. made[p] : r = <<p, n>>
      BY DEF IInv, PInv, ResultInv
    <3>2. n \in 1 .. made'[p] /\ n # made[p] + 1
      BY <2>2 DEF IInv, TypeOK
    <3>3. <<p, n>> # <<p, made[p] + 1>>
      BY <3>2
    <3> QED BY <3>1, <3>2, <3>3, <2>3 DEF IInv, PInv, ResultInv
  <2> QED BY <2>6, <2>7, <2>8
<1>d. ASSUME ~Authorized(p) PROVE TxInv(p)' /\ AuditInv(p)' /\ ResultInv(p)'
  <2>1. /\ made' = made /\ status' = status /\ results'[p] = {} /\ pc'[p] = "idle"
    BY <1>d DEF Authorize, Raise, Goto, IInv, TypeOK
  <2>2. TxInv(p)'
    BY <1>b, <2>1 DEF IInv, PInv, TxInv, CurrentEvent, Current
  <2>3. AuditInv(p)'
    BY <1>b, <2>1 DEF IInv, PInv, AuditInv, Recordable, Current
  <2>4. ResultInv(p)'
    BY <2>1 DEF ResultInv, Current
  <2> QED BY <2>2, <2>3, <2>4
<1>e. TxInv(p)' /\ AuditInv(p)' /\ ResultInv(p)'
  BY <1>c, <1>d
<1>1. TypeOK'
  BY EgressAssumption DEF IInv, TypeOK, Authorize, RecordAuthorization, Record, Raise, At, Goto, Status, Authorized
<1>2. OthersUntouched(p)
  BY DEF OthersUntouched, IInv, TypeOK, Egress, Authorize, RecordAuthorization, Record, Raise, At, Goto, Status, Authorized
<1>3. EgressIsConsented'
  BY DEF IInv, EgressIsConsented, Authorize, RecordAuthorization, Record, Raise, At, Goto, Status, Authorized
<1>4. PInv(p)'
  <2>1. HandInv(p)'
    BY DEF IInv, TypeOK, PInv, HandInv, TxInv, Busy, NoTransaction, Authorize, RecordAuthorization, Record, Raise, At, Goto, Status, Authorized
  <2>2. TxInv(p)'
    BY <1>e
  <2>3. AuditInv(p)'
    BY <1>e
  <2>4. FreshInv(p)'
    BY DEF IInv, TypeOK, PInv, FreshInv, Egress, Authorize, RecordAuthorization, Record, Raise, At, Goto, Status, Authorized
  <2>5. ResultInv(p)'
    BY <1>e
  <2>6. SettingInv(p)'
    BY DEF IInv, PInv, SettingInv, Busy, PolicyAllows, ClientIsPolicys, CloudAllowed,
      RequestedClasses, AllowedClasses, Client, PolicyProvider, TypeOK, Authorize, RecordAuthorization, Record, Raise, At, Goto, Status, Authorized
  <2>7. ThreadInv(p)'
    BY DEF IInv, TypeOK, PInv, ThreadInv, Busy, Authorize, RecordAuthorization, Record, Raise, At, Goto, Status, Authorized
  <2> QED BY <2>1, <2>2, <2>3, <2>4, <2>5, <2>6, <2>7 DEF PInv
<1>5. setting' = setting
  BY DEF Authorize
<1> QED BY <1>1, <1>2, <1>3, <1>4, <1>5, OneMoves

\* The event is inserted.
LEMMA InsertKeeps ==
  ASSUME IInv, NEW p \in Process, Insert(p)
  PROVE  IInv'
<1>a. tx[p] = NoTransaction /\ pc[p] = "insert"
  BY DEF IInv, PInv, TxInv, Insert, At
<1>b. tx' = [tx EXCEPT ![p] =
               [open |-> TRUE, events |-> {CurrentEvent(p)}, callerWork |-> FALSE]]
  BY <1>a DEF Insert, NoTransaction
<1>c. CurrentEvent(p) \in Event
  BY <1>a, CurrentIsRequest DEF CurrentEvent, Event, IInv, TypeOK, PInv, HandInv, Busy
<1>d. tx' \in [Process -> Transaction] /\ tx'[p] = [open |-> TRUE, events |-> {CurrentEvent(p)}, callerWork |-> FALSE]
  BY <1>b, <1>c DEF Transaction, IInv, TypeOK
<1>1. TypeOK'
  BY EgressAssumption, <1>a, <1>b, <1>d DEF IInv, TypeOK, Insert, At, Goto
<1>2. OthersUntouched(p)
  BY <1>a, <1>b, <1>d DEF OthersUntouched, IInv, TypeOK, Egress, Insert, At, Goto
<1>3. EgressIsConsented'
  BY <1>a, <1>b, <1>d DEF IInv, EgressIsConsented, Insert, At, Goto
<1>4. PInv(p)'
  <2>1. HandInv(p)'
    BY <1>a, <1>b, <1>d DEF IInv, TypeOK, PInv, HandInv, TxInv, Busy, NoTransaction, Insert, At, Goto
  <2>2. TxInv(p)'
    BY <1>a, <1>b, <1>d DEF IInv, TypeOK, PInv, TxInv, Current, CurrentEvent, NoTransaction, Insert, At, Goto
  <2>3. AuditInv(p)'
    BY <1>a, <1>b, <1>d DEF IInv, TypeOK, PInv, TxInv, AuditInv, Recordable, Current, Egress, Busy, NoTransaction, Insert, At, Goto
  <2>4. FreshInv(p)'
    BY <1>a, <1>b, <1>d DEF IInv, TypeOK, PInv, FreshInv, Egress, Insert, At, Goto
  <2>5. ResultInv(p)'
    <3>1. \A r \in results[p] : r # Current(p)
      BY <1>a DEF IInv, PInv, ResultInv, Busy
    <3>2. results' = results /\ audit' = audit /\ made' = made /\ Current(p)' = Current(p)
      BY DEF Insert, Current
    <3> QED BY <3>1, <3>2 DEF IInv, PInv, ResultInv
  <2>6. SettingInv(p)'
    BY <1>a, <1>b, <1>d DEF IInv, PInv, SettingInv, Busy, PolicyAllows, ClientIsPolicys, CloudAllowed,
      RequestedClasses, AllowedClasses, Client, PolicyProvider, TypeOK, Insert, At, Goto
  <2>7. ThreadInv(p)'
    BY <1>a, <1>b, <1>d DEF IInv, TypeOK, PInv, ThreadInv, Busy, Insert, At, Goto
  <2> QED BY <2>1, <2>2, <2>3, <2>4, <2>5, <2>6, <2>7 DEF PInv
<1>5. setting' = setting
  BY DEF Insert
<1> QED BY <1>1, <1>2, <1>3, <1>4, <1>5, OneMoves

\* The event is committed.
LEMMA CommitKeeps ==
  ASSUME IInv, NEW p \in Process, Commit(p)
  PROVE  IInv'
<1>a. \A r \in Request : audit'[r] = IF tx[p].events # {} /\ r = Current(p)
                                    THEN audit[r] \cup {status[p]} ELSE audit[r]
  BY CommittedAudit DEF Commit
<1>b. /\ audit' \in [Request -> SUBSET Status]
      /\ \A q \in Process \ {p} : \A n \in 1 .. MaxRequests[q] :
           audit'[<<q, n>>] = audit[<<q, n>>]
  BY CommittedTypes DEF Commit
<1>c. tx[p].events # {} => Current(p) \in Request /\ audit'[Current(p)] = audit[Current(p)] \cup {status[p]}
  BY <1>a, CurrentIsRequest DEF IInv, PInv, HandInv
<1>d. \A n \in 1 .. MaxRequests[p] : n # made[p] => audit'[<<p, n>>] = audit[<<p, n>>]
  BY <1>a, RequestForm DEF Current
<1>e. \A r \in results[p] : audit'[r] = audit[r]
  <2> SUFFICES ASSUME NEW r \in results[p] PROVE audit'[r] = audit[r]
    OBVIOUS
  <2>1. r \in Request
    BY ResultsAreRequests
  <2>2. tx[p].events # {} => r # Current(p)
    BY DEF IInv, PInv, ResultInv
  <2> QED BY <2>1, <2>2, <1>a
<1>f. tx'[p] = NoTransaction /\ tx' \in [Process -> Transaction] /\ \A q \in Process \ {p} : tx'[q] = tx[q]
  BY DEF Commit, IInv, TypeOK, NoTransaction, Transaction
<1>g. ResultInv(p)'
  <2>1. pc[p] = "commit" /\ pc' = [pc EXCEPT ![p] = "chmod"] /\ made' = made /\ results' = results
    BY DEF Commit, At, Goto
  <2>2. Current(p)' = Current(p)
    BY <2>1 DEF Current
  <2>3. /\ pc[p] \in Busy <=> pc'[p] \in Busy
        /\ tx'[p].events = {}
    BY <1>f, <2>1 DEF Busy, NoTransaction, IInv, TypeOK
  <2> QED BY <1>e, <2>1, <2>2, <2>3 DEF IInv, PInv, ResultInv
<1>h. AuditInv(p)'
  <2>1. /\ pc[p] = "commit" /\ pc'[p] = "chmod" /\ status' = status /\ Egress' = Egress
        /\ Current(p)' = Current(p)
    BY DEF Commit, At, Goto, Egress, Current, IInv, TypeOK
  <2>2. tx[p].events # {}
    <3>1. tx[p] = [open |-> TRUE, events |-> {CurrentEvent(p)}, callerWork |-> FALSE]
      BY <2>1 DEF IInv, PInv, TxInv
    <3> QED BY <3>1
  <2>3. Recordable(Current(p), status[p])
    BY <2>1 DEF IInv, PInv, AuditInv
  <2>4. audit'[Current(p)] = audit[Current(p)] \cup {status[p]} /\ tx'[p].events = {}
    BY <2>2, <1>c, <1>f DEF NoTransaction
  <2>5. status[p] = "authorized" =>
          audit'[Current(p)] = {"authorized"} /\ Current(p) \notin Egress
    BY <2>3, <2>4 DEF Recordable
  <2>6. status[p] = "completed" => audit'[Current(p)] = {"authorized", "completed"}
    BY <2>3, <2>4 DEF Recordable
  <2> QED BY <2>1, <2>4, <2>5, <2>6 DEF AuditInv
<1>1. TypeOK'
  BY EgressAssumption, <1>a, <1>b, <1>c, <1>d, <1>e, <1>f DEF IInv, TypeOK, Commit, At, Goto
<1>2. OthersUntouched(p)
  BY <1>a, <1>b, <1>c, <1>d, <1>e, <1>f DEF OthersUntouched, IInv, TypeOK, Egress, Commit, At, Goto
<1>3. EgressIsConsented'
  BY <1>a, <1>b, <1>c, <1>d, <1>e, <1>f DEF IInv, EgressIsConsented, Commit, At, Goto
<1>4. PInv(p)'
  <2>1. HandInv(p)'
    BY <1>a, <1>b, <1>c, <1>d, <1>e, <1>f DEF IInv, TypeOK, PInv, HandInv, TxInv, Busy, NoTransaction, Commit, At, Goto
  <2>2. TxInv(p)'
    BY <1>a, <1>b, <1>c, <1>d, <1>e, <1>f DEF IInv, TypeOK, PInv, TxInv, Current, CurrentEvent, NoTransaction, Commit, At, Goto
  <2>3. AuditInv(p)'
    BY <1>h
  <2>4. FreshInv(p)'
    BY <1>a, <1>b, <1>c, <1>d, <1>e, <1>f DEF IInv, TypeOK, PInv, FreshInv, Egress, Commit, At, Goto
  <2>5. ResultInv(p)'
    BY <1>g
  <2>6. SettingInv(p)'
    BY <1>a, <1>b, <1>c, <1>d, <1>e, <1>f DEF IInv, PInv, SettingInv, Busy, PolicyAllows, ClientIsPolicys, CloudAllowed,
      RequestedClasses, AllowedClasses, Client, PolicyProvider, TypeOK, Commit, At, Goto
  <2>7. ThreadInv(p)'
    BY <1>a, <1>b, <1>c, <1>d, <1>e, <1>f DEF IInv, TypeOK, PInv, ThreadInv, Busy, Commit, At, Goto
  <2> QED BY <2>1, <2>2, <2>3, <2>4, <2>5, <2>6, <2>7 DEF PInv
<1>5. setting' = setting
  BY DEF Commit
<1> QED BY <1>1, <1>2, <1>3, <1>4, <1>5, OneMoves

\* The caller commits, with what an exception left in the transaction.
LEMMA CallerCommitsKeeps ==
  ASSUME IInv, NEW p \in Process, CallerCommits(p)
  PROVE  IInv'
<1>a. \A r \in Request : audit'[r] = IF tx[p].events # {} /\ r = Current(p)
                                    THEN audit[r] \cup {status[p]} ELSE audit[r]
  BY CommittedAudit DEF CallerCommits
<1>b. /\ audit' \in [Request -> SUBSET Status]
      /\ \A q \in Process \ {p} : \A n \in 1 .. MaxRequests[q] :
           audit'[<<q, n>>] = audit[<<q, n>>]
  BY CommittedTypes DEF CallerCommits
<1>c. tx[p].events # {} => Current(p) \in Request /\ audit'[Current(p)] = audit[Current(p)] \cup {status[p]}
  BY <1>a, CurrentIsRequest DEF IInv, PInv, HandInv
<1>d. \A n \in 1 .. MaxRequests[p] : n # made[p] => audit'[<<p, n>>] = audit[<<p, n>>]
  BY <1>a, RequestForm DEF Current
<1>e. \A r \in results[p] : audit'[r] = audit[r]
  <2> SUFFICES ASSUME NEW r \in results[p] PROVE audit'[r] = audit[r]
    OBVIOUS
  <2>1. r \in Request
    BY ResultsAreRequests
  <2>2. tx[p].events # {} => r # Current(p)
    BY DEF IInv, PInv, ResultInv
  <2> QED BY <2>1, <2>2, <1>a
<1>f. tx'[p] = NoTransaction /\ tx' \in [Process -> Transaction] /\ \A q \in Process \ {p} : tx'[q] = tx[q]
  BY DEF CallerCommits, IInv, TypeOK, NoTransaction, Transaction
<1>g. ResultInv(p)'
  <2>1. pc[p] = "idle" /\ pc' = pc /\ made' = made /\ results' = results
    BY DEF CallerCommits, At
  <2>2. Current(p)' = Current(p)
    BY <2>1 DEF Current
  <2>3. /\ pc[p] \in Busy <=> pc'[p] \in Busy
        /\ tx'[p].events = {}
    BY <1>f, <2>1 DEF Busy, NoTransaction, IInv, TypeOK
  <2> QED BY <1>e, <2>1, <2>2, <2>3 DEF IInv, PInv, ResultInv
<1>1. TypeOK'
  BY EgressAssumption, <1>a, <1>b, <1>c, <1>d, <1>e, <1>f DEF IInv, TypeOK, CallerCommits, At
<1>2. OthersUntouched(p)
  BY <1>a, <1>b, <1>c, <1>d, <1>e, <1>f DEF OthersUntouched, IInv, TypeOK, Egress, CallerCommits, At
<1>3. EgressIsConsented'
  BY <1>a, <1>b, <1>c, <1>d, <1>e, <1>f DEF IInv, EgressIsConsented, CallerCommits, At
<1>4. PInv(p)'
  <2>1. HandInv(p)'
    BY <1>a, <1>b, <1>c, <1>d, <1>e, <1>f DEF IInv, TypeOK, PInv, HandInv, TxInv, Busy, NoTransaction, CallerCommits, At
  <2>2. TxInv(p)'
    BY <1>a, <1>b, <1>c, <1>d, <1>e, <1>f DEF IInv, TypeOK, PInv, TxInv, Current, CurrentEvent, NoTransaction, CallerCommits, At
  <2>3. AuditInv(p)'
    BY <1>a, <1>b, <1>c, <1>d, <1>e, <1>f DEF IInv, TypeOK, PInv, TxInv, AuditInv, Recordable, Current, Egress, Busy, NoTransaction, CallerCommits, At
  <2>4. FreshInv(p)'
    BY <1>a, <1>b, <1>c, <1>d, <1>e, <1>f DEF IInv, TypeOK, PInv, FreshInv, Egress, CallerCommits, At
  <2>5. ResultInv(p)'
    BY <1>g
  <2>6. SettingInv(p)'
    BY <1>a, <1>b, <1>c, <1>d, <1>e, <1>f DEF IInv, PInv, SettingInv, Busy, PolicyAllows, ClientIsPolicys, CloudAllowed,
      RequestedClasses, AllowedClasses, Client, PolicyProvider, TypeOK, CallerCommits, At
  <2>7. ThreadInv(p)'
    BY <1>a, <1>b, <1>c, <1>d, <1>e, <1>f DEF IInv, TypeOK, PInv, ThreadInv, Busy, CallerCommits, At
  <2> QED BY <2>1, <2>2, <2>3, <2>4, <2>5, <2>6, <2>7 DEF PInv
<1>5. setting' = setting
  BY DEF CallerCommits
<1> QED BY <1>1, <1>2, <1>3, <1>4, <1>5, OneMoves

\* A call ends with an exception or a crash.
LEMMA EndKeeps ==
  ASSUME IInv, NEW p \in Process, NEW t \in Transaction,
         t.events \subseteq tx[p].events, t.events # {} \/ t.callerWork => t.open,
         pc' = [pc EXCEPT ![p] = "idle"], results' = [results EXCEPT ![p] = {}],
         tx' = [tx EXCEPT ![p] = t], lost' \subseteq Request,
         UNCHANGED <<setting, audit, thread, made, status, sent>>
  PROVE  IInv'
<1>1. /\ pc'[p] = "idle" /\ results'[p] = {} /\ tx'[p] = t
      /\ Egress' = Egress /\ Current(p)' = Current(p) /\ CurrentEvent(p)' = CurrentEvent(p)
  BY DEF IInv, TypeOK, Egress, Current, CurrentEvent
<1>2. TypeOK'
  BY DEF IInv, TypeOK
<1>3. OthersUntouched(p)
  BY <1>1 DEF OthersUntouched, IInv, TypeOK
<1>4. EgressIsConsented'
  BY DEF IInv, EgressIsConsented
<1>5. PInv(p)'
  <2>1. HandInv(p)'
    BY <1>1 DEF IInv, PInv, HandInv, Busy
  <2>2. TxInv(p)'
    BY <1>1 DEF IInv, PInv, TxInv
  <2>3. AuditInv(p)'
    BY <1>1 DEF IInv, PInv, AuditInv, Recordable
  <2>4. FreshInv(p)'
    BY <1>1 DEF IInv, PInv, FreshInv
  <2>5. ResultInv(p)'
    BY <1>1 DEF ResultInv, Current
  <2>6. SettingInv(p)'
    BY <1>1 DEF SettingInv, Busy
  <2>7. ThreadInv(p)'
    BY <1>1 DEF IInv, PInv, ThreadInv, Busy, Call
  <2> QED BY <2>1, <2>2, <2>3, <2>4, <2>5, <2>6, <2>7 DEF PInv
<1> QED BY <1>2, <1>3, <1>4, <1>5, OneMoves

\* An exception is handled: the failure is to be recorded.
LEMMA HandleKeeps ==
  ASSUME IInv, NEW p \in Process, pc[p] \in Busy,
         "authorized" \in audit[Current(p)], "failed" \notin audit[Current(p)],
         Handle(p), UNCHANGED <<setting, audit, thread, made, lost>>,
         sent' \subseteq [request : Request, to : Mode, text : {"pseudonyms", "names"}],
         EgressIsConsented', Egress' = Egress \/ Egress' = Egress \cup {Current(p)}
  PROVE  IInv'
<1>1. /\ pc' = [pc EXCEPT ![p] = "insert"] /\ tx' = [tx EXCEPT ![p] = NoTransaction]
      /\ status' = [status EXCEPT ![p] = "failed"] /\ results' = results
      /\ Current(p)' = Current(p)
  BY DEF Handle, Record, Goto, Current
<1>2. pc'[p] = "insert" /\ tx'[p] = NoTransaction /\ status'[p] = "failed"
  BY <1>1 DEF IInv, TypeOK
<1>3. TypeOK'
  BY <1>1 DEF IInv, TypeOK, Transaction, NoTransaction, Status
<1>4. OthersUntouched(p)
  <2>1. \A q \in Process \ {p} : \A n \in 1 .. MaxRequests[q] : <<q, n>> # Current(p)
    BY DEF Current
  <2> QED BY <1>1, <2>1 DEF OthersUntouched, IInv, TypeOK
<1>5. PInv(p)'
  <2>1. HandInv(p)'
    BY DEF IInv, PInv, HandInv
  <2>2. TxInv(p)'
    BY <1>2 DEF TxInv, NoTransaction
  <2>3. AuditInv(p)'
    BY <1>1, <1>2 DEF AuditInv, Recordable
  <2>4. FreshInv(p)'
    <3>1. made[p] \in Nat /\ MaxRequests[p] \in Nat
      BY EgressAssumption DEF IInv, TypeOK
    <3>2. \A n \in 1 .. MaxRequests[p] : n > made[p] => <<p, n>> # Current(p)
      BY <3>1 DEF Current
    <3> QED BY <3>2 DEF IInv, PInv, FreshInv
  <2>5. ResultInv(p)'
    BY <1>1 DEF IInv, PInv, ResultInv
  <2>6. SettingInv(p)'
    BY <1>1 DEF IInv, PInv, SettingInv, PolicyAllows, ClientIsPolicys, CloudAllowed,
      RequestedClasses, AllowedClasses, Client, PolicyProvider
  <2>7. ThreadInv(p)'
    BY <1>1 DEF IInv, PInv, ThreadInv, Busy, Call
  <2> QED BY <2>1, <2>2, <2>3, <2>4, <2>5, <2>6, <2>7 DEF PInv
<1> QED BY <1>3, <1>4, <1>5, OneMoves

\* _record_egress_event raises.
LEMMA RecordingFailsKeeps ==
  ASSUME IInv, NEW p \in Process, NEW t \in Transaction,
         pc[p] \in {"insert", "commit", "chmod"}, RecordingFails(p, t),
         t.events \subseteq tx[p].events, t.events # {} \/ t.callerWork => t.open,
         UNCHANGED <<setting, audit, thread, made, sent>>
  PROVE  IInv'
<1>1. CASE status[p] = "completed"
  <2>1. Handle(p) /\ lost' = lost
    BY <1>1 DEF RecordingFails
  <2>2. "authorized" \in audit[Current(p)] /\ "failed" \notin audit[Current(p)]
    <3>1. CASE pc[p] \in {"insert", "commit"}
      <4>1. Recordable(Current(p), "completed")
        BY <1>1, <3>1 DEF IInv, PInv, AuditInv
      <4> QED BY <4>1 DEF Recordable
    <3>2. CASE pc[p] = "chmod"
      <4>1. audit[Current(p)] = {"authorized", "completed"}
        BY <1>1, <3>2 DEF IInv, PInv, AuditInv
      <4> QED BY <4>1
    <3> QED BY <3>1, <3>2
  <2>3. EgressIsConsented' /\ Egress' = Egress
    BY DEF IInv, EgressIsConsented, Egress
  <2>4. sent' \subseteq [request : Request, to : Mode, text : {"pseudonyms", "names"}]
    BY DEF IInv, TypeOK
  <2> QED BY <2>1, <2>2, <2>3, <2>4, HandleKeeps DEF Busy
<1>2. CASE status[p] # "completed"
  <2>1. Current(p) \in Request
    BY CurrentIsRequest DEF IInv, PInv, HandInv, Busy
  <2>2. lost' \subseteq Request
    BY <1>2, <2>1 DEF RecordingFails, IInv, TypeOK
  <2> QED BY <1>2, <2>2, EndKeeps DEF RecordingFails, Raise, Goto
<1> QED BY <1>1, <1>2

LEMMA InsertFailsKeeps ==
  ASSUME IInv, NEW p \in Process, InsertFails(p)
  PROVE  IInv'
<1> DEFINE t == [open |-> TRUE, events |-> tx[p].events, callerWork |-> tx[p].callerWork]
<1>1. t \in Transaction /\ t.events \subseteq tx[p].events /\ t.open
  BY DEF IInv, TypeOK, Transaction
<1>2. RecordingFails(p, t)
  BY DEF InsertFails
<1> HIDE DEF t
<1> QED BY <1>1, <1>2, RecordingFailsKeeps DEF InsertFails, At

LEMMA CommitFailsKeeps ==
  ASSUME IInv, NEW p \in Process, CommitFails(p)
  PROVE  IInv'
<1>1. tx[p] \in Transaction /\ (tx[p].events # {} \/ tx[p].callerWork => tx[p].open)
  BY DEF IInv, PInv, TxInv, TypeOK
<1> QED BY <1>1, RecordingFailsKeeps DEF CommitFails, At

LEMMA ChmodFailsKeeps ==
  ASSUME IInv, NEW p \in Process, ChmodFails(p)
  PROVE  IInv'
<1>1. tx[p] \in Transaction /\ (tx[p].events # {} \/ tx[p].callerWork => tx[p].open)
  BY DEF IInv, PInv, TxInv, TypeOK
<1> QED BY <1>1, RecordingFailsKeeps DEF ChmodFails, At

LEMMA CrashKeeps ==
  ASSUME IInv, NEW p \in Process, Crash(p)
  PROVE  IInv'
<1>1. tx[p] \in Transaction /\ (tx[p].events # {} \/ tx[p].callerWork => tx[p].open)
  BY DEF IInv, PInv, TxInv, TypeOK
<1>2. NoTransaction \in Transaction /\ NoTransaction.events = {} /\ ~NoTransaction.callerWork
  BY DEF Transaction, NoTransaction
<1>3. lost' \subseteq Request
  <2>1. CASE pc[p] \in Busy
    BY <2>1, CurrentIsRequest DEF Crash, IInv, PInv, HandInv, TypeOK, Busy
  <2>2. CASE pc[p] \notin Busy
    BY <2>2 DEF Crash, IInv, TypeOK, Busy
  <2> QED BY <2>1, <2>2
<1>4. CASE tx' = tx
  <2>1. tx' = [tx EXCEPT ![p] = tx[p]]
    BY <1>4 DEF IInv, TypeOK
  <2> QED BY <1>1, <1>3, <2>1, EndKeeps DEF Crash, Goto
<1>5. CASE tx' = [tx EXCEPT ![p] = NoTransaction]
  BY <1>2, <1>3, <1>5, EndKeeps DEF Crash, Goto
<1> QED BY <1>4, <1>5 DEF Crash

LEMMA CallFailsKeeps ==
  ASSUME IInv, NEW p \in Process, CallFails(p)
  PROVE  IInv'
<1>1. pc[p] = "call" /\ audit[Current(p)] = {"authorized"}
  <2>1. pc[p] = "call"
    BY DEF CallFails, At
  <2> QED BY <2>1 DEF IInv, PInv, AuditInv
<1>2. CASE sent' = sent
  <2>1. EgressIsConsented' /\ Egress' = Egress
    BY <1>2 DEF CallFails, IInv, EgressIsConsented, Egress
  <2> QED BY <1>1, <1>2, <2>1, HandleKeeps DEF CallFails, Busy, IInv, TypeOK
<1>3. CASE Send(p)
  BY <1>1, <1>3, SentConsented, SentEgress, HandleKeeps DEF CallFails, Busy
<1> QED BY <1>2, <1>3 DEF CallFails

LEMMA ParseFailsKeeps ==
  ASSUME IInv, NEW p \in Process, ParseFails(p)
  PROVE  IInv'
<1>1. pc[p] = "parse" /\ audit[Current(p)] = {"authorized"}
  BY DEF ParseFails, At, IInv, PInv, AuditInv
<1>2. EgressIsConsented' /\ Egress' = Egress
  BY DEF ParseFails, IInv, EgressIsConsented, Egress
<1> QED BY <1>1, <1>2, HandleKeeps DEF ParseFails, ParseRaises, Busy, IInv, TypeOK

\* The request leaves and is answered.
LEMMA CallKeeps ==
  ASSUME IInv, NEW p \in Process, Call(p)
  PROVE  IInv'
<1>1. /\ pc[p] = "call" /\ audit[Current(p)] = {"authorized"}
      /\ pc' = [pc EXCEPT ![p] = "parse"] /\ pc'[p] = "parse"
      /\ Current(p)' = Current(p) /\ CurrentEvent(p)' = CurrentEvent(p) /\ tx' = tx
      /\ tx[p] = NoTransaction
  <2>1. pc[p] = "call" /\ pc' = [pc EXCEPT ![p] = "parse"] /\ tx' = tx
        /\ made' = made /\ status' = status
    BY DEF Call, At, Goto
  <2>2. audit[Current(p)] = {"authorized"} /\ tx[p] = NoTransaction
    <3>1. AuditInv(p) /\ TxInv(p)
      BY DEF IInv, PInv
    <3>2. audit[Current(p)] = {"authorized"}
      BY <2>1, <3>1 DEF AuditInv
    <3>3. tx[p] = NoTransaction
      BY <2>1, <3>1 DEF TxInv
    <3> QED BY <3>2, <3>3
  <2>3. pc'[p] = "parse"
    BY <2>1 DEF IInv, TypeOK
  <2> QED BY <2>1, <2>2, <2>3 DEF Current, CurrentEvent
<1>2. Egress' = Egress \cup {Current(p)}
  BY SentEgress DEF Call
<1>3. /\ EgressIsConsented'
      /\ sent' \subseteq [request : Request, to : Mode, text : {"pseudonyms", "names"}]
  BY <1>1, SentConsented DEF Call
<1>4. TypeOK'
  BY <1>1, <1>3 DEF Call, IInv, TypeOK
<1>5. OthersUntouched(p)
  <2>1. \A q \in Process \ {p} : \A n \in 1 .. MaxRequests[q] : <<q, n>> # Current(p)
    BY DEF Current
  <2> QED BY <1>1, <1>2, <2>1 DEF OthersUntouched, Call, IInv, TypeOK
<1>6. PInv(p)'
  <2>1. HandInv(p)'
    BY <1>1 DEF IInv, PInv, HandInv, Call, Busy
  <2>2. TxInv(p)'
    BY <1>1 DEF TxInv, NoTransaction
  <2>3. AuditInv(p)'
    BY <1>1, <1>2 DEF AuditInv, Call, NoTransaction
  <2>4. FreshInv(p)'
    <3>1. made[p] \in Nat /\ MaxRequests[p] \in Nat
      BY EgressAssumption DEF IInv, TypeOK
    <3>2. \A n \in 1 .. MaxRequests[p] : n > made[p] => <<p, n>> # Current(p)
      BY <3>1 DEF Current
    <3> QED BY <1>2, <3>2 DEF IInv, PInv, FreshInv, Call
  <2>5. ResultInv(p)'
    BY <1>1 DEF IInv, PInv, ResultInv, Call, Busy
  <2>6. SettingInv(p)'
    BY <1>1 DEF IInv, PInv, SettingInv, Busy, Call, PolicyAllows, ClientIsPolicys, CloudAllowed,
      RequestedClasses, AllowedClasses, Client, PolicyProvider
  <2>7. ThreadInv(p)'
    BY <1>1 DEF IInv, PInv, ThreadInv, Busy, Call
  <2> QED BY <2>1, <2>2, <2>3, <2>4, <2>5, <2>6, <2>7 DEF PInv
<1> QED BY <1>3, <1>4, <1>5, <1>6, OneMoves DEF Call

\* An event is on record and its purpose is pursued.
LEMMA ChmodKeeps ==
  ASSUME IInv, NEW p \in Process, Chmod(p)
  PROVE  IInv'
<1>1. /\ pc[p] = "chmod" /\ tx[p] = NoTransaction /\ tx' = tx /\ audit' = audit /\ made' = made
      /\ sent' = sent /\ setting' = setting /\ lost' = lost /\ Egress' = Egress
      /\ Current(p)' = Current(p) /\ Current(p) \in Request /\ made[p] \in 1 .. MaxRequests[p]
  BY CurrentIsRequest DEF Chmod, At, IInv, PInv, TxInv, Egress, Current, HandInv, Busy
<1>2. EgressIsConsented'
  BY <1>1 DEF IInv, EgressIsConsented
<1>3. CASE status[p] = "authorized"
  <2>1. pc' = [pc EXCEPT ![p] = "call"] /\ UNCHANGED <<thread, results, status>>
    BY <1>3 DEF Chmod, Goto
  <2>2. pc'[p] = "call" /\ CurrentEvent(p)' = CurrentEvent(p)
    BY <1>1, <2>1 DEF IInv, TypeOK, CurrentEvent
  <2>3. TypeOK'
    BY <1>1, <2>1 DEF IInv, TypeOK
  <2>4. OthersUntouched(p)
    BY <1>1, <2>1 DEF OthersUntouched, IInv, TypeOK
  <2>5. HandInv(p)' /\ TxInv(p)'
    BY <1>1, <2>2 DEF IInv, PInv, HandInv, TxInv, Busy, NoTransaction
  <2>6. AuditInv(p)'
    BY <1>1, <1>3, <2>1, <2>2 DEF IInv, PInv, AuditInv, NoTransaction
  <2>7. FreshInv(p)' /\ ResultInv(p)'
    BY <1>1, <2>1, <2>2 DEF IInv, PInv, FreshInv, ResultInv, Busy
  <2>8. SettingInv(p)' /\ ThreadInv(p)'
    BY <1>1, <2>1 DEF IInv, PInv, SettingInv, ThreadInv, Busy, PolicyAllows, ClientIsPolicys, CloudAllowed,
      RequestedClasses, AllowedClasses, Client, PolicyProvider
  <2> QED BY <1>1, <1>2, <2>3, <2>4, <2>5, <2>6, <2>7, <2>8, OneMoves DEF PInv
<1>4. CASE status[p] = "completed"
  <2>1. /\ pc' = [pc EXCEPT ![p] = "loop"] /\ thread' = [thread EXCEPT ![p] = @ + 1]
        /\ results' = [results EXCEPT ![p] = @ \cup {Current(p)}] /\ status' = status
    BY <1>4 DEF Chmod, NextThread, Goto
  <2>2. /\ pc'[p] = "loop" /\ results'[p] = results[p] \cup {Current(p)}
        /\ CurrentEvent(p)' = CurrentEvent(p)
    BY <1>1, <2>1 DEF IInv, TypeOK, CurrentEvent
  <2>3. TypeOK'
    <3>1. thread[p] \in 1 .. LastThread
      BY <1>1 DEF IInv, PInv, ThreadInv, Busy
    <3>2. thread' \in [Process -> 1 .. LastThread + 1]
      BY <2>1, <3>1, EgressAssumption DEF IInv, TypeOK
    <3>3. results' \in [Process -> SUBSET Request]
      BY <1>1, <2>1 DEF IInv, TypeOK
    <3> QED BY <1>1, <2>1, <3>2, <3>3 DEF IInv, TypeOK
  <2>4. OthersUntouched(p)
    BY <1>1, <2>1 DEF OthersUntouched, IInv, TypeOK
  <2>5. HandInv(p)' /\ TxInv(p)'
    BY <1>1, <2>2 DEF IInv, PInv, HandInv, TxInv, Busy, NoTransaction
  <2>6. AuditInv(p)' /\ FreshInv(p)' /\ SettingInv(p)' /\ ThreadInv(p)'
    BY <1>1, <2>2 DEF ThreadInv, IInv, PInv, AuditInv, FreshInv, SettingInv, Busy, NoTransaction
  <2>7. ResultInv(p)'
    <3>1. audit[Current(p)] = {"authorized", "completed"}
      BY <1>1, <1>4 DEF IInv, PInv, AuditInv
    <3>2. \E n \in 1 .. made[p] : Current(p) = <<p, n>>
      BY <1>1, EgressAssumption DEF Current
    <3> QED BY <1>1, <2>2, <3>1, <3>2 DEF IInv, PInv, ResultInv, Busy, NoTransaction
  <2> QED BY <1>1, <1>2, <2>3, <2>4, <2>5, <2>6, <2>7, OneMoves DEF PInv
<1>5. CASE status[p] = "failed"
  <2>1. Raise(p) /\ thread' = thread
    BY <1>5 DEF Chmod
  <2>2. tx' = [tx EXCEPT ![p] = tx[p]] /\ tx[p] \in Transaction
    BY <1>1 DEF IInv, TypeOK
  <2>3. tx[p].events = {} /\ ~tx[p].callerWork
    BY <1>1 DEF NoTransaction
  <2>4. lost' \subseteq Request
    BY <1>1 DEF IInv, TypeOK
  <2> QED BY <1>1, <2>1, <2>2, <2>3, <2>4, EndKeeps DEF Raise, Goto
<1> QED BY <1>3, <1>4, <1>5 DEF IInv, TypeOK, Status

----------------------------------------------------------------------------
(* The invariant.                                                          *)

LEMMA NothingKeeps == IInv /\ UNCHANGED vars => IInv'
<1> SUFFICES ASSUME IInv, UNCHANGED vars PROVE IInv'
  OBVIOUS
<1>1. TypeOK' /\ EgressIsConsented'
  BY DEF IInv, TypeOK, EgressIsConsented, vars
<1>2. ASSUME NEW p \in Process PROVE PInv(p)'
  BY OthersUndisturbed DEF IInv, vars, Egress
<1> QED BY <1>1, <1>2 DEF IInv

LEMMA NextKeeps == IInv /\ [Next]_vars => IInv'
<1> SUFFICES ASSUME IInv, [Next]_vars PROVE IInv'
  OBVIOUS
<1>1. CASE UNCHANGED vars
  BY <1>1, NothingKeeps
<1>2. ASSUME NEW p \in Process, Continue(p) PROVE IInv'
  <2>1. CASE Skip(p) \/ Authorize(p) \/ Return(p)
    BY <2>1, SkipKeeps, AuthorizeKeeps, ReturnKeeps
  <2>2. CASE Insert(p) \/ Commit(p) \/ Chmod(p)
    BY <2>2, InsertKeeps, CommitKeeps, ChmodKeeps
  <2>3. CASE InsertFails(p) \/ CommitFails(p) \/ ChmodFails(p)
    BY <2>3, InsertFailsKeeps, CommitFailsKeeps, ChmodFailsKeeps
  <2>4. CASE Call(p) \/ CallFails(p) \/ Parse(p) \/ ParseFails(p)
    BY <2>4, CallKeeps, CallFailsKeeps, ParseKeeps, ParseFailsKeeps
  <2> QED BY <1>2, <2>1, <2>2, <2>3, <2>4 DEF Continue
<1>3. ASSUME NEW p \in Process,
             Begin(p) \/ CallerWrites(p) \/ CallerCommits(p) \/ CallerRollsBack(p) \/ Crash(p)
      PROVE  IInv'
  BY <1>3, BeginKeeps, CallerWritesKeeps, CallerCommitsKeeps, CallerRollsBackKeeps, CrashKeeps
<1> QED BY <1>1, <1>2, <1>3 DEF Next

\* What is on record of the requests in hand, at every step of every process.
THEOREM InvariantHolds == Spec => []IInv
<1> QED BY InitInv, NextKeeps, PTL DEF Spec

\* Every variable keeps its type, whatever fails.
THEOREM EgressTypesHold == Spec => []TypeOK
<1>1. IInv => TypeOK
  BY DEF IInv
<1> QED BY <1>1, InvariantHolds, PTL

\* Nothing leaves for the cloud without the opt-in, a key and pseudonyms, and nothing
\* leaves for a model that is not the configured one.
THEOREM ConsentHolds == Spec => []EgressIsConsented
<1>1. IInv => EgressIsConsented
  BY DEF IInv
<1> QED BY <1>1, InvariantHolds, PTL

\* Every candidate kept comes from a request whose completion is on record, and whose
\* failure is not.
THEOREM AuditedResultsHold == Spec => []ResultsAreAudited
<1>1. IInv => ResultsAreAudited
  BY DEF IInv, PInv, ResultInv, ResultsAreAudited
<1> QED BY <1>1, InvariantHolds, PTL

\* The extractor never commits or rolls back a transaction its caller has written in.
THEOREM CallerWorkSurvives == Spec => CallerWorkIsLeftAlone
<1>1. ASSUME IInv, NEW p \in Process, Continue(p), tx[p].callerWork
      PROVE  tx'[p] = tx[p]
  <2>1. pc[p] \notin Busy /\ tx[p].open
    <3>1. TxInv(p)
      BY <1>1 DEF IInv, PInv
    <3>2. NoTransaction.callerWork = FALSE
      BY DEF NoTransaction
    <3>3. pc[p] \notin {"insert", "chmod", "call", "parse"}
      BY <1>1, <3>1, <3>2 DEF TxInv
    <3>4. pc[p] # "commit"
      BY <1>1, <3>1 DEF TxInv
    <3> QED BY <1>1, <3>1, <3>3, <3>4 DEF TxInv, Busy
  <2>2. Skip(p) \/ Authorize(p) \/ Return(p)
    BY <1>1, <2>1 DEF Continue, At, Busy, Insert, Commit, Chmod, InsertFails, CommitFails,
      ChmodFails, Call, CallFails, Parse, ParseFails
  <2> QED BY <2>2 DEF Skip, Authorize, Return
<1>2. IInv /\ [Next]_vars =>
        [\A p \in Process : Continue(p) /\ tx[p].callerWork => tx'[p] = tx[p]]_vars
  BY <1>1
<1> QED BY <1>2, InvariantHolds, PTL DEF Spec, CallerWorkIsLeftAlone

----------------------------------------------------------------------------
(* The refinement.                                                         *)

\* What a commit adds to the table, the ledger allows.
LEMMA CommittingIsRecording ==
  ASSUME IInv, NEW p \in Process, audit' = Committed(p), sent' = sent
  PROVE  [Ledger!Next]_(Ledger!vars)
<1>1. Egress' = Egress
  BY DEF Egress
<1>2. audit = [r \in Request |-> audit[r]] /\ audit' = [r \in Request |-> audit'[r]]
  BY DEF IInv, TypeOK, Committed
<1>3. CASE tx[p].events = {}
  <2>1. \A r \in Request : audit'[r] = audit[r]
    BY <1>3, CommittedAudit
  <2> QED BY <1>1, <1>2, <2>1 DEF Ledger!vars
<1>4. CASE tx[p].events # {}
  <2>1. Current(p) \in Request /\ Recordable(Current(p), status[p]) /\ status[p] \in Status
    BY <1>4, CurrentIsRequest DEF IInv, PInv, HandInv, AuditInv, TypeOK
  <2>2. audit' = [audit EXCEPT ![Current(p)] = @ \cup {status[p]}]
    <3>1. \A r \in Request : audit'[r] = IF r = Current(p)
                                         THEN audit[r] \cup {status[p]} ELSE audit[r]
      BY <1>4, CommittedAudit
    <3> QED BY <1>2, <3>1, <2>1
  <2>3. CASE status[p] = "authorized"
    <3>1. Ledger!Authorize(Current(p))
      BY <1>1, <2>1, <2>2, <2>3 DEF Recordable, Ledger!Authorize, Ledger!Record
    <3> QED BY <2>1, <3>1 DEF Ledger!Next
  <2>4. CASE status[p] = "completed"
    <3>1. Ledger!Complete(Current(p))
      BY <1>1, <2>1, <2>2, <2>4 DEF Recordable, Ledger!Complete, Ledger!Record
    <3> QED BY <2>1, <3>1 DEF Ledger!Next
  <2>5. CASE status[p] = "failed"
    <3>1. Ledger!Fail(Current(p))
      BY <1>1, <2>1, <2>2, <2>5 DEF Recordable, Ledger!Fail, Ledger!Record
    <3> QED BY <2>1, <3>1 DEF Ledger!Next
  <2> QED BY <2>1, <2>3, <2>4, <2>5 DEF Status
<1> QED BY <1>3, <1>4

LEMMA CallingIsSending ==
  ASSUME IInv, NEW p \in Process, pc[p] = "call", Send(p), audit' = audit
  PROVE  Ledger!Next
<1>1. Current(p) \in Request
  BY CurrentIsRequest DEF IInv, PInv, HandInv, Busy
<1>2. audit[Current(p)] = {"authorized"} /\ Current(p) \notin Egress
  BY DEF IInv, PInv, AuditInv
<1>3. Egress' = Egress \cup {Current(p)}
  BY SentEgress
<1>4. Ledger!Send(Current(p))
  BY <1>2, <1>3 DEF Ledger!Send
<1> QED BY <1>1, <1>4 DEF Ledger!Next

\* The processes, whatever fails and whatever their callers commit, together keep the
\* ledger of model requests.
THEOREM AuditImplementsLedger == Spec => ImplementsLedger
<1>1. Init => Ledger!Init
  BY DEF Init, Ledger!Init, Egress
<1>2. ASSUME IInv, [Next]_vars PROVE [Ledger!Next]_(Ledger!vars)
  <2>1. CASE UNCHANGED <<audit, sent>>
    BY <2>1 DEF Ledger!vars, Egress
  <2>2. ASSUME NEW p \in Process, Commit(p) \/ CallerCommits(p)
        PROVE  [Ledger!Next]_(Ledger!vars)
    BY <1>2, <2>2, CommittingIsRecording DEF Commit, CallerCommits
  <2>3. ASSUME NEW p \in Process, Call(p) \/ CallFails(p)
        PROVE  [Ledger!Next]_(Ledger!vars)
    <3>1. pc[p] = "call" /\ audit' = audit
      BY <2>3 DEF Call, CallFails, At
    <3>2. CASE Send(p)
      BY <1>2, <3>1, <3>2, CallingIsSending
    <3>3. CASE ~Send(p)
      BY <2>1, <2>3, <3>1, <3>3 DEF Call, CallFails
    <3> QED BY <3>2, <3>3
  <2>4. ASSUME NEW p \in Process, Continue(p)
        PROVE  [Ledger!Next]_(Ledger!vars)
    <3>1. CASE Commit(p) \/ Call(p) \/ CallFails(p)
      BY <2>2, <2>3, <3>1
    <3>2. CASE ~(Commit(p) \/ Call(p) \/ CallFails(p))
      <4>1. UNCHANGED <<audit, sent>>
        BY <2>4, <3>2 DEF Continue, Skip, Authorize, Return, Insert, Chmod, InsertFails,
          CommitFails, ChmodFails, Parse, ParseFails
      <4> QED BY <2>1, <4>1
    <3> QED BY <3>1, <3>2
  <2>5. ASSUME NEW p \in Process,
               Begin(p) \/ CallerWrites(p) \/ CallerRollsBack(p) \/ Crash(p)
        PROVE  [Ledger!Next]_(Ledger!vars)
    BY <2>1, <2>5 DEF Begin, CallerWrites, CallerRollsBack, Crash
  <2> QED BY <1>2, <2>1, <2>2, <2>4, <2>5 DEF Next, vars
<1> QED BY <1>1, <1>2, InvariantHolds, PTL DEF Spec, ImplementsLedger, Ledger!Spec

====
