----------------------------- MODULE EgressAudit -----------------------------
(***************************************************************************)
(* Model requests and their audit: extract_corpus_with_llm and what it     *)
(* calls in llm_extractor.py, in processes that share one database.        *)
(*                                                                         *)
(* Each process runs over the threads again and again on an audit          *)
(* connection of its own, on which its caller may have a transaction open. *)
(* What a request says of a thread matters only in so far as it names      *)
(* people or pseudonyms. A request identifier is a process and a number,   *)
(* which stands for the random UUID.                                       *)
(***************************************************************************)
EXTENDS Naturals

CONSTANTS
  Process,      \* processes that extract
  LastThread,   \* the threads are 1 .. LastThread
  Ineligible,   \* threads that the classifier keeps from extraction
  Cassette,     \* threads with a recorded answer
  Settings,     \* the settings considered
  MaxRequests,  \* bound: how many requests each process makes
  Unset         \* not given

VARIABLES
  setting,   \* environment variables, client and audit connection given
  audit,     \* llm_egress_events: the statuses of each request
  tx,        \* the transaction on each process's connection
  pc,        \* where each process is
  thread,    \* the thread it is at
  made,      \* how many requests it has made
  status,    \* the event it is recording
  results,   \* the requests whose answers are in its result so far
  sent,      \* history: what left, and where to
  lost       \* history: requests whose outcome could not be recorded

vars == <<setting, audit, tx, pc, thread, made, status, results, sent, lost>>

Request == UNION {{p} \X (1 .. MaxRequests[p]) : p \in Process}
Class == {"metadata", "metadata-redacted"}
Mode == {"disabled", "local", "cloud", "other"}
Provider == {"local", "anthropic", "other"}

Setting ==
  [mode : Mode, provider : Provider \cup {Unset}, classes : SUBSET Class,
   optIn : BOOLEAN, key : {"none", "short", "long"},
   client : [mode : Mode, provider : Provider] \cup {Unset},
   declared : SUBSET Class \cup {Unset},
   labelsSafe : BOOLEAN, fileBacked : BOOLEAN]

ASSUME EgressAssumption ==
  /\ LastThread \in Nat
  /\ MaxRequests \in [Process -> Nat]
  /\ Settings \subseteq Setting

Status == {"authorized", "completed", "failed"}
Event == [request : Request, status : Status]

\* Whether a transaction is open, the events in it, and whether the caller has
\* written something in it.
Transaction == [open : BOOLEAN, events : SUBSET Event, callerWork : BOOLEAN]
NoTransaction == [open |-> FALSE, events |-> {}, callerWork |-> FALSE]

Init ==
  /\ setting \in Settings
  /\ audit = [r \in Request |-> {}]
  /\ tx = [p \in Process |-> NoTransaction]
  /\ pc = [p \in Process |-> "idle"]
  /\ thread = [p \in Process |-> 1]
  /\ made = [p \in Process |-> 0]
  /\ status = [p \in Process |-> "authorized"]
  /\ results = [p \in Process |-> {}]
  /\ sent = {}
  /\ lost = {}

At(p, step) == pc[p] = step
Goto(p, step) == pc' = [pc EXCEPT ![p] = step]
Current(p) == <<p, made[p]>>
CurrentEvent(p) == [request |-> Current(p), status |-> status[p]]

----------------------------------------------------------------------------
(* Policy.                                                                 *)

\* load_llm_provider_policy; "disabled" is also what an unset mode gives.
PolicyProvider ==
  IF setting.provider # Unset THEN setting.provider
  ELSE IF setting.mode = "cloud" THEN "anthropic" ELSE setting.mode

AllowedClasses ==
  IF setting.classes # {} THEN setting.classes
  ELSE CASE setting.mode = "cloud"  -> {"metadata-redacted"}
         [] setting.mode = "local"  -> {"metadata"}
         [] OTHER                   -> {}

\* The client that will be called: without one the Anthropic client is built.
Client ==
  IF setting.client = Unset THEN [mode |-> "cloud", provider |-> "anthropic"]
  ELSE setting.client

RequestedClasses ==
  IF setting.declared # Unset THEN setting.declared
  ELSE IF setting.mode = "cloud" THEN {"metadata-redacted"} ELSE {"metadata"}

CloudAllowed ==
  /\ setting.optIn
  /\ setting.key = "long"
  /\ PolicyProvider = "anthropic"

PolicyAllows ==
  /\ setting.mode \in {"local", "cloud"}
  /\ setting.mode = "cloud" => CloudAllowed
  /\ RequestedClasses # {} /\ RequestedClasses \subseteq AllowedClasses
  /\ setting.labelsSafe /\ setting.fileBacked

ClientIsPolicys == Client = [mode |-> setting.mode, provider |-> PolicyProvider]

\* Wrong: the client is not compared with the policy.
AuthorizedForAnyClient(p) == PolicyAllows /\ ~tx[p].open

\* Wrong: a connection with an open transaction will do.
AuthorizedInTransaction(p) == PolicyAllows /\ ClientIsPolicys

\* _authorize_model_request
Authorized(p) == PolicyAllows /\ ClientIsPolicys /\ ~tx[p].open

\* _build_thread_context
ThreadContext == IF setting.mode = "cloud" THEN "pseudonyms" ELSE "names"

----------------------------------------------------------------------------
(* _record_egress_event, in three steps any of which may raise.            *)

\* Start to record an event of the request in hand.
Record(p, s) ==
  /\ status' = [status EXCEPT ![p] = s]
  /\ Goto(p, "insert")

\* The exception leaves extract_corpus_with_llm: what it has is dropped.
Raise(p) ==
  /\ Goto(p, "idle")
  /\ results' = [results EXCEPT ![p] = {}]
  /\ UNCHANGED status

\* Wrong: the handler does not roll back.
HandleWithoutRollback(p) ==
  /\ Record(p, "failed")
  /\ UNCHANGED <<results, tx>>

\* The handler of extract_with_llm.
Handle(p) ==
  /\ tx' = [tx EXCEPT ![p] = NoTransaction]
  /\ Record(p, "failed")
  /\ UNCHANGED results

\* An exception out of _record_egress_event goes to the handler if it was called
\* within the try; otherwise the transaction stays open.
RecordingFails(p, transaction) ==
  IF status[p] = "completed"
  THEN Handle(p) /\ UNCHANGED lost
  ELSE /\ Raise(p)
       /\ lost' = lost \cup {Current(p)}
       /\ tx' = [tx EXCEPT ![p] = transaction]

NobodyElseWrites(p) ==
  \A q \in Process \ {p} : tx[q].events = {} /\ ~tx[q].callerWork

\* The first statement of a transaction waits for other writers.
Insert(p) ==
  /\ At(p, "insert")
  /\ NobodyElseWrites(p)
  /\ tx' = [tx EXCEPT ![p] = [open |-> TRUE, events |-> @.events \cup {CurrentEvent(p)},
                               callerWork |-> @.callerWork]]
  /\ Goto(p, "commit")
  /\ UNCHANGED <<setting, audit, thread, made, status, results, sent, lost>>

\* Busy, or the disk is full: the implicit BEGIN was executed before.
InsertFails(p) ==
  /\ At(p, "insert")
  /\ RecordingFails(p, [open |-> TRUE, events |-> tx[p].events, callerWork |-> tx[p].callerWork])
  /\ UNCHANGED <<setting, audit, thread, made, sent>>

\* What a commit of p's transaction does to the table.
Committed(p) ==
  [r \in Request |->
     audit[r] \cup {e.status : e \in {x \in tx[p].events : x.request = r}}]

Commit(p) ==
  /\ At(p, "commit")
  /\ audit' = Committed(p)
  /\ tx' = [tx EXCEPT ![p] = NoTransaction]
  /\ Goto(p, "chmod")
  /\ UNCHANGED <<setting, thread, made, status, results, sent, lost>>

CommitFails(p) ==
  /\ At(p, "commit")
  /\ RecordingFails(p, tx[p])
  /\ UNCHANGED <<setting, audit, thread, made, sent>>

\* extract_with_llm returns to the loop over the threads.
NextThread(p) ==
  /\ thread' = [thread EXCEPT ![p] = @ + 1]
  /\ Goto(p, "loop")

\* enforce_owner_only_database_files, and on with what the recording was for.
Chmod(p) ==
  /\ At(p, "chmod")
  /\ CASE status[p] = "authorized" ->
            /\ Goto(p, "call")
            /\ UNCHANGED <<thread, results, status>>
       [] status[p] = "completed" ->
            /\ results' = [results EXCEPT ![p] = @ \cup {Current(p)}]
            /\ NextThread(p)
            /\ UNCHANGED status
       [] status[p] = "failed" ->
            /\ Raise(p)
            /\ UNCHANGED thread
  /\ UNCHANGED <<setting, audit, tx, made, sent, lost>>

ChmodFails(p) ==
  /\ At(p, "chmod")
  /\ RecordingFails(p, tx[p])
  /\ UNCHANGED <<setting, audit, thread, made, sent>>

----------------------------------------------------------------------------
(* extract_corpus_with_llm and extract_with_llm.                           *)

Begin(p) ==
  /\ At(p, "idle")
  /\ Goto(p, "loop")
  /\ thread' = [thread EXCEPT ![p] = 1]
  /\ results' = [results EXCEPT ![p] = {}]
  /\ UNCHANGED <<setting, audit, tx, made, status, sent, lost>>

\* No request is made for a thread that may not be extracted, nor for a recorded one.
Skip(p) ==
  /\ At(p, "loop")
  /\ thread[p] \in (Ineligible \cup Cassette) \cap (1 .. LastThread)
  /\ NextThread(p)
  /\ UNCHANGED <<setting, audit, tx, made, status, results, sent, lost>>

\* Wrong: the model is called first and the event recorded with the outcome.
CallBeforeRecording(p) ==
  /\ Goto(p, "call")
  /\ UNCHANGED status

RecordAuthorization(p) == Record(p, "authorized")

Authorize(p) ==
  /\ At(p, "loop")
  /\ thread[p] \in (1 .. LastThread) \ (Ineligible \cup Cassette)
  /\ IF Authorized(p)
     THEN /\ made[p] < MaxRequests[p]
          /\ made' = [made EXCEPT ![p] = @ + 1]
          /\ RecordAuthorization(p)
          /\ UNCHANGED results
     ELSE Raise(p) /\ UNCHANGED made
  /\ UNCHANGED <<setting, audit, tx, thread, sent, lost>>

\* client.messages.create, once.
Send(p) ==
  sent' = sent \cup {[request |-> Current(p), to |-> Client.mode, text |-> ThreadContext]}

Call(p) ==
  /\ At(p, "call")
  /\ Send(p)
  /\ Goto(p, "parse")
  /\ UNCHANGED <<setting, audit, tx, thread, made, status, results, lost>>

\* There is no client, or the request fails, before it leaves or after.
CallFails(p) ==
  /\ At(p, "call")
  /\ UNCHANGED sent \/ Send(p)
  /\ Handle(p)
  /\ UNCHANGED <<setting, audit, thread, made, lost>>

\* Wrong: the answer is read outside the try.
ParseRaisesUnhandled(p) ==
  /\ Raise(p)
  /\ UNCHANGED tx

ParseRaises(p) == Handle(p)

\* An answer that is no JSON makes a candidate for review; one of another shape raises.
Parse(p) ==
  /\ At(p, "parse")
  /\ Record(p, "completed")
  /\ UNCHANGED <<setting, audit, tx, thread, made, results, sent, lost>>

ParseFails(p) ==
  /\ At(p, "parse")
  /\ ParseRaises(p)
  /\ UNCHANGED <<setting, audit, thread, made, sent, lost>>

\* The result, with candidates of every thread.
Return(p) ==
  /\ At(p, "loop")
  /\ thread[p] > LastThread
  /\ Goto(p, "idle")
  /\ UNCHANGED <<setting, audit, tx, thread, made, status, results, sent, lost>>

----------------------------------------------------------------------------
(* The caller's own use of the connection, and crashes.                    *)

CallerWrites(p) ==
  /\ At(p, "idle")
  /\ NobodyElseWrites(p)
  /\ tx' = [tx EXCEPT ![p] = [open |-> TRUE, events |-> @.events, callerWork |-> TRUE]]
  /\ UNCHANGED <<setting, audit, pc, thread, made, status, results, sent, lost>>

\* Also what an exception left in it.
CallerCommits(p) ==
  /\ At(p, "idle")
  /\ tx[p].open
  /\ audit' = Committed(p)
  /\ tx' = [tx EXCEPT ![p] = NoTransaction]
  /\ UNCHANGED <<setting, pc, thread, made, status, results, sent, lost>>

CallerRollsBack(p) ==
  /\ At(p, "idle")
  /\ tx[p].open
  /\ tx' = [tx EXCEPT ![p] = NoTransaction]
  /\ UNCHANGED <<setting, audit, pc, thread, made, status, results, sent, lost>>

\* The process dies, or the call is interrupted by what is no Exception and leaves
\* its transaction to the caller.
Crash(p) ==
  /\ ~At(p, "idle")
  /\ Goto(p, "idle")
  /\ UNCHANGED tx \/ tx' = [tx EXCEPT ![p] = NoTransaction]
  /\ results' = [results EXCEPT ![p] = {}]
  /\ lost' = IF pc[p] \in {"insert", "commit", "chmod", "call", "parse"}
             THEN lost \cup {Current(p)} ELSE lost
  /\ UNCHANGED <<setting, audit, thread, made, status, sent>>

----------------------------------------------------------------------------

\* A call of extract_corpus_with_llm goes on.
Continue(p) ==
  \/ Skip(p) \/ Authorize(p) \/ Return(p)
  \/ Insert(p) \/ Commit(p) \/ Chmod(p)
  \/ InsertFails(p) \/ CommitFails(p) \/ ChmodFails(p)
  \/ Call(p) \/ CallFails(p)
  \/ Parse(p) \/ ParseFails(p)

Next ==
  \E p \in Process :
    \/ Begin(p) \/ Continue(p)
    \/ CallerWrites(p) \/ CallerCommits(p) \/ CallerRollsBack(p)
    \/ Crash(p)

Spec == Init /\ [][Next]_vars /\ \A p \in Process : WF_vars(Continue(p))

----------------------------------------------------------------------------
(* Properties.                                                             *)

TypeOK ==
  /\ setting \in Settings
  /\ audit \in [Request -> SUBSET Status]
  /\ tx \in [Process -> Transaction]
  /\ pc \in [Process -> {"idle", "loop", "insert", "commit", "chmod", "call", "parse"}]
  /\ thread \in [Process -> 1 .. LastThread + 1]
  /\ made \in [Process -> Nat]
  /\ \A p \in Process : made[p] <= MaxRequests[p]
  /\ status \in [Process -> Status]
  /\ results \in [Process -> SUBSET Request]
  /\ sent \subseteq [request : Request, to : Mode, text : {"pseudonyms", "names"}]
  /\ lost \subseteq Request

Egress == {m.request : m \in sent}

Ledger == INSTANCE EgressLedger WITH events <- audit, egress <- Egress

\* The audit implements the ledger of model requests, though inserting, committing
\* and the chmod after a commit may fail, processes may die and a caller may commit
\* what an exception left in its transaction: authorized before it leaves, one
\* request per authorization, completed only if it left, failed at the end.
ImplementsLedger == Ledger!Spec

\* "setting a model name or API key alone does not authorize egress": what goes to
\* the cloud, which the client decides, was opted into by the environment, with a key
\* of length, and names nobody, which the policy decides; what goes to a local
\* model was configured as local.
EgressIsConsented ==
  \A m \in sent :
    /\ m.to = "cloud" => setting.optIn /\ setting.key = "long" /\ m.text = "pseudonyms"
    /\ m.to \in {"local", "cloud"} /\ m.to = setting.mode

\* A candidate that extract_corpus_with_llm keeps comes from a request whose
\* authorization and completion, and nothing else, are on record.
ResultsAreAudited ==
  \A p \in Process : \A r \in results[p] : audit[r] = {"authorized", "completed"}

\* The audit shares its connection with the caller, but neither commits nor rolls
\* back what the caller has written and not committed.
CallerWorkIsLeftAlone ==
  [][\A p \in Process : Continue(p) /\ tx[p].callerWork => tx'[p] = tx[p]]_vars

\* Every request that was authorized gets an outcome on record, unless its process
\* dies or the authorization or the failure cannot be recorded in full.
OutcomeIsRecorded ==
  \A r \in Request :
    "authorized" \in audit[r] ~> audit[r] \cap {"completed", "failed"} # {} \/ r \in lost
=============================================================================
