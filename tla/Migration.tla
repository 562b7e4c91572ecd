------------------------------ MODULE Migration ------------------------------
(***************************************************************************)
(* Starts on a database of any version: schema.py and the scripts under    *)
(* migrations/, in processes that open it at the same time. Every command  *)
(* of mpi does so (_setup_db).                                             *)
(*                                                                         *)
(* executescript executes a script statement by statement. Three scripts   *)
(* have no transaction around them, so that each of their statements is    *)
(* committed by itself. A column, table, index or trigger is an object;    *)
(* those of the queue's own that go and come with it are one.              *)
(***************************************************************************)
EXTENDS Naturals, Sequences

CONSTANTS
  Process,    \* processes that start
  Careless,   \* those that try again on the connection as an exception left it
  None, Opened

VARIABLES
  db,       \* what is committed
  tx,       \* what each process's transaction has made of it, if it has one
  pc,       \* where each process is
  script,   \* the script it is at
  stmt,     \* and the statement in it
  goal,     \* the script after which it is done
  setBack,  \* history: a version was overwritten by a lower one
  halfDone  \* history: a script that had failed in its transaction was committed

vars == <<db, tx, pc, script, stmt, goal, setBack, halfDone>>

----------------------------------------------------------------------------
(* The scripts, without what opens and ends their transactions.            *)

Ensure(x) == <<"ensure", x>>     \* CREATE ... IF NOT EXISTS
Create(x) == <<"create", x>>     \* CREATE, ALTER TABLE ... ADD COLUMN

Schema001 == <<Ensure("index tables"), Ensure("index indexes")>>

Schema002 ==
  <<Create("content_id"), Create("inline_flag"), Ensure("attachment indexes")>>

\* Wrong: the tables are not expected to be there.
Schema003Once ==
  <<Create("text_cache"), Create("cache indexes"),
    Create("promotion_queue"), Create("queue indexes")>>

Schema003 ==
  <<Ensure("text_cache"), Ensure("cache indexes"),
    Ensure("promotion_queue"), Ensure("queue indexes")>>

\* Wrong: the script is made to run twice.
Schema004Again ==
  <<<<"rename queue">>, Create("promotion_queue"), <<"convert rows">>, <<"drop old queue">>,
    Create("queue indexes"), Ensure("review_events"), Ensure("export_outbox"),
    Ensure("queue triggers")>>

Schema004 ==
  <<<<"rename queue">>, Create("promotion_queue"), <<"convert rows">>, <<"drop old queue">>,
    Create("queue indexes"), Create("review_events"), Create("export_outbox"),
    Create("queue triggers")>>

Schema005 ==
  <<Create("cache columns"), Ensure("text_cache_events"), Create("cache triggers"),
    Ensure("llm_egress_events")>>

Schema006 == <<Create("ingest_decisions"), Create("message_locator_history")>>

Migrations == <<Schema001, Schema002, Schema003, Schema004, Schema005, Schema006>>
Latest == Len(Migrations)

\* Wrong: the version is set first.
VersionFirst(k) == <<<<"version", k>>>> \o Migrations[k]

\* PRAGMA user_version is the last statement.
Statements(k) == Append(Migrations[k], <<"version", k>>)

Transaction(k) ==
  CASE k \in 1 .. 3 -> "none" [] k \in 4 .. 5 -> "immediate" [] k = 6 -> "deferred"

\* What a script creates, or makes sure of, and what it insists on creating.
Made(k) ==
  {Migrations[k][i][2] : i \in {j \in DOMAIN Migrations[k] : Len(Migrations[k][j]) = 2}}

Created(k) ==
  {Migrations[k][i][2] : i \in {j \in DOMAIN Migrations[k] : Migrations[k][j][1] = "create"}}

MadeBefore(k) == UNION {Made(j) : j \in 1 .. k - 1}

\* A database that was left by a version of the program with k scripts.
Database(k) ==
  [version |-> k, objects |-> MadeBefore(k + 1), converted |-> IF k < 4 THEN 0 ELSE 1]

Object == MadeBefore(Latest + 1) \cup {"promotion_queue_v3"}
State == [version : 0 .. Latest, objects : SUBSET Object, converted : 0 .. 2]

ASSUME ValueAssumption == None \notin State \cup {Opened} /\ Opened \notin State

Init ==
  /\ \E k \in 0 .. Latest : db = Database(k)
  /\ tx = [p \in Process |-> None]
  /\ pc = [p \in Process |-> "idle"]
  /\ script = [p \in Process |-> 1]
  /\ stmt = [p \in Process |-> 1]
  /\ goal = [p \in Process |-> Latest]
  /\ setBack = FALSE
  /\ halfDone = FALSE

----------------------------------------------------------------------------
(* Statements.                                                             *)

Writes(p) == tx[p] \notin {None, Opened}
MayWrite(p) == \A q \in Process \ {p} : ~Writes(q)
View(p) == IF Writes(p) THEN tx[p] ELSE db

Accepted(s, view) ==
  CASE s[1] = "create"         -> s[2] \notin view.objects
    [] s[1] = "rename queue"   -> "promotion_queue_v3" \notin view.objects
    [] OTHER                   -> TRUE

\* Indexes and triggers of the queue go on under their names until it is dropped. Rows
\* that were converted once and are converted again lose what reviewers did to them.
Effect(s, view) ==
  CASE s[1] \in {"ensure", "create"} -> [view EXCEPT !.objects = @ \cup {s[2]}]
    [] s[1] = "rename queue" ->
         [view EXCEPT !.objects = (@ \ {"promotion_queue"}) \cup {"promotion_queue_v3"}]
    [] s[1] = "convert rows" -> [view EXCEPT !.converted = IF @ < 2 THEN @ + 1 ELSE @]
    [] s[1] = "drop old queue" ->
         [view EXCEPT !.objects =
            @ \ {"promotion_queue_v3", "queue indexes", "queue triggers"}]
    [] s[1] = "version" -> [view EXCEPT !.version = s[2]]

At(p, step) == pc[p] = step
Goto(p, step) == pc' = [pc EXCEPT ![p] = step]
Current(p) == Statements(script[p])[stmt[p]]

----------------------------------------------------------------------------
(* apply_all_migrations and apply_schema_v0.                               *)

\* Wrong: the script of the version that is there is executed again.
FromVersionOn(version) == IF version = 0 THEN 1 ELSE version

FirstScript(version) == version + 1

\* The version is read once.
Start(p) ==
  /\ At(p, "idle")
  /\ LET first == FirstScript(View(p).version)
     IN  IF first > Latest
         THEN Goto(p, "ready") /\ UNCHANGED script
         ELSE Goto(p, "script") /\ script' = [script EXCEPT ![p] = first]
  /\ goal' = [goal EXCEPT ![p] = Latest]
  /\ UNCHANGED <<db, tx, stmt, setBack, halfDone>>

\* apply_schema_v0 does not look at the version.
StartV0(p) ==
  /\ At(p, "idle")
  /\ Goto(p, "script")
  /\ script' = [script EXCEPT ![p] = 1]
  /\ goal' = [goal EXCEPT ![p] = 1]
  /\ UNCHANGED <<db, tx, stmt, setBack, halfDone>>

\* A commit while no script is underway: what is pending is left of one that failed.
CommitPending(p) ==
  /\ db' = View(p)
  /\ halfDone' = (halfDone \/ Writes(p))
  /\ tx' = [tx EXCEPT ![p] = None]

\* executescript commits what is pending on the connection.
StartScript(p) ==
  /\ At(p, "script")
  /\ CommitPending(p)
  /\ Goto(p, "begin")
  /\ UNCHANGED <<script, stmt, goal, setBack>>

Begin(p) ==
  /\ At(p, "begin")
  /\ CASE Transaction(script[p]) = "none"      -> UNCHANGED tx
       [] Transaction(script[p]) = "deferred"  -> tx' = [tx EXCEPT ![p] = Opened]
       [] Transaction(script[p]) = "immediate" -> MayWrite(p) /\ tx' = [tx EXCEPT ![p] = db]
  /\ stmt' = [stmt EXCEPT ![p] = 1]
  /\ Goto(p, "statement")
  /\ UNCHANGED <<db, script, goal, setBack, halfDone>>

Execute(p) ==
  /\ At(p, "statement")
  /\ MayWrite(p)
  /\ Accepted(Current(p), View(p))
  /\ LET result == Effect(Current(p), View(p))
     IN  /\ IF tx[p] = None
            THEN db' = result /\ UNCHANGED tx
            ELSE tx' = [tx EXCEPT ![p] = result] /\ UNCHANGED db
         /\ setBack' = (setBack \/ result.version < View(p).version)
  /\ IF stmt[p] = Len(Statements(script[p]))
     THEN Goto(p, "commit") /\ stmt' = [stmt EXCEPT ![p] = 1]
     ELSE UNCHANGED pc /\ stmt' = [stmt EXCEPT ![p] = @ + 1]
  /\ UNCHANGED <<script, goal, halfDone>>

\* The transaction ends, if there is one, and the loop goes on.
Commit(p) ==
  /\ At(p, "commit")
  /\ db' = View(p)
  /\ tx' = [tx EXCEPT ![p] = None]
  /\ IF script[p] = goal[p]
     THEN Goto(p, "ready") /\ UNCHANGED script
     ELSE Goto(p, "script") /\ script' = [script EXCEPT ![p] = @ + 1]
  /\ UNCHANGED <<stmt, goal, setBack, halfDone>>

Raise(p) ==
  /\ Goto(p, "failed")
  /\ stmt' = [stmt EXCEPT ![p] = 1]
  /\ UNCHANGED <<db, script, goal, setBack, halfDone>>

Refusing(p) == At(p, "statement") /\ ~Accepted(Current(p), View(p))

\* Something is there already. A transaction stays open.
Refused(p) ==
  /\ Refusing(p)
  /\ Raise(p)
  /\ UNCHANGED tx

Underway(p) == pc[p] \in {"script", "begin", "statement", "commit"}

\* Busy, a foreign key, a full disk: after some errors SQLite rolls back by itself.
Fail(p) ==
  /\ Underway(p) /\ ~Refusing(p)
  /\ Raise(p)
  /\ UNCHANGED tx \/ tx' = [tx EXCEPT ![p] = None]

\* The connection is closed.
GiveUp(p) ==
  /\ At(p, "failed")
  /\ Goto(p, "idle")
  /\ tx' = [tx EXCEPT ![p] = None]
  /\ UNCHANGED <<db, script, stmt, goal, setBack, halfDone>>

\* The caller does its work, with commits, and closes the connection.
Finish(p) ==
  /\ At(p, "ready")
  /\ CommitPending(p)
  /\ Goto(p, "idle")
  /\ UNCHANGED <<script, stmt, goal, setBack>>

\* The call is repeated on the connection as it is.
TryAgain(p) ==
  /\ p \in Careless
  /\ At(p, "failed")
  /\ Goto(p, "idle")
  /\ UNCHANGED <<db, tx, script, stmt, goal, setBack, halfDone>>

Crash(p) ==
  /\ Underway(p)
  /\ Goto(p, "idle")
  /\ tx' = [tx EXCEPT ![p] = None]
  /\ stmt' = [stmt EXCEPT ![p] = 1]
  /\ UNCHANGED <<db, script, goal, setBack, halfDone>>

\* A command starts, goes on and ends.
Work(p) ==
  \/ Start(p) \/ StartScript(p) \/ Begin(p) \/ Execute(p) \/ Commit(p)
  \/ Refused(p) \/ GiveUp(p) \/ Finish(p)

Next == \E p \in Process : Work(p) \/ StartV0(p) \/ Fail(p) \/ TryAgain(p) \/ Crash(p)

Spec == Init /\ [][Next]_vars /\ \A p \in Process : WF_vars(Work(p))

----------------------------------------------------------------------------
(* Properties.                                                             *)

Complete == db.objects = MadeBefore(Latest + 1) /\ db.converted = 1

\* The version that is committed never promises what is not there: all of the scripts up
\* to it have had their effect. A start that returns leaves the whole schema, with the
\* queue converted once. Only who commits a script that failed half way breaks that.
VersionIsEarned ==
  ~halfDone =>
    /\ MadeBefore(db.version + 1) \subseteq db.objects
    /\ \A p \in Process : At(p, "ready") /\ goal[p] = Latest /\ ~Writes(p) => Complete

\* "immutable semantic envelope plus current review revision": whoever starts at the same
\* time, and wherever a start is cut off, nothing of the schema that is committed goes
\* away, nor does the old queue stay, and rows are converted once. A caller that tries
\* again in the transaction of a failed script is the only one to do such harm.
NothingIsTakenAway ==
  [][~halfDone' =>
       /\ db.objects \subseteq db'.objects
       /\ db'.converted <= 1
       /\ "promotion_queue_v3" \notin db'.objects]_db

\* What a script insists on creating is there, though the version does not say so: a start
\* that reads the version now is refused. Every healthy run of script 002 passes through
\* such a moment; it lasts if that run is cut off there.
Stuck ==
  \E k \in db.version + 1 .. Latest : (Created(k) \ MadeBefore(k)) \cap db.objects # {}

\* A start that is cut off may be repeated: it can only get stuck in script 002, between
\* ADD COLUMN and user_version, or when a late process, or apply_schema_v0, has set the
\* version back.
StuckIsExplained == Stuck => db.version = 1 \/ setBack \/ halfDone

\* Starts that are repeated complete the schema in the end, if failures and calls of
\* apply_schema_v0 come to an end, unless the database has got stuck for good.
SchemaGetsComplete ==
  <>[][\E p \in Process : Work(p) \/ TryAgain(p)]_vars =>
    <>(Complete \/ halfDone) \/ <>[]Stuck
==============================================================================
