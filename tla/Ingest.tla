-------------------------------- MODULE Ingest --------------------------------
(***************************************************************************)
(* From a corpus of metadata to index rows and review candidates: the      *)
(* mapper's verdicts, threading.py, ingest.py and extractor.py as mpi seed *)
(* runs them, with a crash between any two of its commits and an operator  *)
(* who corrects the corpus and seeds again. IndexWriter has the detail of  *)
(* the batch that is written here in one step.                             *)
(*                                                                         *)
(* Of a subject there remains what it is without its prefixes, whether it  *)
(* says fw: or fwd:, and which tokens it has; of labels, flags, sender and *)
(* headers, what the rules find in them.                                   *)
(***************************************************************************)
EXTENDS Naturals, Sequences, FiniteSets, Functions

CONSTANTS
  Corpora,     \* the corpora considered, sequences of messages
  Export, MessageId, Subject, Hint,   \* what the fields of a message hold
  Absent,      \* no thread_hint, no in_reply_to
  Malformed,   \* a reference that is no message ID
  Null,        \* a thread_hint of null, which str() makes "None"
  None         \* no row

VARIABLES
  corpus,   \* messages.json
  index,    \* what is persisted for each export, None at first
  queue,    \* promotion_queue, by artifact_id
  pc,       \* where the command is
  threads,  \* the threads it has reconstructed
  todo      \* the candidates it has still to enqueue

vars == <<corpus, index, queue, pc, threads, todo>>

Positions(ms) == 1 .. Len(ms)
Exports(ms) == {ms[i].export : i \in Positions(ms)}

Message ==
  [fixture : Nat, export : Export, id : MessageId,
   references : Seq(MessageId \cup {Malformed}), reply : MessageId \cup {Malformed, Absent},
   subject : Subject, forwarded : BOOLEAN, hint : Hint \cup {Absent, Null},
   mapped : {"accepted", "rejected", "unreadable"},
   signals : SUBSET {"project", "importance", "noise"}, lane : {"eventful", "other", "noise"},
   tokens : SUBSET {"obligation", "event"}, located : BOOLEAN, opaque : BOOLEAN]

\* IndexWriter tells what becomes of a batch that names an export twice.
ASSUME CorpusAssumption ==
  \A ms \in Corpora : ms \in Seq(Message) /\ Cardinality(Exports(ms)) = Len(ms)

----------------------------------------------------------------------------
(* reconstruct_fixture_threads                                             *)

Root(parent, f) ==
  LET root[x \in DOMAIN parent] == IF parent[x] = x THEN x ELSE root[parent[x]]
  IN  root[f]

Union(parent, left, right) ==
  IF Root(parent, left) = Root(parent, right) THEN parent
  ELSE [parent EXCEPT ![Root(parent, right)] = Root(parent, left)]

\* message_id_owner has the first message with an ID, by_message_id the last.
FirstWith(ms, id) == CHOOSE i \in Positions(ms) :
  ms[i].id = id /\ \A j \in Positions(ms) : ms[j].id = id => i <= j

LastWith(ms, id) == CHOOSE i \in Positions(ms) :
  ms[i].id = id /\ \A j \in Positions(ms) : ms[j].id = id => j <= i

Alone(ms) ==
  LET fixtures == {ms[i].fixture : i \in Positions(ms)} IN [f \in fixtures |-> f]

Known(ms, id) == \E j \in Positions(ms) : ms[j].id = id

Named(m) == Append(m.references, m.reply)

\* Message i is united with the owner of its ID, then with the messages it names.
UniteLinked(parent, ms, i) ==
  LET named == Named(ms[i])
      after[k \in 0 .. Len(named)] ==
        IF k = 0 THEN Union(parent, ms[FirstWith(ms, ms[i].id)].fixture, ms[i].fixture)
        ELSE IF Known(ms, named[k])
        THEN Union(after[k - 1], ms[LastWith(ms, named[k])].fixture, ms[i].fixture)
        ELSE after[k - 1]
  IN  after[Len(named)]

ExplicitLinks(ms) ==
  LET after[i \in 0 .. Len(ms)] ==
        IF i = 0 THEN Alone(ms) ELSE UniteLinked(after[i - 1], ms, i)
  IN  after[Len(ms)]

\* Wrong: a reply is drawn into the thread of its subject as well.
UnlinkedOrReply(m) == m.references = <<>>

Unlinked(m) == m.references = <<>> /\ m.reply = Absent

\* Wrong: the basis is recorded for messages that were linked already.
ByAnySubject(s, root, m) ==
  IF Unlinked(m)
  THEN [parent |-> Union(s.parent, root, m.fixture), fallback |-> s.fallback \cup {m.fixture}]
  ELSE s

BySubject(s, root, m) ==
  IF Unlinked(m) /\ Root(s.parent, root) # Root(s.parent, m.fixture)
  THEN [parent |-> Union(s.parent, root, m.fixture), fallback |-> s.fallback \cup {m.fixture}]
  ELSE s

\* The later messages of a subject are united with message i, the first of it.
UniteSubject(s, ms, i) ==
  LET after[j \in 0 .. Len(ms)] ==
        IF j = 0 THEN s
        ELSE IF j > i /\ ms[j].subject = ms[i].subject
        THEN BySubject(after[j - 1], ms[i].fixture, ms[j])
        ELSE after[j - 1]
  IN  after[Len(ms)]

FirstOfSubject(ms, i) == \A j \in 1 .. i - 1 : ms[j].subject # ms[i].subject

AllLinks(ms) ==
  LET after[i \in 0 .. Len(ms)] ==
        IF i = 0 THEN [parent |-> ExplicitLinks(ms), fallback |-> {}]
        ELSE IF FirstOfSubject(ms, i) THEN UniteSubject(after[i - 1], ms, i)
        ELSE after[i - 1]
  IN  after[Len(ms)]

HasMalformed(m) == Malformed \in Range(m.references) \cup {m.reply}

Confidence(members, fallback) ==
  IF \E m \in members : HasMalformed(m) THEN "low"
  ELSE IF \E m \in members : m.forwarded \/ m.fixture \in fallback THEN "medium"
  ELSE "high"

ThreadIds == ({"hash of"} \X MessageId) \cup ({"hint"} \X (Hint \cup {"None"}))

\* The hint of the thread's first message, or a hash of its message ID.
ThreadId(m) ==
  CASE m.hint = Absent -> <<"hash of", m.id>>
    [] m.hint = Null   -> <<"hint", "None">>
    [] OTHER           -> <<"hint", m.hint>>

Groups(ms, parent) ==
  {{j \in Positions(ms) : Root(parent, ms[j].fixture) = Root(parent, ms[i].fixture)} :
     i \in Positions(ms)}

First(group) == CHOOSE i \in group : \A j \in group : i <= j

Thread(ms, fallback, group) ==
  [id |-> ThreadId(ms[First(group)]),
   fixtures |-> {ms[i].fixture : i \in group},
   confidence |-> Confidence({ms[i] : i \in group}, fallback)]

Least(ms, group) == ms[CHOOSE i \in group : \A j \in group : ms[i].fixture <= ms[j].fixture].fixture

\* In the order of the least fixture_id.
Place(ms, groups, group) ==
  Cardinality({other \in groups : Least(ms, other) <= Least(ms, group)})

Reconstruct(ms) ==
  LET links == AllLinks(ms)
      groups == Groups(ms, links.parent)
  IN  [k \in 1 .. Cardinality(groups) |->
         Thread(ms, links.fallback, CHOOSE g \in groups : Place(ms, groups, g) = k)]

----------------------------------------------------------------------------
(* prepare_ingest                                                          *)

\* The last message that has the fixture_id.
Source(ms, fixture) == ms[CHOOSE i \in Positions(ms) :
  ms[i].fixture = fixture /\ \A j \in Positions(ms) : ms[j].fixture = fixture => j <= i]

Suppression(m) ==
  IF "project" \in m.signals THEN "allow"
  ELSE IF "importance" \in m.signals THEN "review_needed"
  ELSE IF "noise" \in m.signals THEN "suppress"
  ELSE "allow"

ExtractionAllowed(m) == m.lane \in {"eventful", "other"}

\* Wrong: what classification allows is not suppressed.
EligibleIfEither(source, record) ==
  Suppression(source) = "allow" \/ ExtractionAllowed(record)

Eligible(source, record) ==
  /\ Suppression(source) = "allow"
  /\ "project" \in record.signals \/ ExtractionAllowed(record)

ThreadOf(ts, fixture) == CHOOSE t \in Range(ts) : fixture \in t.fixtures

IngestDecision ==
  [thread : ThreadIds, confidence : {"low", "medium", "high"},
   action : {"allow", "review_needed", "suppress"}, eligible : BOOLEAN]

ASSUME NoneAssumption == None \notin IngestDecision

Decision(ms, ts, record) ==
  LET t == ThreadOf(ts, record.fixture)
      source == Source(ms, record.fixture)
  IN  [thread |-> t.id, confidence |-> t.confidence, action |-> Suppression(source),
       eligible |-> Eligible(source, record)]

\* Of a batch that the mapper accepts as a whole: no decision of another is written.
PrepareIngest(ms) ==
  LET ts == Reconstruct([i \in Positions(ms) |-> Source(ms, ms[i].fixture)])
  IN  [e \in Exports(ms) |->
         Decision(ms, ts, ms[CHOOSE i \in Positions(ms) : ms[i].export = e])]

----------------------------------------------------------------------------
(* extract_from_corpus: the corpus again, whatever was decided about it.   *)

Candidate(artifact, t, ms) ==
  [artifact |-> artifact, thread |-> t.id, sources |-> ms,
   valid |-> (\E m \in ms : m.located) /\ \A m \in ms : m.opaque]

Members(ms, t) == SelectSeq(ms, LAMBDA m : m.fixture \in t.fixtures)

Having(ms, token) == SelectSeq(ms, LAMBDA m : token \in m.tokens)

FirstHaving(ms, token, t) ==
  LET m == Having(ms, token)[1]
  IN  IF Having(ms, token) = <<>> THEN <<>>
      ELSE <<Candidate(<<token, m.id>>, t, {m})>>

\* Only the first message of the thread is classified.
ExtractFromThread(t, ms) ==
  LET messages == Members(ms, t)
  IN  IF ~ExtractionAllowed(messages[1]) THEN <<>>
      ELSE <<Candidate(<<"summary", t.id>>, t, Range(messages))>>
             \o FirstHaving(messages, "obligation", t)
             \o IF messages[1].lane = "eventful" THEN FirstHaving(messages, "event", t)
                ELSE <<>>

Candidates(ts, ms) ==
  LET upTo[k \in 0 .. Len(ts)] ==
        IF k = 0 THEN <<>> ELSE upTo[k - 1] \o ExtractFromThread(ts[k], ms)
  IN  upTo[Len(ts)]

----------------------------------------------------------------------------
(* cmd_seed                                                                *)

Init ==
  /\ corpus \in Corpora
  /\ index = [e \in Exports(corpus) |-> None]
  /\ queue = {}
  /\ pc = "idle"
  /\ threads = <<>>
  /\ todo = <<>>

Accepted(m) == m.mapped = "accepted"

\* The mapper accepts the message, and the writer its locator.
Usable(m) == Accepted(m) /\ m.located

\* A batch with a message that is not changes nothing, and the command goes on.
Sync ==
  /\ pc = "idle"
  /\ pc' = "synced"
  /\ index' = IF \A i \in Positions(corpus) : Usable(corpus[i])
              THEN PrepareIngest(corpus) ELSE index
  /\ UNCHANGED <<corpus, queue, threads, todo>>

Readable(ms) == \A i \in Positions(ms) : ms[i].mapped # "unreadable"

Extract ==
  /\ pc = "synced" /\ Readable(corpus)
  /\ pc' = "enqueue"
  /\ threads' = Reconstruct(corpus)
  /\ todo' = Candidates(threads', corpus)
  /\ UNCHANGED <<corpus, index, queue>>

Queued(c) == \E row \in queue : row.artifact = c.artifact

Enqueue ==
  /\ pc = "enqueue" /\ todo # <<>> /\ Head(todo).valid /\ ~Queued(Head(todo))
  /\ queue' = queue \cup {Head(todo)}
  /\ todo' = Tail(todo)
  /\ UNCHANGED <<corpus, index, pc, threads>>

\* Wrong: the command ends at the first candidate that is there already.
StopAtQueued ==
  /\ pc = "enqueue" /\ todo # <<>> /\ Head(todo).valid /\ Queued(Head(todo))
  /\ todo' = <<>>
  /\ UNCHANGED <<corpus, index, queue, pc, threads>>

\* IntegrityError
SkipQueued ==
  /\ pc = "enqueue" /\ todo # <<>> /\ Head(todo).valid /\ Queued(Head(todo))
  /\ todo' = Tail(todo)
  /\ UNCHANGED <<corpus, index, queue, pc, threads>>

End(to) ==
  /\ pc' = to
  /\ threads' = <<>>
  /\ todo' = <<>>
  /\ UNCHANGED <<corpus, index, queue>>

Report ==
  /\ pc = "enqueue" /\ todo = <<>>
  /\ End("done")

\* A KeyError, or the ValueError of a candidate that is no semantic artifact.
Raise ==
  \/ pc = "synced" /\ ~Readable(corpus) /\ End("failed")
  \/ pc = "enqueue" /\ todo # <<>> /\ ~Head(todo).valid /\ End("failed")

Crash ==
  /\ pc \in {"synced", "enqueue"}
  /\ End("idle")

SeedAgain ==
  /\ pc \in {"done", "failed"}
  /\ End("idle")

\* "Correct the source metadata and replay the same cursor."
Correct ==
  /\ pc = "idle"
  /\ \E i \in Positions(corpus) :
       /\ ~Usable(corpus[i])
       /\ corpus' = [corpus EXCEPT ![i].mapped = "accepted", ![i].located = TRUE]
  /\ UNCHANGED <<index, queue, pc, threads, todo>>

Seed == Sync \/ Extract \/ Enqueue \/ SkipQueued \/ Report \/ Raise

Next == Seed \/ Crash \/ SeedAgain \/ Correct

Spec == Init /\ [][Next]_vars

----------------------------------------------------------------------------
(* Properties.                                                             *)

\* Messages that belong together by their headers: whoever refers to whom, in either
\* direction and wherever in the corpus.
Related(ms, i, j) ==
  \/ ms[i].fixture = ms[j].fixture \/ ms[i].id = ms[j].id
  \/ ms[j].id \in Range(ms[i].references) \cup {ms[i].reply}
  \/ ms[i].id \in Range(ms[j].references) \cup {ms[j].reply}

\* What the fallback adds: a message without any link, and the first of its subject.
SameSubject(ms, i, j) ==
  /\ ms[i].subject = ms[j].subject
  /\ \E a \in {i, j} : a = 1 \/ \A k \in 1 .. a - 1 : ms[k].subject # ms[a].subject
  /\ LET later == ms[IF i < j THEN j ELSE i]
     IN  later.references = <<>> /\ later.reply = Absent

\* In every set of messages that is closed under the relation and has one of them, the
\* other is as well.
Connected(ms, R(_, _, _), i, j) ==
  \A closed \in SUBSET Positions(ms) :
    i \in closed /\ (\A a \in closed, b \in Positions(ms) : R(ms, a, b) => b \in closed)
      => j \in closed

ByHeaders(ms, i, j) == Connected(ms, Related, i, j)
ByAll(ms, i, j) ==
  Connected(ms, LAMBDA s, a, b : Related(s, a, b) \/ SameSubject(s, a, b), i, j)

\* "deterministic evidence": the threads are the components of the links that headers and
\* the subject fallback make, each message in one of them, whatever the order in which
\* union-find came upon the links, and if IDs or fixture_ids occur twice.
ThreadsAreComponents ==
  pc = "enqueue" =>
    \A i, j \in Positions(corpus) :
      ByAll(corpus, i, j) <=>
        \E t \in Range(threads) : {corpus[i].fixture, corpus[j].fixture} \subseteq t.fixtures

\* "Subject fallback is medium confidence", "Exact header links and duplicate source IDs
\* are high": a thread has high confidence if, and only if, headers alone hold it together
\* and none of them is malformed or of a message that was forwarded.
ConfidenceIsEarned ==
  pc = "enqueue" =>
    \A t \in Range(threads) :
      LET members == {i \in Positions(corpus) : corpus[i].fixture \in t.fixtures}
      IN  t.confidence = "high" <=>
            /\ \A i, j \in members : ByHeaders(corpus, i, j)
            /\ \A i \in members : ~HasMalformed(corpus[i]) /\ ~corpus[i].forwarded

\* "a suppression decision always prevents automatic extraction": with every fixture_id
\* used once, what is persisted for an export was decided on its own message, and under
\* the ID of the thread of the messages it is connected with.
DecisionsAreOwn ==
  (Cardinality({corpus[i].fixture : i \in Positions(corpus)}) = Len(corpus)) =>
    \A i \in Positions(corpus) :
      LET row == index[corpus[i].export]
      IN  row # None =>
            /\ row.eligible => Suppression(corpus[i]) = "allow"
            /\ row.thread = ThreadId(corpus[CHOOSE j \in Positions(corpus) :
                 ByAll(corpus, i, j) /\ \A k \in Positions(corpus) :
                                          ByAll(corpus, i, k) => j <= k])

\* The persisted decision is "the source of truth for extraction eligibility".
MayBeExtracted(c) ==
  \A m \in c.sources : index[m.export] # None /\ index[m.export].eligible

\* A seed that ends without an exception has completed what earlier ones, cut off anywhere
\* or stopped by a faulty message, had begun: every candidate whose messages are all
\* persisted as eligible is queued, those after one that was there already included, and
\* every export of a usable corpus has its decision. The command queues the others as
\* well, of suppressed messages and of rejected batches, which the documents forbid; that
\* it does so is not asked for here.
SeedIsComplete ==
  pc = "done" =>
    /\ \A c \in Range(Candidates(Reconstruct(corpus), corpus)) :
         MayBeExtracted(c) => Queued(c)
    /\ (\A i \in Positions(corpus) : Usable(corpus[i])) =>
         \A e \in Exports(corpus) : index[e] # None
==============================================================================
