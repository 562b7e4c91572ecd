---------------------------- MODULE Migration_proofs ----------------------------
(***************************************************************************)
(* Proofs about Migration, for any processes and any of them careless: the *)
(* version is earned, nothing of the schema goes away, and a start that    *)
(* gets stuck has an explanation.                                          *)
(***************************************************************************)
EXTENDS Migration, SequenceTheorems, TLAPS

----------------------------------------------------------------------------
(* The scripts, statement by statement.                                    *)

LEMMA MigrationsAre ==
  /\ Latest = 6 /\ DOMAIN Migrations = 1 .. 6
  /\ Migrations[1] = Schema001 /\ Migrations[2] = Schema002 /\ Migrations[3] = Schema003
  /\ Migrations[4] = Schema004 /\ Migrations[5] = Schema005 /\ Migrations[6] = Schema006
  BY DEF Latest, Migrations

Says(statement, how, x) ==
  Len(statement) = 2 /\ statement[1] = how /\ statement[2] = x

LEMMA SaysIs == \A x : Says(Ensure(x), "ensure", x) /\ Says(Create(x), "create", x)
  BY DEF Says, Ensure, Create

IsOfLength(s, n) == Len(s) = n /\ DOMAIN s = 1 .. n /\ s = [i \in 1 .. n |-> s[i]]

LEMMA Script1Is ==
  /\ IsOfLength(Migrations[1], 2) /\ DOMAIN Migrations[1] = {1, 2}
  /\ Says(Migrations[1][1], "ensure", "index tables")
  /\ Says(Migrations[1][2], "ensure", "index indexes")
<1>1. Len(Schema001) = 2 /\ DOMAIN Schema001 = 1 .. 2
  BY DEF Schema001
<1>2. Schema001 = [i \in 1 .. 2 |-> Schema001[i]]
  BY DEF Schema001
<1>3. 1 .. 2 = {1, 2}
  OBVIOUS
<1>4. /\ Schema001[1] = Ensure("index tables")
      /\ Schema001[2] = Ensure("index indexes")
  BY DEF Schema001
<1> QED
  BY <1>1, <1>2, <1>3, <1>4, SaysIs, MigrationsAre DEF IsOfLength

LEMMA Script2Is ==
  /\ IsOfLength(Migrations[2], 3) /\ DOMAIN Migrations[2] = {1, 2, 3}
  /\ Says(Migrations[2][1], "create", "content_id")
  /\ Says(Migrations[2][2], "create", "inline_flag")
  /\ Says(Migrations[2][3], "ensure", "attachment indexes")
<1>1. Len(Schema002) = 3 /\ DOMAIN Schema002 = 1 .. 3
  BY DEF Schema002
<1>2. Schema002 = [i \in 1 .. 3 |-> Schema002[i]]
  BY DEF Schema002
<1>3. 1 .. 3 = {1, 2, 3}
  OBVIOUS
<1>4. /\ Schema002[1] = Create("content_id")
      /\ Schema002[2] = Create("inline_flag")
      /\ Schema002[3] = Ensure("attachment indexes")
  BY DEF Schema002
<1> QED
  BY <1>1, <1>2, <1>3, <1>4, SaysIs, MigrationsAre DEF IsOfLength

LEMMA Script3Is ==
  /\ IsOfLength(Migrations[3], 4) /\ DOMAIN Migrations[3] = {1, 2, 3, 4}
  /\ Says(Migrations[3][1], "ensure", "text_cache")
  /\ Says(Migrations[3][2], "ensure", "cache indexes")
  /\ Says(Migrations[3][3], "ensure", "promotion_queue")
  /\ Says(Migrations[3][4], "ensure", "queue indexes")
<1>1. Len(Schema003) = 4 /\ DOMAIN Schema003 = 1 .. 4
  BY DEF Schema003
<1>2. Schema003 = [i \in 1 .. 4 |-> Schema003[i]]
  BY DEF Schema003
<1>3. 1 .. 4 = {1, 2, 3, 4}
  OBVIOUS
<1>4. /\ Schema003[1] = Ensure("text_cache")
      /\ Schema003[2] = Ensure("cache indexes")
      /\ Schema003[3] = Ensure("promotion_queue")
      /\ Schema003[4] = Ensure("queue indexes")
  BY DEF Schema003
<1> QED
  BY <1>1, <1>2, <1>3, <1>4, SaysIs, MigrationsAre DEF IsOfLength

LEMMA Script4Is ==
  /\ IsOfLength(Migrations[4], 8) /\ DOMAIN Migrations[4] = {1, 2, 3, 4, 5, 6, 7, 8}
  /\ Migrations[4][1] = <<"rename queue">>
  /\ Says(Migrations[4][2], "create", "promotion_queue")
  /\ Migrations[4][3] = <<"convert rows">>
  /\ Migrations[4][4] = <<"drop old queue">>
  /\ Says(Migrations[4][5], "create", "queue indexes")
  /\ Says(Migrations[4][6], "create", "review_events")
  /\ Says(Migrations[4][7], "create", "export_outbox")
  /\ Says(Migrations[4][8], "create", "queue triggers")
<1>1. Len(Schema004) = 8 /\ DOMAIN Schema004 = 1 .. 8
  BY DEF Schema004
<1>2. Schema004 = [i \in 1 .. 8 |-> Schema004[i]]
  BY DEF Schema004
<1>3. 1 .. 8 = {1, 2, 3, 4, 5, 6, 7, 8}
  OBVIOUS
<1>4. /\ Schema004[1] = <<"rename queue">>
      /\ Schema004[2] = Create("promotion_queue")
      /\ Schema004[3] = <<"convert rows">>
      /\ Schema004[4] = <<"drop old queue">>
  BY DEF Schema004
<1>5. /\ Schema004[5] = Create("queue indexes")
      /\ Schema004[6] = Create("review_events")
      /\ Schema004[7] = Create("export_outbox")
      /\ Schema004[8] = Create("queue triggers")
  BY DEF Schema004
<1> QED
  BY <1>1, <1>2, <1>3, <1>4, <1>5, SaysIs, MigrationsAre DEF IsOfLength

LEMMA Script5Is ==
  /\ IsOfLength(Migrations[5], 4) /\ DOMAIN Migrations[5] = {1, 2, 3, 4}
  /\ Says(Migrations[5][1], "create", "cache columns")
  /\ Says(Migrations[5][2], "ensure", "text_cache_events")
  /\ Says(Migrations[5][3], "create", "cache triggers")
  /\ Says(Migrations[5][4], "ensure", "llm_egress_events")
<1>1. Len(Schema005) = 4 /\ DOMAIN Schema005 = 1 .. 4
  BY DEF Schema005
<1>2. Schema005 = [i \in 1 .. 4 |-> Schema005[i]]
  BY DEF Schema005
<1>3. 1 .. 4 = {1, 2, 3, 4}
  OBVIOUS
<1>4. /\ Schema005[1] = Create("cache columns")
      /\ Schema005[2] = Ensure("text_cache_events")
      /\ Schema005[3] = Create("cache triggers")
      /\ Schema005[4] = Ensure("llm_egress_events")
  BY DEF Schema005
<1> QED
  BY <1>1, <1>2, <1>3, <1>4, SaysIs, MigrationsAre DEF IsOfLength

LEMMA Script6Is ==
  /\ IsOfLength(Migrations[6], 2) /\ DOMAIN Migrations[6] = {1, 2}
  /\ Says(Migrations[6][1], "create", "ingest_decisions")
  /\ Says(Migrations[6][2], "create", "message_locator_history")
<1>1. Len(Schema006) = 2 /\ DOMAIN Schema006 = 1 .. 2
  BY DEF Schema006
<1>2. Schema006 = [i \in 1 .. 2 |-> Schema006[i]]
  BY DEF Schema006
<1>3. 1 .. 2 = {1, 2}
  OBVIOUS
<1>4. /\ Schema006[1] = Create("ingest_decisions")
      /\ Schema006[2] = Create("message_locator_history")
  BY DEF Schema006
<1> QED
  BY <1>1, <1>2, <1>3, <1>4, SaysIs, MigrationsAre DEF IsOfLength

LEMMA LengthsAre ==
  ASSUME NEW k \in 1 .. 6
  PROVE  Len(Migrations[k]) \in Nat /\ IsOfLength(Migrations[k], Len(Migrations[k]))
<1>1. k = 1 \/ k = 2 \/ k = 3 \/ k = 4 \/ k = 5 \/ k = 6
  OBVIOUS
<1>2. IsOfLength(Migrations[k], 2) \/ IsOfLength(Migrations[k], 3)
      \/ IsOfLength(Migrations[k], 4) \/ IsOfLength(Migrations[k], 8)
  BY <1>1, Script1Is, Script2Is, Script3Is, Script4Is, Script5Is, Script6Is
<1>3. \A s, n : IsOfLength(s, n) => Len(s) = n
  BY DEF IsOfLength
<1> QED
  BY <1>2, <1>3

\* A script sets its version when all else is done.
LEMMA StatementsAre ==
  ASSUME NEW k \in 1 .. 6, NEW n, n = Len(Migrations[k])
  PROVE  /\ n \in Nat /\ Len(Statements(k)) = n + 1
         /\ \A i \in 1 .. n : Statements(k)[i] = Migrations[k][i]
         /\ Statements(k)[n + 1] = <<"version", k>>
<1>1. PICK s : s = Migrations[k]
  OBVIOUS
<1>2. n \in Nat
  BY LengthsAre
<1> DEFINE f == [i \in 1 .. n |-> s[i]]
<1>6. s = f /\ Len(s) = n
  BY <1>1, LengthsAre DEF IsOfLength
<1> DEFINE S == {s[i] : i \in 1 .. n} \cup {<<"version", k>>}
<1>3. (\A i \in 1 .. n : s[i] \in S) /\ <<"version", k>> \in S
  OBVIOUS
<1> HIDE DEF S
<1>4. s \in Seq(S)
  <2>1. f \in Seq(S)
    BY <1>2, <1>3, IsASeq
  <2> QED
    BY <1>6, <2>1
<1>5. /\ Len(Append(s, <<"version", k>>)) = Len(s) + 1
      /\ \A i \in 1 .. Len(s) : Append(s, <<"version", k>>)[i] = s[i]
      /\ Append(s, <<"version", k>>)[Len(s) + 1] = <<"version", k>>
  BY <1>3, <1>4, AppendProperties
<1> HIDE DEF f
<1> QED
  BY <1>1, <1>2, <1>5, <1>6 DEF Statements

Plain == {1, 2, 3, 5, 6}

\* All but 004 only add to the schema.
LEMMA PlainScripts ==
  ASSUME NEW k \in Plain, NEW i \in DOMAIN Migrations[k]
  PROVE  Len(Migrations[k][i]) = 2 /\ Migrations[k][i][1] \in {"ensure", "create"}
<1>1. CASE k = 1
  <2>1. i = 1 \/ i = 2
    BY <1>1, Script1Is
  <2> QED
    BY <1>1, <2>1, Script1Is DEF Says
<1>2. CASE k = 2
  <2>1. i = 1 \/ i = 2 \/ i = 3
    BY <1>2, Script2Is
  <2> QED
    BY <1>2, <2>1, Script2Is DEF Says
<1>3. CASE k = 3
  <2>1. i = 1 \/ i = 2 \/ i = 3 \/ i = 4
    BY <1>3, Script3Is
  <2> QED
    BY <1>3, <2>1, Script3Is DEF Says
<1>4. CASE k = 5
  <2>1. i = 1 \/ i = 2 \/ i = 3 \/ i = 4
    BY <1>4, Script5Is
  <2> QED
    BY <1>4, <2>1, Script5Is DEF Says
<1>5. CASE k = 6
  <2>1. i = 1 \/ i = 2
    BY <1>5, Script6Is
  <2> QED
    BY <1>5, <2>1, Script6Is DEF Says
<1> QED
  BY <1>1, <1>2, <1>3, <1>4, <1>5 DEF Plain

\* What the first i statements of such a script add.
Items(k, i) == {Migrations[k][j][2] : j \in 1 .. i}

LEMMA ItemsAre ==
  ASSUME NEW k \in Plain
  PROVE  Made(k) = Items(k, Len(Migrations[k]))
<1>1. k \in 1 .. 6
  BY DEF Plain
<1>2. {j \in DOMAIN Migrations[k] : Len(Migrations[k][j]) = 2} = 1 .. Len(Migrations[k])
  BY <1>1, PlainScripts, LengthsAre DEF IsOfLength
<1> QED
  BY <1>2 DEF Made, Items

LEMMA OnlyPairsOf4 ==
  {j \in DOMAIN Migrations[4] : Len(Migrations[4][j]) = 2} = {2, 5, 6, 7, 8}
<1>1. Len(<<"rename queue">>) = 1 /\ Len(<<"convert rows">>) = 1
      /\ Len(<<"drop old queue">>) = 1
  OBVIOUS
<1>2. \A j \in {2, 5, 6, 7, 8} : Len(Migrations[4][j]) = 2
  BY Script4Is DEF Says
<1>3. \A j \in {1, 3, 4} : Len(Migrations[4][j]) = 1
  BY <1>1, Script4Is
<1>4. DOMAIN Migrations[4] = {1, 3, 4} \cup {2, 5, 6, 7, 8}
  BY Script4Is
<1> QED
  BY <1>2, <1>3, <1>4

LEMMA MadeIs ==
  /\ Made(1) = {"index tables", "index indexes"}
  /\ Made(2) = {"content_id", "inline_flag", "attachment indexes"}
  /\ Made(3) = {"text_cache", "cache indexes", "promotion_queue", "queue indexes"}
  /\ Made(4) = {"promotion_queue", "queue indexes", "review_events", "export_outbox",
                "queue triggers"}
  /\ Made(5) = {"cache columns", "text_cache_events", "cache triggers",
                "llm_egress_events"}
  /\ Made(6) = {"ingest_decisions", "message_locator_history"}
<1>1. Made(1) = {"index tables", "index indexes"}
  <2>1. {j \in DOMAIN Migrations[1] : Len(Migrations[1][j]) = 2} = {1, 2}
    BY Script1Is DEF Says
  <2>2. {Migrations[1][j][2] : j \in {1, 2}} =
          {"index tables", "index indexes"}
    BY Script1Is DEF Says
  <2> QED
    BY <2>1, <2>2 DEF Made
<1>2. Made(2) = {"content_id", "inline_flag", "attachment indexes"}
  <2>1. {j \in DOMAIN Migrations[2] : Len(Migrations[2][j]) = 2} = {1, 2, 3}
    BY Script2Is DEF Says
  <2>2. {Migrations[2][j][2] : j \in {1, 2, 3}} =
          {"content_id", "inline_flag",
           "attachment indexes"}
    BY Script2Is DEF Says
  <2> QED
    BY <2>1, <2>2 DEF Made
<1>3. Made(3) = {"text_cache", "cache indexes", "promotion_queue", "queue indexes"}
  <2>1. {j \in DOMAIN Migrations[3] : Len(Migrations[3][j]) = 2} = {1, 2, 3, 4}
    BY Script3Is DEF Says
  <2>2. {Migrations[3][j][2] : j \in {1, 2, 3, 4}} =
          {"text_cache",
           "cache indexes",
           "promotion_queue",
           "queue indexes"}
    BY Script3Is DEF Says
  <2> QED
    BY <2>1, <2>2 DEF Made
<1>4. Made(4) = {"promotion_queue", "queue indexes", "review_events", "export_outbox",
                 "queue triggers"}
  <2>1. {j \in DOMAIN Migrations[4] : Len(Migrations[4][j]) = 2} = {2, 5, 6, 7, 8}
    BY OnlyPairsOf4
  <2>2. /\ Migrations[4][2][2] = "promotion_queue"
        /\ Migrations[4][5][2] = "queue indexes"
        /\ Migrations[4][6][2] = "review_events"
        /\ Migrations[4][7][2] = "export_outbox"
        /\ Migrations[4][8][2] = "queue triggers"
    BY Script4Is, Zenon DEF Says
  <2>3. {Migrations[4][j][2] : j \in {2, 5, 6, 7, 8}} =
          {"promotion_queue", "queue indexes", "review_events", "export_outbox",
           "queue triggers"}
    BY <2>2
  <2> QED
    BY <2>1, <2>3 DEF Made
<1>5. Made(5) = {"cache columns", "text_cache_events", "cache triggers",
                 "llm_egress_events"}
  <2>1. {j \in DOMAIN Migrations[5] : Len(Migrations[5][j]) = 2} = {1, 2, 3, 4}
    BY Script5Is DEF Says
  <2>2. /\ Migrations[5][1][2] = "cache columns"
        /\ Migrations[5][2][2] = "text_cache_events"
        /\ Migrations[5][3][2] = "cache triggers"
        /\ Migrations[5][4][2] = "llm_egress_events"
    BY Script5Is, Zenon DEF Says
  <2>3. {Migrations[5][j][2] : j \in {1, 2, 3, 4}} =
          {"cache columns", "text_cache_events", "cache triggers", "llm_egress_events"}
    BY <2>2
  <2> QED
    BY <2>1, <2>3 DEF Made
<1>6. Made(6) = {"ingest_decisions", "message_locator_history"}
  <2>1. {j \in DOMAIN Migrations[6] : Len(Migrations[6][j]) = 2} = {1, 2}
    BY Script6Is DEF Says
  <2>2. {Migrations[6][j][2] : j \in {1, 2}} =
          {"ingest_decisions",
           "message_locator_history"}
    BY Script6Is DEF Says
  <2> QED
    BY <2>1, <2>2 DEF Made
<1> QED
  BY <1>1, <1>2, <1>3, <1>4, <1>5, <1>6

LEMMA CreatedIs ==
  /\ Created(1) = {} /\ Created(3) = {}
  /\ Created(2) = {"content_id", "inline_flag"}
  /\ Created(4) = Made(4)
  /\ Created(5) = {"cache columns", "cache triggers"}
  /\ Created(6) = Made(6)
<1>1. Created(1) = {}
  <2>1. {j \in DOMAIN Migrations[1] : Migrations[1][j][1] = "create"} = {}
    BY Script1Is DEF Says
  <2> QED
    BY <2>1 DEF Created
<1>2. Created(2) = {"content_id", "inline_flag"}
  <2>1. {j \in DOMAIN Migrations[2] : Migrations[2][j][1] = "create"} = {1, 2}
    BY Script2Is DEF Says
  <2>2. /\ Migrations[2][1][2] = "content_id"
        /\ Migrations[2][2][2] = "inline_flag"
    BY Script2Is, Zenon DEF Says
  <2>3. {Migrations[2][j][2] : j \in {1, 2}} = {"content_id", "inline_flag"}
    BY <2>2
  <2> QED
    BY <2>1, <2>3 DEF Created
<1>3. Created(3) = {}
  <2>1. {j \in DOMAIN Migrations[3] : Migrations[3][j][1] = "create"} = {}
    BY Script3Is DEF Says
  <2> QED
    BY <2>1 DEF Created
<1>4. Created(4) = Made(4)
  <2>0. <<"rename queue">>[1] # "create" /\ <<"convert rows">>[1] # "create"
        /\ <<"drop old queue">>[1] # "create"
    OBVIOUS
  <2>1. {j \in DOMAIN Migrations[4] : Migrations[4][j][1] = "create"} = {2, 5, 6, 7, 8}
    BY <2>0, Script4Is DEF Says
  <2>2. {j \in DOMAIN Migrations[4] : Len(Migrations[4][j]) = 2} = {2, 5, 6, 7, 8}
    BY OnlyPairsOf4
  <2> QED
    BY <2>1, <2>2 DEF Created, Made
<1>5. Created(5) = {"cache columns", "cache triggers"}
  <2>1. {j \in DOMAIN Migrations[5] : Migrations[5][j][1] = "create"} = {1, 3}
    BY Script5Is DEF Says
  <2>2. /\ Migrations[5][1][2] = "cache columns"
        /\ Migrations[5][3][2] = "cache triggers"
    BY Script5Is, Zenon DEF Says
  <2>3. {Migrations[5][j][2] : j \in {1, 3}} = {"cache columns", "cache triggers"}
    BY <2>2
  <2> QED
    BY <2>1, <2>3 DEF Created
<1>6. Created(6) = Made(6)
  <2>1. {j \in DOMAIN Migrations[6] : Migrations[6][j][1] = "create"} = {1, 2}
    BY Script6Is DEF Says
  <2>2. /\ Migrations[6][1][2] = "ingest_decisions"
        /\ Migrations[6][2][2] = "message_locator_history"
    BY Script6Is, Zenon DEF Says
  <2>3. {Migrations[6][j][2] : j \in {1, 2}} =
          {"ingest_decisions", "message_locator_history"}
    BY <2>2
  <2>4. Made(6) = {"ingest_decisions", "message_locator_history"}
    BY MadeIs
  <2> QED
    BY <2>1, <2>3, <2>4 DEF Created
<1> QED
  BY <1>1, <1>2, <1>3, <1>4, <1>5, <1>6

\* What is there before a script, by those before it.
LEMMA MadeBeforeIs ==
  /\ MadeBefore(1) = {}
  /\ \A k \in 1 .. 6 : MadeBefore(k + 1) = MadeBefore(k) \cup Made(k)
  /\ \A j, k \in 1 .. 7 : j <= k => MadeBefore(j) \subseteq MadeBefore(k)
  /\ \A k \in 1 .. 6 : Made(k) \subseteq MadeBefore(7)
  BY DEF MadeBefore

\* What a script is the first to create.
New(k) == Created(k) \ MadeBefore(k)

LEMMA NewIs ==
  /\ New(1) = {} /\ New(3) = {}
  /\ New(2) = {"content_id", "inline_flag"}
  /\ New(4) = {"review_events", "export_outbox", "queue triggers"}
  /\ New(5) = {"cache columns", "cache triggers"}
  /\ New(6) = {"ingest_decisions", "message_locator_history"}
<1>1. MadeBefore(1) = {} /\ MadeBefore(2) = Made(1)
  BY MadeBeforeIs
<1>2. MadeBefore(3) = Made(1) \cup Made(2)
  <2>1. MadeBefore(3) = MadeBefore(2) \cup Made(2)
    <3>1. MadeBefore(2 + 1) = MadeBefore(2) \cup Made(2)
      BY MadeBeforeIs
    <3> QED
      BY <3>1
  <2> QED
    BY <1>1, <2>1
<1>3. MadeBefore(4) = Made(1) \cup Made(2) \cup Made(3)
  <2>1. MadeBefore(3 + 1) = MadeBefore(3) \cup Made(3)
    BY MadeBeforeIs
  <2> QED
    BY <1>2, <2>1
<1>4. MadeBefore(5) = Made(1) \cup Made(2) \cup Made(3) \cup Made(4)
  <2>1. MadeBefore(4 + 1) = MadeBefore(4) \cup Made(4)
    BY MadeBeforeIs
  <2> QED
    BY <1>3, <2>1
<1>5. MadeBefore(6) = Made(1) \cup Made(2) \cup Made(3) \cup Made(4) \cup Made(5)
  <2>1. MadeBefore(5 + 1) = MadeBefore(5) \cup Made(5)
    BY MadeBeforeIs
  <2> QED
    BY <1>4, <2>1
<1>6. New(1) = {} /\ New(3) = {}
  BY CreatedIs DEF New
<1>7. New(2) = {"content_id", "inline_flag"}
  <2>1. Created(2) = {"content_id", "inline_flag"}
    BY CreatedIs
  <2>2. MadeBefore(2) = {"index tables", "index indexes"}
    BY <1>1, MadeIs
  <2> QED
    BY <2>1, <2>2 DEF New
<1>8. New(4) = {"review_events", "export_outbox", "queue triggers"}
  <2>1. Created(4) = {"promotion_queue", "queue indexes", "review_events", "export_outbox",
                      "queue triggers"}
    BY CreatedIs, MadeIs
  <2>2. MadeBefore(4) =
          {"index tables", "index indexes", "content_id", "inline_flag",
           "attachment indexes", "text_cache", "cache indexes", "promotion_queue",
           "queue indexes"}
    BY <1>3, MadeIs
  <2> QED
    BY <2>1, <2>2 DEF New
<1>9. New(5) = {"cache columns", "cache triggers"}
  BY <1>4, CreatedIs, MadeIs DEF New
<1>10. New(6) = {"ingest_decisions", "message_locator_history"}
  <2>1. Created(6) = {"ingest_decisions", "message_locator_history"}
    BY CreatedIs, MadeIs
  <2>2. \A k \in 1 .. 5 : "ingest_decisions" \notin Made(k)
                        /\ "message_locator_history" \notin Made(k)
    <3> TAKE k \in 1 .. 5
    <3>1. k = 1 \/ k = 2 \/ k = 3 \/ k = 4 \/ k = 5
      OBVIOUS
    <3>2. CASE k = 1
      BY <3>2, MadeIs
    <3>3. CASE k = 2
      BY <3>3, MadeIs
    <3>4. CASE k = 3
      BY <3>4, MadeIs
    <3>5. CASE k = 4
      BY <3>5, MadeIs
    <3>6. CASE k = 5
      BY <3>6, MadeIs
    <3> QED
      BY <3>1, <3>2, <3>3, <3>4, <3>5, <3>6
  <2>3. Created(6) \cap MadeBefore(6) = {}
    BY <1>5, <2>1, <2>2
  <2> QED
    BY <2>1, <2>3 DEF New
<1> QED
  BY <1>6, <1>7, <1>8, <1>9, <1>10

LEMMA NewAreOwn ==
  ASSUME NEW j \in 1 .. 6, NEW k \in 1 .. 6, NEW x \in Made(k), x \in New(j)
  PROVE  j = k /\ k \in {2, 4, 5, 6}
<1>1. k = 1 \/ k = 2 \/ k = 3 \/ k = 4 \/ k = 5 \/ k = 6
  OBVIOUS
<1>2. j = 1 \/ j = 2 \/ j = 3 \/ j = 4 \/ j = 5 \/ j = 6
  OBVIOUS
<1>3. CASE j = 2
  BY <1>1, <1>3, NewIs, MadeIs
<1>4. CASE j = 4
  BY <1>1, <1>4, NewIs, MadeIs
<1>5. CASE j = 5
  BY <1>1, <1>5, NewIs, MadeIs
<1>6. CASE j = 6
  BY <1>1, <1>6, NewIs, MadeIs
<1> QED
  BY <1>2, <1>3, <1>4, <1>5, <1>6, NewIs

LEMMA NeverMade ==
  /\ "promotion_queue_v3" \notin MadeBefore(7)
  /\ Object = MadeBefore(7) \cup {"promotion_queue_v3"}
<1>1. ASSUME NEW k \in 1 .. 6 PROVE "promotion_queue_v3" \notin Made(k)
  <2>1. k = 1 \/ k = 2 \/ k = 3 \/ k = 4 \/ k = 5 \/ k = 6
    OBVIOUS
  <2>2. CASE k = 1
    BY <2>2, MadeIs
  <2>3. CASE k = 2
    BY <2>3, MadeIs
  <2>4. CASE k = 3
    BY <2>4, MadeIs
  <2>5. CASE k = 4
    BY <2>5, MadeIs
  <2>6. CASE k = 5
    BY <2>6, MadeIs
  <2>7. CASE k = 6
    BY <2>7, MadeIs
  <2> QED
    BY <2>1, <2>2, <2>3, <2>4, <2>5, <2>6, <2>7
<1>2. "promotion_queue_v3" \notin MadeBefore(7)
  BY <1>1 DEF MadeBefore
<1>3. Latest + 1 = 7
  BY MigrationsAre
<1> QED
  BY <1>2, <1>3 DEF Object

----------------------------------------------------------------------------
(* What the statements do.                                                 *)

LEMMA VersionEffect ==
  ASSUME NEW k \in 1 .. 6, NEW v
  PROVE  /\ Accepted(<<"version", k>>, v)
         /\ Effect(<<"version", k>>, v) = [v EXCEPT !.version = k]
<1>1. <<"version", k>>[1] = "version" /\ <<"version", k>>[2] = k
  OBVIOUS
<1> QED
  BY <1>1 DEF Accepted, Effect

LEMMA AddingEffect ==
  ASSUME NEW s, NEW v, s[1] \in {"ensure", "create"}
  PROVE  /\ Effect(s, v) = [v EXCEPT !.objects = @ \cup {s[2]}]
         /\ s[1] = "create" /\ Accepted(s, v) => s[2] \notin v.objects
  BY DEF Accepted, Effect

LEMMA PlainEffect ==
  ASSUME NEW k \in Plain, NEW i \in 1 .. Len(Migrations[k]), NEW v
  PROVE  /\ Migrations[k][i][2] \in Made(k)
         /\ Effect(Statements(k)[i], v) = [v EXCEPT !.objects = @ \cup {Migrations[k][i][2]}]
<1>1. k \in 1 .. 6
  BY DEF Plain
<1>2. Statements(k)[i] = Migrations[k][i] /\ i \in DOMAIN Migrations[k]
  BY <1>1, StatementsAre, LengthsAre DEF IsOfLength
<1>3. PICK s : s = Migrations[k][i]
  OBVIOUS
<1>4. s[1] \in {"ensure", "create"}
  BY <1>2, <1>3, PlainScripts
<1>5. Migrations[k][i][2] \in Made(k)
  BY ItemsAre DEF Items
<1>6. Effect(s, v) = [v EXCEPT !.objects = @ \cup {s[2]}]
  BY <1>4, AddingEffect
<1>7. Effect(Statements(k)[i], v) = Effect(s, v)
  BY <1>2, <1>3
<1> QED
  BY <1>3, <1>5, <1>6, <1>7

\* 004 renames the queue, copies its rows and drops it.
LEMMA QueueEffect ==
  ASSUME NEW v
  PROVE  /\ Effect(Statements(4)[1], v) =
              [v EXCEPT !.objects = (@ \ {"promotion_queue"}) \cup {"promotion_queue_v3"}]
         /\ Effect(Statements(4)[2], v) = [v EXCEPT !.objects = @ \cup {"promotion_queue"}]
         /\ Effect(Statements(4)[3], v) =
              [v EXCEPT !.converted = IF @ < 2 THEN @ + 1 ELSE @]
         /\ Effect(Statements(4)[4], v) =
              [v EXCEPT !.objects =
                 @ \ {"promotion_queue_v3", "queue indexes", "queue triggers"}]
         /\ Effect(Statements(4)[5], v) = [v EXCEPT !.objects = @ \cup {"queue indexes"}]
         /\ Effect(Statements(4)[6], v) = [v EXCEPT !.objects = @ \cup {"review_events"}]
         /\ Accepted(Statements(4)[6], v) => "review_events" \notin v.objects
         /\ Effect(Statements(4)[7], v) = [v EXCEPT !.objects = @ \cup {"export_outbox"}]
         /\ Effect(Statements(4)[8], v) = [v EXCEPT !.objects = @ \cup {"queue triggers"}]
<1>1. \A i \in 1 .. 8 : Statements(4)[i] = Migrations[4][i]
  <2>1. PICK n : n = Len(Migrations[4])
    OBVIOUS
  <2>2. n = 8
    BY <2>1, Script4Is DEF IsOfLength
  <2>3. 4 \in 1 .. 6
    OBVIOUS
  <2>4. \A i \in 1 .. n : Statements(4)[i] = Migrations[4][i]
    BY <2>1, <2>3, StatementsAre, Zenon
  <2> QED
    BY <2>2, <2>4
<1>2. Effect(Statements(4)[1], v) =
        [v EXCEPT !.objects = (@ \ {"promotion_queue"}) \cup {"promotion_queue_v3"}]
  <2>1. Statements(4)[1] = <<"rename queue">>
    <3>1. Statements(4)[1] = Migrations[4][1]
      BY <1>1
    <3>2. Migrations[4][1] = <<"rename queue">>
      BY Script4Is, Zenon
    <3> QED
      BY <3>1, <3>2, Zenon
  <2>2. <<"rename queue">>[1] = "rename queue"
    OBVIOUS
  <2> QED
    BY <2>1, <2>2 DEF Effect
<1>3. Effect(Statements(4)[3], v) = [v EXCEPT !.converted = IF @ < 2 THEN @ + 1 ELSE @]
  <2>1. Statements(4)[3] = <<"convert rows">>
    <3>1. Statements(4)[3] = Migrations[4][3]
      BY <1>1
    <3>2. Migrations[4][3] = <<"convert rows">>
      BY Script4Is, Zenon
    <3> QED
      BY <3>1, <3>2, Zenon
  <2>2. <<"convert rows">>[1] = "convert rows"
    OBVIOUS
  <2> QED
    BY <2>1, <2>2 DEF Effect
<1>4. Effect(Statements(4)[4], v) =
        [v EXCEPT !.objects = @ \ {"promotion_queue_v3", "queue indexes", "queue triggers"}]
  <2>1. Statements(4)[4] = <<"drop old queue">>
    <3>1. Statements(4)[4] = Migrations[4][4]
      BY <1>1
    <3>2. Migrations[4][4] = <<"drop old queue">>
      BY Script4Is, Zenon
    <3> QED
      BY <3>1, <3>2, Zenon
  <2>2. <<"drop old queue">>[1] = "drop old queue"
    OBVIOUS
  <2> QED
    BY <2>1, <2>2 DEF Effect
<1>5. ASSUME NEW i \in 1 .. 8, NEW x, Says(Migrations[4][i], "create", x)
      PROVE  /\ Effect(Statements(4)[i], v) = [v EXCEPT !.objects = @ \cup {x}]
             /\ Accepted(Statements(4)[i], v) => x \notin v.objects
  <2>1. PICK s : s = Migrations[4][i]
    OBVIOUS
  <2>2. s = Statements(4)[i] /\ s[1] = "create" /\ s[2] = x
    BY <1>1, <1>5, <2>1 DEF Says
  <2>3. s[1] \in {"ensure", "create"}
    BY <2>2
  <2>4. /\ Effect(s, v) = [v EXCEPT !.objects = @ \cup {s[2]}]
        /\ Accepted(s, v) => s[2] \notin v.objects
    BY <2>2, <2>3, AddingEffect
  <2> QED
    BY <2>2, <2>4
<1>6. Effect(Statements(4)[2], v) = [v EXCEPT !.objects = @ \cup {"promotion_queue"}]
  <2>1. Says(Migrations[4][2], "create", "promotion_queue")
    BY Script4Is, Zenon
  <2>2. 2 \in 1 .. 8
    OBVIOUS
  <2> QED
    BY <1>5, <2>1, <2>2
<1>7. Effect(Statements(4)[5], v) = [v EXCEPT !.objects = @ \cup {"queue indexes"}]
  <2>1. Says(Migrations[4][5], "create", "queue indexes")
    BY Script4Is, Zenon
  <2>2. 5 \in 1 .. 8
    OBVIOUS
  <2> QED
    BY <1>5, <2>1, <2>2
<1>8. /\ Effect(Statements(4)[6], v) = [v EXCEPT !.objects = @ \cup {"review_events"}]
      /\ Accepted(Statements(4)[6], v) => "review_events" \notin v.objects
  <2>1. Says(Migrations[4][6], "create", "review_events")
    BY Script4Is, Zenon
  <2>2. 6 \in 1 .. 8
    OBVIOUS
  <2> QED
    BY <1>5, <2>1, <2>2
<1>9. Effect(Statements(4)[7], v) = [v EXCEPT !.objects = @ \cup {"export_outbox"}]
  <2>1. Says(Migrations[4][7], "create", "export_outbox")
    BY Script4Is, Zenon
  <2>2. 7 \in 1 .. 8
    OBVIOUS
  <2> QED
    BY <1>5, <2>1, <2>2
<1>10. Effect(Statements(4)[8], v) = [v EXCEPT !.objects = @ \cup {"queue triggers"}]
  <2>1. Says(Migrations[4][8], "create", "queue triggers")
    BY Script4Is, Zenon
  <2>2. 8 \in 1 .. 8
    OBVIOUS
  <2> QED
    BY <1>5, <2>1, <2>2
<1> QED
  BY <1>2, <1>3, <1>4, <1>6, <1>7, <1>8, <1>9, <1>10

----------------------------------------------------------------------------
(* A transaction half way through its script, on a database d.             *)

\* 004 takes the objects of the queue away and puts them back.
Gone(i) ==
  CASE i \in {0, 2, 3, 8} -> {}
    [] i = 1             -> {"promotion_queue"}
    [] i = 4             -> {"queue indexes", "queue triggers"}
    [] i \in {5, 6, 7}   -> {"queue triggers"}

Added(i) ==
  CASE i \in {0, 4, 5} -> {}
    [] i \in {1, 2, 3} -> {"promotion_queue_v3"}
    [] i = 6           -> {"review_events"}
    [] i = 7           -> {"review_events", "export_outbox"}
    [] i = 8           -> {"review_events", "export_outbox", "queue triggers"}

LEMMA GoneAndAdded ==
  /\ Gone(0) = {} /\ Gone(1) = {"promotion_queue"} /\ Gone(2) = {} /\ Gone(3) = {}
  /\ Gone(4) = {"queue indexes", "queue triggers"} /\ Gone(5) = {"queue triggers"}
  /\ Gone(6) = {"queue triggers"} /\ Gone(7) = {"queue triggers"} /\ Gone(8) = {}
  /\ Added(0) = {} /\ Added(1) = {"promotion_queue_v3"} /\ Added(2) = {"promotion_queue_v3"}
  /\ Added(3) = {"promotion_queue_v3"} /\ Added(4) = {} /\ Added(5) = {}
  /\ Added(6) = {"review_events"} /\ Added(7) = {"review_events", "export_outbox"}
  /\ Added(8) = {"review_events", "export_outbox", "queue triggers"}
<1>1. /\ Gone(0) = {} /\ Gone(1) = {"promotion_queue"} /\ Gone(2) = {} /\ Gone(3) = {}
      /\ Gone(4) = {"queue indexes", "queue triggers"} /\ Gone(5) = {"queue triggers"}
      /\ Gone(6) = {"queue triggers"} /\ Gone(7) = {"queue triggers"} /\ Gone(8) = {}
  BY DEF Gone
<1>2. /\ Added(0) = {} /\ Added(1) = {"promotion_queue_v3"}
      /\ Added(2) = {"promotion_queue_v3"} /\ Added(3) = {"promotion_queue_v3"}
      /\ Added(4) = {} /\ Added(5) = {} /\ Added(6) = {"review_events"}
      /\ Added(7) = {"review_events", "export_outbox"}
      /\ Added(8) = {"review_events", "export_outbox", "queue triggers"}
  BY DEF Added
<1> QED
  BY <1>1, <1>2

InQueueScript(d, i, t) ==
  /\ t = [version |-> d.version, objects |-> (d.objects \ Gone(i)) \cup Added(i),
          converted |-> IF i < 3 THEN d.converted ELSE d.converted + 1]
  /\ i >= 6 => "review_events" \notin d.objects

Halfway(d, k, i, t) ==
  IF k = 4 THEN InQueueScript(d, i, t) ELSE t = [d EXCEPT !.objects = @ \cup Items(k, i)]

Ended(d, k) ==
  [version |-> k, objects |-> d.objects \cup Made(k),
   converted |-> IF k = 4 THEN 1 ELSE d.converted]

\* A database that 004 may find.
Sound(d) ==
  /\ d \in State
  /\ d.objects \subseteq MadeBefore(7)
  /\ d.converted = IF "review_events" \in d.objects THEN 1 ELSE 0

LEMMA HalfwayStart ==
  ASSUME NEW d \in State, NEW k \in {4, 5, 6}
  PROVE  Halfway(d, k, 0, d)
<1>1. Items(k, 0) = {}
  BY DEF Items
<1>2. Gone(0) = {} /\ Added(0) = {}
  BY DEF Gone, Added
<1>3. d = [version |-> d.version, objects |-> d.objects, converted |-> d.converted]
  BY DEF State
<1> QED
  BY <1>1, <1>2, <1>3 DEF Halfway, InQueueScript, State

LEMMA ItemsNext ==
  ASSUME NEW k, NEW i \in Nat
  PROVE  Items(k, i + 1) = Items(k, i) \cup {Migrations[k][i + 1][2]}
<1>1. 1 .. i + 1 = (1 .. i) \cup {i + 1}
  OBVIOUS
<1> QED
  BY <1>1 DEF Items

LEMMA PlainHalfwayNext ==
  ASSUME NEW d \in State, NEW k \in {5, 6}, NEW i \in Nat, i < Len(Migrations[k]),
         NEW t, Halfway(d, k, i, t)
  PROVE  Halfway(d, k, i + 1, Effect(Statements(k)[i + 1], t))
<1>1. k \in Plain /\ k \in 1 .. 6 /\ k # 4
  BY DEF Plain
<1>2. PICK n \in Nat : n = Len(Migrations[k])
  BY <1>1, LengthsAre
<1>3. i + 1 \in 1 .. n
  BY <1>2
<1>4. Effect(Statements(k)[i + 1], t) = [t EXCEPT !.objects = @ \cup {Migrations[k][i + 1][2]}]
  BY <1>1, <1>2, <1>3, PlainEffect
<1>5. t = [d EXCEPT !.objects = @ \cup Items(k, i)]
  BY <1>1 DEF Halfway
<1>6. PICK x : x = Migrations[k][i + 1][2]
  OBVIOUS
<1>7. Items(k, i + 1) = Items(k, i) \cup {x}
  BY <1>6, ItemsNext
<1>8. Effect(Statements(k)[i + 1], t) = [t EXCEPT !.objects = @ \cup {x}]
  BY <1>4, <1>6
<1>9. [t EXCEPT !.objects = @ \cup {x}] = [d EXCEPT !.objects = @ \cup Items(k, i + 1)]
  BY <1>5, <1>7 DEF State
<1> QED
  BY <1>1, <1>8, <1>9 DEF Halfway

LEMMA QueueHalfwayNext ==
  ASSUME NEW d, Sound(d), MadeBefore(4) \subseteq d.objects,
         NEW i \in 0 .. 7, NEW t, InQueueScript(d, i, t), Accepted(Statements(4)[i + 1], t)
  PROVE  InQueueScript(d, i + 1, Effect(Statements(4)[i + 1], t))
<1>1. /\ d \in State
      /\ "promotion_queue_v3" \notin d.objects
      /\ "promotion_queue" \in d.objects /\ "queue indexes" \in d.objects
  <2>1. Made(3) \subseteq MadeBefore(4)
    BY DEF MadeBefore
  <2> QED
    BY <2>1, NeverMade, MadeIs DEF Sound
<1>2. d.converted \in {0, 1}
  BY DEF Sound
<1> DEFINE o == d.objects
           T(j) == (o \ Gone(j)) \cup Added(j)
<1>3. t = [version |-> d.version, objects |-> T(i),
           converted |-> IF i < 3 THEN d.converted ELSE d.converted + 1]
  BY DEF InQueueScript
<1> DEFINE S == Statements(4)[i + 1]
<1>4. ASSUME Effect(S, t) = [t EXCEPT !.objects = T(i + 1)], i # 2,
             i >= 5 => "review_events" \notin d.objects
      PROVE  InQueueScript(d, i + 1, Effect(S, t))
  BY <1>3, <1>4 DEF InQueueScript
<1>5. i >= 6 => "review_events" \notin d.objects
  BY DEF InQueueScript
<1> HIDE DEF S, T
<1>6. CASE i = 0
  <2>1. S = Statements(4)[1]
    BY <1>6 DEF S
  <2>2. T(1) = (T(0) \ {"promotion_queue"}) \cup {"promotion_queue_v3"}
    BY <1>1, GoneAndAdded DEF T
  <2>3. Effect(S, t) =
          [t EXCEPT !.objects = (@ \ {"promotion_queue"}) \cup {"promotion_queue_v3"}]
    BY <2>1, QueueEffect
  <2>4. t.objects = T(0)
    BY <1>3, <1>6
  <2>5. Effect(S, t) = [t EXCEPT !.objects = T(i + 1)]
    BY <1>6, <2>2, <2>3, <2>4
  <2> QED
    BY <1>4, <1>5, <1>6, <2>5 DEF S
<1>7. CASE i = 1
  <2>1. S = Statements(4)[2]
    BY <1>7 DEF S
  <2>2. T(2) = T(1) \cup {"promotion_queue"}
    BY <1>1, GoneAndAdded DEF T
  <2>3. Effect(S, t) = [t EXCEPT !.objects = @ \cup {"promotion_queue"}]
    BY <2>1, QueueEffect
  <2>4. t.objects = T(1)
    BY <1>3, <1>7
  <2>5. Effect(S, t) = [t EXCEPT !.objects = T(i + 1)]
    BY <1>7, <2>2, <2>3, <2>4
  <2> QED
    BY <1>4, <1>5, <1>7, <2>5 DEF S
<1>8. CASE i = 2
  <2>1. S = Statements(4)[3]
    BY <1>8 DEF S
  <2>2. T(3) = T(2)
    BY GoneAndAdded DEF T
  <2>3. Effect(S, t) = [t EXCEPT !.converted = IF @ < 2 THEN @ + 1 ELSE @]
    BY <2>1, QueueEffect
  <2>4. d.converted < 2 /\ t.converted = d.converted /\ t.objects = T(2)
    BY <1>2, <1>3, <1>8
  <2>5. Effect(S, t) = [version |-> d.version, objects |-> T(3),
                        converted |-> d.converted + 1]
    BY <1>3, <1>8, <2>2, <2>3, <2>4
  <2>6. InQueueScript(d, 3, Effect(S, t))
    BY <2>5 DEF InQueueScript, T
  <2> QED
    BY <1>8, <2>6 DEF S
<1>9. CASE i = 3
  <2>1. S = Statements(4)[4]
    BY <1>9 DEF S
  <2>2. T(4) = T(3) \ {"promotion_queue_v3", "queue indexes", "queue triggers"}
    BY <1>1, GoneAndAdded DEF T
  <2>3. Effect(S, t) =
          [t EXCEPT !.objects =
             @ \ {"promotion_queue_v3", "queue indexes", "queue triggers"}]
    BY <2>1, QueueEffect
  <2>4. t.objects = T(3)
    BY <1>3, <1>9
  <2>5. Effect(S, t) = [t EXCEPT !.objects = T(i + 1)]
    <3>1. T(i + 1) = T(4)
      BY <1>9
    <3>2. T(i + 1) = t.objects \ {"promotion_queue_v3", "queue indexes", "queue triggers"}
      BY <2>2, <2>4, <3>1
    <3> QED
      BY <2>3, <3>2, Zenon
  <2> QED
    BY <1>4, <1>5, <1>9, <2>5 DEF S
<1>10. CASE i = 4
  <2>1. S = Statements(4)[5]
    BY <1>10 DEF S
  <2>2. T(5) = T(4) \cup {"queue indexes"}
    BY <1>1, GoneAndAdded DEF T
  <2>3. Effect(S, t) = [t EXCEPT !.objects = @ \cup {"queue indexes"}]
    BY <2>1, QueueEffect
  <2>4. t.objects = T(4)
    BY <1>3, <1>10
  <2>5. Effect(S, t) = [t EXCEPT !.objects = T(i + 1)]
    <3>1. T(i + 1) = T(5)
      BY <1>10
    <3>2. T(i + 1) = t.objects \cup {"queue indexes"}
      BY <2>2, <2>4, <3>1
    <3> QED
      BY <2>3, <3>2, Zenon
  <2> QED
    BY <1>4, <1>5, <1>10, <2>5 DEF S
<1>11. CASE i = 5
  <2>1. S = Statements(4)[6]
    BY <1>11 DEF S
  <2>2. T(6) = T(5) \cup {"review_events"}
    BY <1>1, GoneAndAdded DEF T
  <2>3. Effect(S, t) = [t EXCEPT !.objects = @ \cup {"review_events"}]
    BY <2>1, QueueEffect
  <2>4. t.objects = T(5)
    BY <1>3, <1>11
  <2>5. Effect(S, t) = [t EXCEPT !.objects = T(i + 1)]
    BY <1>11, <2>2, <2>3, <2>4
  <2>6. "review_events" \notin d.objects
    <3>1. "review_events" \notin t.objects
      BY <1>11, <2>1, QueueEffect DEF S
    <3>2. "review_events" \notin Gone(5)
      BY GoneAndAdded
    <3> QED
      BY <2>4, <3>1, <3>2 DEF T
  <2> QED
    BY <1>4, <1>11, <2>5, <2>6 DEF S
<1>12. CASE i = 6
  <2>1. S = Statements(4)[7]
    BY <1>12 DEF S
  <2>2. T(7) = T(6) \cup {"export_outbox"}
    BY <1>1, GoneAndAdded DEF T
  <2>3. Effect(S, t) = [t EXCEPT !.objects = @ \cup {"export_outbox"}]
    BY <2>1, QueueEffect
  <2>4. t.objects = T(6)
    BY <1>3, <1>12
  <2>5. Effect(S, t) = [t EXCEPT !.objects = T(i + 1)]
    BY <1>12, <2>2, <2>3, <2>4
  <2> QED
    BY <1>4, <1>5, <1>12, <2>5 DEF S
<1>13. CASE i = 7
  <2>1. S = Statements(4)[8]
    BY <1>13 DEF S
  <2>2. T(8) = T(7) \cup {"queue triggers"}
    BY <1>1, GoneAndAdded DEF T
  <2>3. Effect(S, t) = [t EXCEPT !.objects = @ \cup {"queue triggers"}]
    BY <2>1, QueueEffect
  <2>4. t.objects = T(7)
    BY <1>3, <1>13
  <2>5. Effect(S, t) = [t EXCEPT !.objects = T(i + 1)]
    <3>1. T(i + 1) = T(8)
      BY <1>13
    <3>2. T(i + 1) = t.objects \cup {"queue triggers"}
      BY <2>2, <2>4, <3>1
    <3> QED
      BY <2>3, <3>2, Zenon
  <2> QED
    BY <1>4, <1>5, <1>13, <2>5 DEF S
<1> QED
  BY <1>6, <1>7, <1>8, <1>9, <1>10, <1>11, <1>12, <1>13 DEF S

LEMMA HalfwayNext ==
  ASSUME NEW d, Sound(d), NEW k \in {4, 5, 6}, MadeBefore(k) \subseteq d.objects,
         NEW i \in Nat, i < Len(Migrations[k]), NEW t, Halfway(d, k, i, t),
         Accepted(Statements(k)[i + 1], t)
  PROVE  Halfway(d, k, i + 1, Effect(Statements(k)[i + 1], t))
<1>1. CASE k \in {5, 6}
  BY <1>1, PlainHalfwayNext DEF Sound
<1>2. CASE k = 4
  <2>1. i \in 0 .. 7
    <3>1. Len(Migrations[4]) = 8
      BY Script4Is DEF IsOfLength
    <3> QED
      BY <1>2, <3>1
  <2> QED
    BY <1>2, <2>1, QueueHalfwayNext DEF Halfway
<1> QED
  BY <1>1, <1>2

LEMMA HalfwayEnd ==
  ASSUME NEW d, Sound(d), NEW k \in {4, 5, 6}, MadeBefore(k) \subseteq d.objects,
         NEW n, n = Len(Migrations[k]), NEW t, Halfway(d, k, n, t)
  PROVE  Effect(Statements(k)[n + 1], t) = Ended(d, k) /\ t.version = d.version
<1>1. k \in 1 .. 6
  OBVIOUS
<1>2. Effect(Statements(k)[n + 1], t) = [t EXCEPT !.version = k]
  <2>1. Statements(k)[n + 1] = <<"version", k>>
    BY <1>1, StatementsAre
  <2> QED
    BY <2>1, <1>1, VersionEffect
<1>3. d \in State
  BY DEF Sound
<1>4. CASE k \in {5, 6}
  <2>1. t = [d EXCEPT !.objects = @ \cup Made(k)]
    BY <1>4, ItemsAre DEF Halfway, Plain
  <2> QED
    <3>1. PICK o : o = d.objects \cup Made(k)
      OBVIOUS
    <3>2. d = [version |-> d.version, objects |-> d.objects, converted |-> d.converted]
      BY <1>3 DEF State
    <3>3. t = [version |-> d.version, objects |-> o, converted |-> d.converted]
      BY <2>1, <3>1, <3>2
    <3>4. [t EXCEPT !.version = k] = [version |-> k, objects |-> o, converted |-> d.converted]
      BY <3>3
    <3>5. k # 4 /\ t.version = d.version
      BY <1>4, <3>3
    <3> QED
      BY <1>2, <3>1, <3>4, <3>5 DEF Ended
<1>5. CASE k = 4
  <2>1. n = 8
    BY <1>5, Script4Is DEF IsOfLength
  <2>2. /\ t = [version |-> d.version, objects |-> (d.objects \ Gone(8)) \cup Added(8),
                converted |-> d.converted + 1]
        /\ "review_events" \notin d.objects
    <3>1. InQueueScript(d, 8, t)
      BY <1>5, <2>1 DEF Halfway
    <3> QED
      BY <3>1 DEF InQueueScript
  <2>3. d.converted = 0
    BY <2>2 DEF Sound
  <2>4. (d.objects \ Gone(8)) \cup Added(8) = d.objects \cup Made(4)
    <3>1. Made(3) \subseteq MadeBefore(4)
      BY DEF MadeBefore
    <3>2. "promotion_queue" \in d.objects /\ "queue indexes" \in d.objects
      BY <1>5, <3>1, MadeIs
    <3>3. Gone(8) = {} /\ Added(8) = {"review_events", "export_outbox", "queue triggers"}
      BY DEF Gone, Added
    <3> QED
      BY <3>2, <3>3, MadeIs
  <2> QED
    <3>1. PICK o : o = d.objects \cup Made(4)
      OBVIOUS
    <3>2. t = [version |-> d.version, objects |-> o, converted |-> 1]
      <4>1. d.converted + 1 = 1
        BY <2>3
      <4>2. (d.objects \ Gone(8)) \cup Added(8) = o
        BY <2>4, <3>1
      <4> QED
        BY <2>2, <4>1, <4>2, Zenon
    <3>3. [t EXCEPT !.version = k] = [version |-> k, objects |-> o, converted |-> 1]
      BY <3>2
    <3>4. t.version = d.version
      BY <3>2
    <3> QED
      BY <1>2, <1>5, <3>1, <3>3, <3>4 DEF Ended
<1> QED
  BY <1>4, <1>5

LEMMA HalfwayVersion ==
  ASSUME NEW d \in State, NEW k \in {4, 5, 6}, NEW i, NEW t, Halfway(d, k, i, t)
  PROVE  t.version = d.version
  BY DEF Halfway, InQueueScript, State

\* A transaction sees a database of the same kind.
LEMMA HalfwayInState ==
  ASSUME NEW d, Sound(d), NEW k \in {4, 5, 6}, NEW i \in Nat, i <= Len(Migrations[k]),
         NEW t, Halfway(d, k, i, t)
  PROVE  t \in State
<1>1. /\ d \in State /\ d.converted \in {0, 1}
      /\ d.objects \subseteq Object
  BY NeverMade DEF Sound
<1>2. PICK n \in Nat : n = Len(Migrations[k])
  BY LengthsAre
<1>3. CASE k \in {5, 6}
  <2>1. Items(k, i) \subseteq Items(k, n)
    BY <1>2 DEF Items
  <2>2. Items(k, n) = Made(k)
    BY <1>2, <1>3, ItemsAre DEF Plain
  <2>3. Made(k) \subseteq MadeBefore(7)
    BY MadeBeforeIs
  <2>4. Items(k, i) \subseteq Object
    BY <2>1, <2>2, <2>3, NeverMade
  <2>5. t = [d EXCEPT !.objects = @ \cup Items(k, i)]
    BY <1>3 DEF Halfway
  <2> QED
    BY <1>1, <2>4, <2>5 DEF State
<1>4. CASE k = 4
  <2>1. i \in 0 .. 8
    <3>1. Len(Migrations[4]) = 8
      BY Script4Is DEF IsOfLength
    <3> QED
      BY <1>4, <3>1
  <2>2. Added(i) \subseteq Made(4) \cup {"promotion_queue_v3"}
    <3>1. i = 0 \/ i = 1 \/ i = 2 \/ i = 3 \/ i = 4 \/ i = 5 \/ i = 6 \/ i = 7 \/ i = 8
      BY <2>1
    <3>2. Added(i) \subseteq {"promotion_queue_v3", "review_events", "export_outbox",
                             "queue triggers"}
      BY <3>1, GoneAndAdded
    <3> QED
      BY <3>2, MadeIs
  <2>3. Made(4) \subseteq MadeBefore(7)
    BY MadeBeforeIs
  <2>4. Added(i) \subseteq Object
    BY <2>2, <2>3, NeverMade
  <2>5. t = [version |-> d.version, objects |-> (d.objects \ Gone(i)) \cup Added(i),
             converted |-> IF i < 3 THEN d.converted ELSE d.converted + 1]
    BY <1>4 DEF Halfway, InQueueScript
  <2>6. (d.objects \ Gone(i)) \cup Added(i) \subseteq Object
    BY <1>1, <2>4
  <2>7. (IF i < 3 THEN d.converted ELSE d.converted + 1) \in 0 .. 2
    BY <1>1, <2>1
  <2> QED
    BY <1>1, <2>5, <2>6, <2>7 DEF State
<1> QED
  BY <1>3, <1>4

LEMMA EndedInState ==
  ASSUME NEW d, Sound(d), NEW k \in {4, 5, 6}
  PROVE  Ended(d, k) \in State
<1>1. d \in State /\ d.objects \subseteq Object
  BY NeverMade DEF Sound
<1>2. Made(k) \subseteq Object
  BY MadeBeforeIs, NeverMade
<1>3. Latest = 6
  BY MigrationsAre
<1> QED
  BY <1>1, <1>2, <1>3 DEF Ended, State

----------------------------------------------------------------------------
(* The invariant, as long as no failed script is committed.                *)

Step == {"idle", "script", "begin", "statement", "commit", "ready", "failed"}

SchemaTypes ==
  /\ db \in State
  /\ tx \in [Process -> State \cup {None, Opened}]
  /\ pc \in [Process -> Step]
  /\ script \in [Process -> 1 .. 6]
  /\ stmt \in [Process -> Nat]
  /\ goal \in [Process -> {1, 6}]
  /\ setBack \in BOOLEAN /\ halfDone \in BOOLEAN

\* What is committed is what the scripts up to its version made, and maybe what others have
\* begun to make. ADD COLUMN of 002 is committed before the version is.
DbInv ==
  /\ Sound(db)
  /\ MadeBefore(db.version + 1) \subseteq db.objects
  /\ ~setBack => \A k \in 1 .. 6 :
       New(k) \cap db.objects # {} => db.version >= (IF k = 2 THEN 1 ELSE k)

Alone == \A p, q \in Process : Writes(p) /\ Writes(q) => p = q

\* At a script, unless what a failed one has left is pending.
InScript(p) == Underway(p) /\ ~(At(p, "script") /\ Writes(p))

PriorInv(p) ==
  /\ Underway(p) => script[p] <= goal[p]
  /\ InScript(p) => /\ MadeBefore(script[p]) \subseteq db.objects
                    /\ setBack \/ db.version >= script[p] - 1

ReadyInv(p) ==
  At(p, "ready") /\ goal[p] = 6 /\ ~Writes(p) => MadeBefore(7) \subseteq db.objects

BeginInv(p) == At(p, "begin") => tx[p] = None

\* 001 to 003 commit each statement, the others are half way in their transaction. The
\* transaction of 006 is one when it first writes.
StatementInv(p) ==
  At(p, "statement") =>
    /\ stmt[p] \in 1 .. Len(Migrations[script[p]]) + 1
    /\ script[p] <= 3 =>
         tx[p] = None /\ Items(script[p], stmt[p] - 1) \subseteq db.objects
    /\ script[p] > 3 =>
         \/ Writes(p) /\ Halfway(db, script[p], stmt[p] - 1, tx[p])
         \/ script[p] = 6 /\ stmt[p] = 1 /\ tx[p] = Opened

CommitInv(p) ==
  At(p, "commit") =>
    /\ script[p] <= 3 =>
         /\ tx[p] = None /\ Made(script[p]) \subseteq db.objects
         /\ setBack \/ db.version >= script[p]
    /\ script[p] > 3 =>
         tx[p] = Ended(db, script[p]) /\ (setBack \/ db.version <= script[p])

ProcessInv(p) ==
  PriorInv(p) /\ ReadyInv(p) /\ BeginInv(p) /\ StatementInv(p) /\ CommitInv(p)

Order == SchemaTypes /\ DbInv /\ Alone /\ \A p \in Process : ProcessInv(p)

MigrationInv == ~halfDone => Order

----------------------------------------------------------------------------
(* The steps.                                                              *)

\* What a step of p leaves of another process.
Others(p) ==
  \A q \in Process \ {p} :
    /\ pc'[q] = pc[q] /\ script'[q] = script[q] /\ stmt'[q] = stmt[q]
    /\ goal'[q] = goal[q] /\ tx'[q] = tx[q]

\* What others may do to the database of a process: nothing if it writes.
Grows(q) ==
  \/ db' = db
  \/ ~Writes(q) /\ db.objects \subseteq db'.objects /\ (setBack' \/ db.version <= db'.version)

LEMMA StateIs ==
  ASSUME NEW d \in State
  PROVE  /\ d.version \in 0 .. 6 /\ d.objects \subseteq Object /\ d.converted \in 0 .. 2
         /\ d = [version |-> d.version, objects |-> d.objects, converted |-> d.converted]
         /\ d \notin {None, Opened}
  BY MigrationsAre, ValueAssumption DEF State

LEMMA NoneOpened == None # Opened
  BY ValueAssumption

LEMMA OthersKeep ==
  ASSUME Order, NEW p \in Process, Others(p), NEW q \in Process \ {p}, Grows(q),
         setBack => setBack', db' \in State
  PROVE  ProcessInv(q)'
<1>1. /\ pc'[q] = pc[q] /\ script'[q] = script[q] /\ stmt'[q] = stmt[q]
      /\ goal'[q] = goal[q] /\ tx'[q] = tx[q]
  BY DEF Others
<1>2. /\ Writes(q)' = Writes(q) /\ Underway(q)' = Underway(q) /\ InScript(q)' = InScript(q)
      /\ \A s : At(q, s)' = At(q, s)
  BY <1>1 DEF Writes, Underway, InScript, At
<1>3. ProcessInv(q) /\ script[q] \in 1 .. 6 /\ db.version \in 0 .. 6 /\ db'.version \in 0 .. 6
  BY StateIs DEF Order, SchemaTypes
<1>4. db.objects \subseteq db'.objects /\ (setBack' \/ db.version <= db'.version)
  BY <1>3 DEF Grows
<1>5. PriorInv(q)'
  BY <1>1, <1>2, <1>3, <1>4 DEF ProcessInv, PriorInv
<1>6. ReadyInv(q)'
  BY <1>1, <1>2, <1>3, <1>4 DEF ProcessInv, ReadyInv
<1>7. BeginInv(q)'
  BY <1>1, <1>2, <1>3 DEF ProcessInv, BeginInv
<1>8. StatementInv(q)'
  BY <1>1, <1>2, <1>3, <1>4 DEF ProcessInv, StatementInv, Grows
<1>9. CommitInv(q)'
  <2>1. CASE db' = db
    BY <1>1, <1>2, <1>3, <2>1 DEF ProcessInv, CommitInv
  <2>2. CASE ~Writes(q)
    <3>1. At(q, "commit") => script[q] <= 3
      <4>1. ASSUME At(q, "commit"), script[q] > 3 PROVE Writes(q)
        <5>1. tx[q] = Ended(db, script[q])
          BY <1>3, <4>1 DEF ProcessInv, CommitInv
        <5>2. script[q] \in {4, 5, 6}
          BY <1>3, <4>1
        <5>3. Ended(db, script[q]) \in State
          BY <5>2, EndedInState DEF Order, DbInv
        <5> QED
          BY <5>1, <5>3, StateIs DEF Writes
      <4> QED
        BY <1>3, <2>2, <4>1
    <3> QED
      BY <1>1, <1>2, <1>3, <1>4, <3>1 DEF ProcessInv, CommitInv
  <2> QED
    BY <2>1, <2>2 DEF Grows
<1> QED
  BY <1>5, <1>6, <1>7, <1>8, <1>9 DEF ProcessInv

LEMMA OrderFromStep ==
  ASSUME Order, NEW p \in Process, Others(p), \A q \in Process \ {p} : Grows(q),
         setBack => setBack', SchemaTypes', DbInv', Alone', ProcessInv(p)'
  PROVE  Order'
<1>1. db' \in State
  BY DEF SchemaTypes
<1>2. \A q \in Process \ {p} : ProcessInv(q)'
  BY <1>1, OthersKeep
<1> QED
  BY <1>2 DEF Order

\* A step that changes nothing of the database, nor writes.
LEMMA QuietStep ==
  ASSUME Order, NEW p \in Process, Others(p), db' = db, setBack' = setBack,
         SchemaTypes', tx'[p] \in {tx[p], None, Opened}, ProcessInv(p)'
  PROVE  Order' /\ db.objects \subseteq db'.objects
<1>1. DbInv'
  BY DEF Order, DbInv, Sound
<1>2. Alone'
  BY DEF Order, Alone, Others, Writes
<1>3. \A q \in Process : Grows(q)
  BY DEF Grows
<1> QED
  BY <1>1, <1>2, <1>3, OrderFromStep

LEMMA StartKeeps ==
  ASSUME Order, NEW p \in Process, Start(p)
  PROVE  Order' /\ db.objects \subseteq db'.objects
<1>1. SchemaTypes /\ DbInv
  BY DEF Order
<1>2. At(p, "idle") /\ UNCHANGED <<db, tx, stmt, setBack, halfDone>>
  BY DEF Start
<1>3. goal' = [goal EXCEPT ![p] = 6]
  BY MigrationsAre DEF Start
<1>4. View(p).version \in 0 .. 6 /\ (~Writes(p) => View(p) = db)
  <2>1. View(p) \in State
    BY <1>1 DEF SchemaTypes, View, Writes
  <2> QED
    BY <2>1, StateIs DEF View
<1>5. PICK v \in 0 .. 6 : v = View(p).version
  BY <1>4
<1>6. \/ v + 1 > 6 /\ pc' = [pc EXCEPT ![p] = "ready"] /\ UNCHANGED script
      \/ v + 1 \in 1 .. 6 /\ pc' = [pc EXCEPT ![p] = "script"]
         /\ script' = [script EXCEPT ![p] = v + 1]
  BY <1>5, MigrationsAre DEF Start, FirstScript, Goto
<1>7. SchemaTypes'
  BY <1>1, <1>2, <1>3, <1>6 DEF SchemaTypes, Step
<1>8. Others(p)
  BY <1>1, <1>2, <1>3, <1>6 DEF SchemaTypes, Others
<1>9. ProcessInv(p)'
  <2>1. CASE pc'[p] = "ready"
    <3>1. v = 6
      BY <1>1, <1>6, <2>1 DEF SchemaTypes
    <3>2. ~Writes(p) => db.version = 6 /\ MadeBefore(7) \subseteq db.objects
      <4>1. MadeBefore(db.version + 1) \subseteq db.objects
        BY <1>1 DEF DbInv
      <4>2. 6 + 1 = 7
        OBVIOUS
      <4> QED
        BY <1>4, <1>5, <3>1, <4>1, <4>2
    <3>3. ReadyInv(p)'
      BY <1>2, <3>2 DEF ReadyInv, Writes
    <3> QED
      BY <2>1, <3>3 DEF ProcessInv, PriorInv, BeginInv, StatementInv, CommitInv, At,
        Underway, InScript
  <2>2. CASE pc'[p] = "script"
    <3>1. script'[p] = v + 1 /\ goal'[p] = 6 /\ v + 1 \in 1 .. 6
      BY <1>1, <1>3, <1>6, <2>2 DEF SchemaTypes
    <3>2. ~Writes(p) => v = db.version /\ MadeBefore(v + 1) \subseteq db.objects
      BY <1>1, <1>4, <1>5 DEF DbInv
    <3>3. PriorInv(p)'
      BY <1>2, <2>2, <3>1, <3>2 DEF PriorInv, InScript, Writes, At
    <3> QED
      BY <2>2, <3>3 DEF ProcessInv, ReadyInv, BeginInv, StatementInv, CommitInv, At
  <2> QED
    BY <1>1, <1>6, <2>1, <2>2 DEF SchemaTypes
<1> QED
  BY <1>2, <1>7, <1>8, <1>9, QuietStep

LEMMA StartV0Keeps ==
  ASSUME Order, NEW p \in Process, StartV0(p)
  PROVE  Order' /\ db.objects \subseteq db'.objects
<1>1. SchemaTypes
  BY DEF Order
<1>2. /\ UNCHANGED <<db, tx, stmt, setBack, halfDone>> /\ pc' = [pc EXCEPT ![p] = "script"]
      /\ script' = [script EXCEPT ![p] = 1] /\ goal' = [goal EXCEPT ![p] = 1]
  BY DEF StartV0, Goto
<1>3. SchemaTypes' /\ Others(p)
  BY <1>1, <1>2 DEF SchemaTypes, Step, Others
<1>4. pc'[p] = "script" /\ script'[p] = 1 /\ goal'[p] = 1
  BY <1>1, <1>2 DEF SchemaTypes
<1>5. MadeBefore(1) = {} /\ db.version >= 0
  BY <1>1, MadeBeforeIs, StateIs DEF SchemaTypes
<1>6. PriorInv(p)'
  BY <1>2, <1>4, <1>5 DEF PriorInv
<1>7. ProcessInv(p)'
  BY <1>4, <1>6 DEF ProcessInv, ReadyInv, BeginInv, StatementInv, CommitInv, At
<1> QED
  BY <1>2, <1>3, <1>7, QuietStep

\* What is pending is not committed: that would be left of a script that failed.
LEMMA StartScriptKeeps ==
  ASSUME Order, NEW p \in Process, StartScript(p), ~halfDone'
  PROVE  Order' /\ db.objects \subseteq db'.objects
<1>1. SchemaTypes /\ ProcessInv(p)
  BY DEF Order
<1>2. ~Writes(p) /\ ~halfDone
  BY DEF StartScript, CommitPending
<1>3. /\ db' = db /\ tx' = [tx EXCEPT ![p] = None] /\ pc' = [pc EXCEPT ![p] = "begin"]
      /\ UNCHANGED <<script, stmt, goal, setBack>> /\ At(p, "script")
      /\ halfDone' \in BOOLEAN
  BY <1>2 DEF StartScript, CommitPending, View, Goto
<1>4. SchemaTypes' /\ Others(p)
  BY <1>1, <1>3 DEF SchemaTypes, Step, Others
<1>5. pc'[p] = "begin" /\ tx'[p] = None
  BY <1>1, <1>3 DEF SchemaTypes
<1>6. PriorInv(p)'
  BY <1>1, <1>2, <1>3, <1>5 DEF ProcessInv, PriorInv, InScript, Underway, At
<1>7. ProcessInv(p)'
  BY <1>5, <1>6 DEF ProcessInv, ReadyInv, BeginInv, StatementInv, CommitInv, At
<1> QED
  BY <1>3, <1>4, <1>5, <1>7, QuietStep

LEMMA FinishKeeps ==
  ASSUME Order, NEW p \in Process, Finish(p), ~halfDone'
  PROVE  Order' /\ db.objects \subseteq db'.objects
<1>1. SchemaTypes /\ ProcessInv(p)
  BY DEF Order
<1>2. ~Writes(p) /\ ~halfDone
  BY DEF Finish, CommitPending
<1>3. /\ db' = db /\ tx' = [tx EXCEPT ![p] = None] /\ pc' = [pc EXCEPT ![p] = "idle"]
      /\ UNCHANGED <<script, stmt, goal, setBack>> /\ halfDone' \in BOOLEAN
  BY <1>2 DEF Finish, CommitPending, View, Goto
<1>4. SchemaTypes' /\ Others(p)
  BY <1>1, <1>3 DEF SchemaTypes, Step, Others
<1>5. pc'[p] = "idle" /\ tx'[p] = None
  BY <1>1, <1>3 DEF SchemaTypes
<1>6. ProcessInv(p)'
  BY <1>5 DEF ProcessInv, PriorInv, ReadyInv, BeginInv, StatementInv, CommitInv, At,
    Underway, InScript
<1> QED
  BY <1>3, <1>4, <1>5, <1>6, QuietStep

\* A start that fails, is given up, repeated or cut off.
LEMMA StopKeeps ==
  ASSUME Order, NEW p \in Process,
         Refused(p) \/ Fail(p) \/ GiveUp(p) \/ TryAgain(p) \/ Crash(p)
  PROVE  Order' /\ db.objects \subseteq db'.objects
<1>1. SchemaTypes
  BY DEF Order
<1>2. /\ UNCHANGED <<db, script, goal, setBack, halfDone>>
      /\ pc' = [pc EXCEPT ![p] = "failed"] \/ pc' = [pc EXCEPT ![p] = "idle"]
      /\ UNCHANGED stmt \/ stmt' = [stmt EXCEPT ![p] = 1]
      /\ UNCHANGED tx \/ tx' = [tx EXCEPT ![p] = None]
  BY DEF Refused, Fail, GiveUp, TryAgain, Crash, Raise, Goto
<1>3. SchemaTypes' /\ Others(p)
  BY <1>1, <1>2 DEF SchemaTypes, Step, Others
<1>4. pc'[p] \in {"failed", "idle"} /\ tx'[p] \in {tx[p], None}
  BY <1>1, <1>2 DEF SchemaTypes
<1>5. ProcessInv(p)'
  BY <1>4 DEF ProcessInv, PriorInv, ReadyInv, BeginInv, StatementInv, CommitInv, At,
    Underway, InScript
<1> QED
  BY <1>2, <1>3, <1>4, <1>5, QuietStep

LEMMA BeginKeeps ==
  ASSUME Order, NEW p \in Process, Begin(p)
  PROVE  Order' /\ db.objects \subseteq db'.objects
<1>1. SchemaTypes /\ DbInv /\ ProcessInv(p) /\ At(p, "begin") /\ tx[p] = None
  BY DEF Order, ProcessInv, BeginInv, Begin
<1>2. /\ UNCHANGED <<db, script, goal, setBack, halfDone>>
      /\ stmt' = [stmt EXCEPT ![p] = 1] /\ pc' = [pc EXCEPT ![p] = "statement"]
  BY DEF Begin, Goto
<1>3. \/ script[p] \in 1 .. 3 /\ UNCHANGED tx
      \/ script[p] = 6 /\ tx' = [tx EXCEPT ![p] = Opened]
      \/ script[p] \in {4, 5} /\ MayWrite(p) /\ tx' = [tx EXCEPT ![p] = db]
  <2>1. script[p] \in 1 .. 3 \/ script[p] \in 4 .. 5 \/ script[p] = 6
    BY <1>1 DEF SchemaTypes
  <2>2. CASE script[p] \in 1 .. 3
    <3>1. Transaction(script[p]) = "none"
      BY <2>2 DEF Transaction
    <3> QED
      BY <2>2, <3>1 DEF Begin
  <2>3. CASE script[p] \in 4 .. 5
    <3>1. Transaction(script[p]) = "immediate"
      BY <2>3 DEF Transaction
    <3> QED
      BY <2>3, <3>1 DEF Begin
  <2>4. CASE script[p] = 6
    <3>1. Transaction(script[p]) = "deferred"
      BY <2>4 DEF Transaction
    <3> QED
      BY <2>4, <3>1 DEF Begin
  <2> QED
    BY <2>1, <2>2, <2>3, <2>4
<1>4. SchemaTypes' /\ Others(p)
  BY <1>1, <1>2, <1>3 DEF SchemaTypes, Step, Others
<1>5. /\ pc'[p] = "statement" /\ script'[p] = script[p] /\ stmt'[p] = 1
      /\ script[p] \in 1 .. 6
  BY <1>1, <1>2 DEF SchemaTypes
<1>6. Len(Migrations[script[p]]) \in Nat
  BY <1>5, LengthsAre
<1>7. PriorInv(p)'
  BY <1>1, <1>2, <1>5 DEF ProcessInv, PriorInv, InScript, Underway, At
<1>8. ASSUME StatementInv(p)' PROVE ProcessInv(p)'
  BY <1>5, <1>7, <1>8 DEF ProcessInv, ReadyInv, BeginInv, CommitInv, At
<1>9. 1 \in 1 .. Len(Migrations[script[p]]) + 1
  BY <1>6
<1>10. CASE script[p] \in 1 .. 3 /\ UNCHANGED tx
  <2>1. Items(script[p], 0) = {}
    BY DEF Items
  <2>2. StatementInv(p)'
    BY <1>1, <1>2, <1>5, <1>9, <1>10, <2>1 DEF StatementInv
  <2> QED
    BY <1>2, <1>4, <1>8, <1>10, <2>2, QuietStep
<1>11. CASE script[p] = 6 /\ tx' = [tx EXCEPT ![p] = Opened]
  <2>1. tx'[p] = Opened
    BY <1>1, <1>11 DEF SchemaTypes
  <2>2. StatementInv(p)'
    BY <1>5, <1>9, <1>11, <2>1 DEF StatementInv
  <2> QED
    BY <1>2, <1>4, <1>8, <2>1, <2>2, QuietStep
<1>12. CASE script[p] \in {4, 5} /\ MayWrite(p) /\ tx' = [tx EXCEPT ![p] = db]
  <2>1. tx'[p] = db /\ Writes(p)' /\ db \in State
    BY <1>1, <1>12, StateIs DEF SchemaTypes, Writes
  <2>2. Halfway(db, script[p], 0, db)
    BY <1>12, <2>1, HalfwayStart
  <2>3. StatementInv(p)'
    BY <1>2, <1>5, <1>9, <1>12, <2>1, <2>2 DEF StatementInv
  <2>4. Alone'
    BY <1>4, <1>12 DEF Alone, MayWrite, Others, Writes
  <2>5. DbInv'
    BY <1>1, <1>2 DEF DbInv, Sound
  <2>6. \A q \in Process : Grows(q)
    BY <1>2 DEF Grows
  <2> QED
    BY <1>2, <1>4, <1>8, <2>3, <2>4, <2>5, <2>6, OrderFromStep
<1> QED
  BY <1>3, <1>10, <1>11, <1>12

\* 001 to 003: a statement is committed by itself.
LEMMA StatementOnDatabase ==
  ASSUME Order, NEW p \in Process, Execute(p), script[p] \in {1, 2, 3},
         NEW i, i = stmt[p], NEW n, n = Len(Migrations[script[p]]), i <= n
  PROVE  Order' /\ db.objects \subseteq db'.objects
<1>1. PICK k \in {1, 2, 3} : k = script[p]
  OBVIOUS
<1>2. /\ SchemaTypes /\ DbInv /\ Alone /\ At(p, "statement") /\ MayWrite(p)
      /\ k \in Plain /\ k \in 1 .. 6 /\ ProcessInv(p)
  BY DEF Order, Execute, Plain
<1>3. /\ tx[p] = None /\ i \in 1 .. n /\ n \in Nat /\ Items(k, i - 1) \subseteq db.objects
      /\ Len(Statements(k)) = n + 1
  <2>1. n \in Nat /\ Len(Statements(k)) = n + 1
    BY <1>1, <1>2, LengthsAre, StatementsAre
  <2>2. tx[p] = None /\ i \in 1 .. n + 1 /\ Items(k, i - 1) \subseteq db.objects
    BY <1>1, <1>2 DEF ProcessInv, StatementInv
  <2> QED
    BY <2>1, <2>2
<1>4. PICK x : x = Migrations[k][i][2]
  OBVIOUS
<1>5. View(p) = db /\ db \in State
  BY <1>2, <1>3 DEF View, Writes, SchemaTypes
<1>6. x \in Made(k) /\ Effect(Statements(k)[i], db) = [db EXCEPT !.objects = @ \cup {x}]
  BY <1>1, <1>2, <1>3, <1>4, PlainEffect
<1>7. db' = [db EXCEPT !.objects = @ \cup {x}] /\ UNCHANGED tx
  <2>1. Current(p) = Statements(k)[i]
    BY <1>1 DEF Current
  <2> QED
    BY <1>3, <1>5, <1>6, <2>1 DEF Execute
<1>8. /\ db'.version = db.version /\ db'.objects = db.objects \cup {x}
      /\ db'.converted = db.converted
      /\ db' = [version |-> db.version, objects |-> db.objects \cup {x},
                converted |-> db.converted]
  <2>1. PICK o : o = db.objects \cup {x}
    OBVIOUS
  <2>2. db = [version |-> db.version, objects |-> db.objects, converted |-> db.converted]
    BY <1>5, StateIs
  <2>3. db' = [db EXCEPT !.objects = o]
    BY <1>7, <2>1
  <2>4. db' = [version |-> db.version, objects |-> o, converted |-> db.converted]
    BY <2>2, <2>3
  <2> QED
    BY <2>1, <2>4
<1>9. setBack' = setBack
  <2>1. Effect(Current(p), View(p)).version = View(p).version
    BY <1>1, <1>5, <1>6 DEF Current, State
  <2>2. db.version \in Nat
    BY <1>5, StateIs
  <2> QED
    BY <1>2, <1>5, <2>1, <2>2 DEF Execute, SchemaTypes
<1>10. /\ stmt' = [stmt EXCEPT ![p] = i + 1] /\ UNCHANGED <<pc, script, goal, halfDone>>
  BY <1>1, <1>3 DEF Execute
<1>11. x \in Object /\ x \in MadeBefore(7)
  BY <1>2, <1>6, MadeBeforeIs, NeverMade
<1>12. db' \in State
  BY <1>5, <1>8, <1>11 DEF State
<1>13. SchemaTypes' /\ Others(p)
  BY <1>2, <1>3, <1>7, <1>9, <1>10, <1>12 DEF SchemaTypes, Others
<1>14. DbInv'
  <2>1. x # "review_events"
    <3>1. "review_events" \in New(4)
      BY NewIs
    <3> QED
      BY <1>2, <1>6, <3>1, NewAreOwn
  <2>2. Sound(db')
    BY <1>2, <1>8, <1>11, <1>12, <2>1 DEF DbInv, Sound
  <2>3. ASSUME ~setBack, NEW j \in 1 .. 6, x \in New(j)
        PROVE  db.version >= (IF j = 2 THEN 1 ELSE j)
    <3>1. j = 2 /\ k = 2
      BY <1>1, <1>2, <1>6, <2>3, NewAreOwn
    <3>2. db.version >= k - 1
      BY <1>1, <1>2, <2>3 DEF ProcessInv, PriorInv, InScript, Underway, At
    <3> QED
      BY <3>1, <3>2
  <2>4. ASSUME ~setBack, NEW j \in 1 .. 6, New(j) \cap db'.objects # {}
        PROVE  db.version >= (IF j = 2 THEN 1 ELSE j)
    <3>1. x \in New(j) \/ New(j) \cap db.objects # {}
      BY <1>8, <2>4
    <3> QED
      BY <1>2, <2>3, <2>4, <3>1 DEF DbInv
  <2> QED
    BY <1>2, <1>8, <1>9, <2>2, <2>4 DEF DbInv
<1>15. ProcessInv(p)'
  <2>1. PriorInv(p)'
    BY <1>2, <1>7, <1>8, <1>9, <1>10 DEF ProcessInv, PriorInv, InScript, Underway, At, Writes
  <2>2. Items(k, i) \subseteq db'.objects /\ stmt'[p] = i + 1
    <3>1. i - 1 \in Nat /\ (i - 1) + 1 = i
      BY <1>3
    <3>2. Items(k, (i - 1) + 1) = Items(k, i - 1) \cup {Migrations[k][(i - 1) + 1][2]}
      BY <3>1, ItemsNext
    <3>3. Items(k, i) = Items(k, i - 1) \cup {x}
      BY <1>4, <3>1, <3>2
    <3> QED
      BY <1>2, <1>3, <1>8, <1>10, <3>3 DEF SchemaTypes
  <2>3. StatementInv(p)'
    BY <1>1, <1>2, <1>3, <1>7, <1>10, <2>2 DEF StatementInv
  <2> QED
    BY <1>2, <1>10, <2>1, <2>3 DEF ProcessInv, ReadyInv, BeginInv, CommitInv, At
<1>16. \A q \in Process \ {p} : Grows(q)
  BY <1>2, <1>5, <1>8, StateIs DEF Grows, MayWrite
<1>17. Alone'
  BY <1>2, <1>7 DEF Alone, Writes
<1> QED
  BY <1>8, <1>9, <1>13, <1>14, <1>15, <1>16, <1>17, OrderFromStep

LEMMA VersionOnDatabase ==
  ASSUME Order, NEW p \in Process, Execute(p), script[p] \in {1, 2, 3},
         NEW n, n = Len(Migrations[script[p]]), stmt[p] = n + 1
  PROVE  Order' /\ db.objects \subseteq db'.objects
<1>1. PICK k \in {1, 2, 3} : k = script[p]
  OBVIOUS
<1>2. /\ SchemaTypes /\ DbInv /\ Alone /\ At(p, "statement") /\ MayWrite(p)
      /\ k \in Plain /\ k \in 1 .. 6 /\ ProcessInv(p)
  BY DEF Order, Execute, Plain
<1>3. tx[p] = None /\ n \in Nat /\ Items(k, (n + 1) - 1) \subseteq db.objects
      /\ Len(Statements(k)) = n + 1 /\ Statements(k)[n + 1] = <<"version", k>>
  <2>1. n \in Nat /\ Len(Statements(k)) = n + 1 /\ Statements(k)[n + 1] = <<"version", k>>
    BY <1>1, <1>2, LengthsAre, StatementsAre
  <2>2. tx[p] = None /\ Items(k, stmt[p] - 1) \subseteq db.objects
    BY <1>1, <1>2 DEF ProcessInv, StatementInv
  <2> QED
    BY <2>1, <2>2
<1>4. Made(k) \subseteq db.objects
  <2>1. (n + 1) - 1 = n
    BY <1>3
  <2> QED
    BY <1>1, <1>2, <1>3, <2>1, ItemsAre
<1>5. View(p) = db /\ db \in State
  BY <1>2, <1>3 DEF View, Writes, SchemaTypes
<1>6. Current(p) = <<"version", k>>
  BY <1>1, <1>3 DEF Current
<1>7. db' = [db EXCEPT !.version = k] /\ UNCHANGED tx
  BY <1>2, <1>3, <1>5, <1>6, VersionEffect DEF Execute
<1>8. /\ db'.version = k /\ db'.objects = db.objects /\ db'.converted = db.converted
      /\ db' = [version |-> k, objects |-> db.objects, converted |-> db.converted]
  BY <1>5, <1>7, StateIs
<1>9. /\ setBack' \in BOOLEAN /\ (setBack => setBack')
      /\ setBack' \/ db.version <= k
  <2>1. setBack' = (setBack \/ Effect(Current(p), db).version < db.version)
    BY <1>5 DEF Execute
  <2>2. Effect(Current(p), db).version = k
    <3>1. Effect(Current(p), db) = [db EXCEPT !.version = k]
      BY <1>2, <1>6, VersionEffect
    <3> QED
      BY <1>5, <3>1, StateIs
  <2>3. db.version \in 0 .. 6
    BY <1>5, StateIs
  <2>4. setBack' = (setBack \/ k < db.version)
    BY <2>1, <2>2
  <2>5. setBack' \in BOOLEAN /\ (setBack => setBack')
    BY <1>2, <2>4 DEF SchemaTypes
  <2>6. ASSUME db.version > k PROVE setBack'
    <3>1. k < db.version
      BY <1>2, <2>3, <2>6
    <3> QED
      BY <2>4, <3>1, Zenon
  <2> QED
    BY <1>2, <2>3, <2>5, <2>6
<1>10. /\ stmt' = [stmt EXCEPT ![p] = 1] /\ pc' = [pc EXCEPT ![p] = "commit"]
       /\ UNCHANGED <<script, goal, halfDone>>
  BY <1>1, <1>3 DEF Execute, Goto
<1>11. db' \in State
  BY <1>5, <1>8, StateIs, MigrationsAre DEF State
<1>12. SchemaTypes' /\ Others(p)
  BY <1>2, <1>7, <1>9, <1>10, <1>11 DEF SchemaTypes, Others, Step
<1>13. DbInv'
  <2>1. Sound(db')
    BY <1>2, <1>8, <1>11 DEF DbInv, Sound
  <2>2. MadeBefore(k + 1) \subseteq db.objects
    <3>1. MadeBefore(k + 1) = MadeBefore(k) \cup Made(k)
      BY <1>2, MadeBeforeIs
    <3>2. MadeBefore(k) \subseteq db.objects
      BY <1>1, <1>2 DEF ProcessInv, PriorInv, InScript, Underway, At
    <3> QED
      BY <1>4, <3>1, <3>2
  <2>3. ASSUME ~setBack', NEW j \in 1 .. 6, New(j) \cap db.objects # {}
        PROVE  k >= (IF j = 2 THEN 1 ELSE j)
    <3>1. db.version >= (IF j = 2 THEN 1 ELSE j)
      BY <1>2, <1>9, <2>3 DEF DbInv
    <3>2. db.version <= k /\ db.version \in 0 .. 6
      BY <1>5, <1>9, <2>3, StateIs
    <3> QED
      BY <1>2, <3>1, <3>2
  <2> QED
    BY <1>8, <2>1, <2>2, <2>3 DEF DbInv
<1>14. ProcessInv(p)'
  <2>1. pc'[p] = "commit" /\ script'[p] = k /\ tx'[p] = None
    BY <1>1, <1>2, <1>3, <1>7, <1>10 DEF SchemaTypes
  <2>2. PriorInv(p)'
    BY <1>1, <1>2, <1>8, <1>10, <2>1 DEF ProcessInv, PriorInv, InScript, Underway, At
  <2>3. CommitInv(p)'
    BY <1>2, <1>4, <1>8, <2>1 DEF CommitInv
  <2> QED
    BY <2>1, <2>2, <2>3 DEF ProcessInv, ReadyInv, BeginInv, StatementInv, At
<1>15. \A q \in Process \ {p} : Grows(q)
  BY <1>2, <1>8, <1>9 DEF Grows, MayWrite
<1>16. Alone'
  BY <1>2, <1>7 DEF Alone, Writes
<1> QED
  BY <1>8, <1>9, <1>12, <1>13, <1>14, <1>15, <1>16, OrderFromStep

\* 004 to 006: a statement is executed in the transaction.
LEMMA StatementInTransaction ==
  ASSUME Order, NEW p \in Process, Execute(p), script[p] \in {4, 5, 6}
  PROVE  Order' /\ db.objects \subseteq db'.objects
<1>1. PICK k \in {4, 5, 6} : k = script[p]
  OBVIOUS
<1>2. PICK n \in Nat : n = Len(Migrations[k])
  BY LengthsAre
<1>3. PICK i \in 1 .. n + 1 : i = stmt[p]
  BY <1>1, <1>2 DEF Order, ProcessInv, StatementInv, Execute
<1>4. /\ SchemaTypes /\ DbInv /\ Alone /\ At(p, "statement") /\ MayWrite(p)
      /\ ProcessInv(p) /\ k \in 1 .. 6
  BY DEF Order, Execute
<1>5. PICK t : t = View(p)
  OBVIOUS
<1>6. Halfway(db, k, i - 1, t) /\ tx[p] # None
  <2>1. \/ Writes(p) /\ Halfway(db, k, i - 1, tx[p])
        \/ k = 6 /\ i = 1 /\ tx[p] = Opened
    BY <1>1, <1>3, <1>4 DEF ProcessInv, StatementInv
  <2>2. CASE Writes(p) /\ Halfway(db, k, i - 1, tx[p])
    BY <1>5, <2>2 DEF View, Writes
  <2>3. CASE i = 1 /\ tx[p] = Opened
    <3>1. Halfway(db, k, 0, db)
      BY <1>4, HalfwayStart DEF SchemaTypes
    <3>2. t = db
      BY <1>5, <2>3 DEF View, Writes
    <3> QED
      BY <2>3, <3>1, <3>2, NoneOpened
  <2> QED
    BY <2>1, <2>2, <2>3
<1>7. MadeBefore(k) \subseteq db.objects /\ Sound(db) /\ db \in State
  BY <1>1, <1>4 DEF ProcessInv, PriorInv, InScript, Underway, At, DbInv, Sound
<1>8. PICK r : r = Effect(Statements(k)[i], t)
  OBVIOUS
<1>9. /\ Accepted(Statements(k)[i], t) /\ tx' = [tx EXCEPT ![p] = r]
      /\ UNCHANGED <<db, script, goal, halfDone>>
      /\ setBack' = (setBack \/ r.version < t.version)
  BY <1>1, <1>3, <1>5, <1>6, <1>8 DEF Execute, Current
<1>10. /\ i # n + 1 => stmt' = [stmt EXCEPT ![p] = i + 1] /\ UNCHANGED pc
       /\ i = n + 1 => stmt' = [stmt EXCEPT ![p] = 1] /\ pc' = [pc EXCEPT ![p] = "commit"]
  <2>1. Len(Statements(k)) = n + 1
    BY <1>2, <1>4, StatementsAre
  <2> QED
    BY <1>1, <1>3, <2>1 DEF Execute, Goto
<1>11. t.version = db.version /\ db.version \in 0 .. 6
  BY <1>6, <1>7, HalfwayVersion, StateIs
<1>12. i <= n => Halfway(db, k, i, r)
  <2>1. ASSUME i <= n PROVE Halfway(db, k, (i - 1) + 1, Effect(Statements(k)[(i - 1) + 1], t))
    <3>1. i - 1 \in Nat /\ i - 1 < n /\ (i - 1) + 1 = i
      BY <2>1
    <3>2. Accepted(Statements(k)[(i - 1) + 1], t)
      BY <1>9, <3>1
    <3> QED
      BY <1>2, <1>6, <1>7, <3>1, <3>2, HalfwayNext
  <2>2. (i - 1) + 1 = i
    OBVIOUS
  <2> QED
    BY <1>8, <2>1, <2>2
<1>13. i = n + 1 => r = Ended(db, k)
  <2>1. ASSUME i = n + 1 PROVE Halfway(db, k, n, t)
    <3>1. i - 1 = n
      BY <2>1
    <3> QED
      BY <1>6, <3>1
  <2> QED
    BY <1>2, <1>7, <1>8, <2>1, HalfwayEnd
<1>14. r \in State /\ r \notin {None, Opened}
  <2>1. CASE i <= n
    BY <1>2, <1>7, <1>12, <2>1, HalfwayInState, StateIs
  <2>2. CASE i = n + 1
    BY <1>7, <1>13, <2>2, EndedInState, StateIs
  <2> QED
    BY <2>1, <2>2
<1>15. SchemaTypes' /\ Others(p)
  <2>1. stmt' \in [Process -> Nat] /\ pc' \in [Process -> Step]
        /\ (\A q \in Process \ {p} : stmt'[q] = stmt[q] /\ pc'[q] = pc[q])
    BY <1>4, <1>10 DEF SchemaTypes, Step
  <2> QED
    BY <1>4, <1>9, <1>14, <2>1 DEF SchemaTypes, Others
<1>16. tx'[p] = r /\ Writes(p)' /\ script'[p] = k
  BY <1>1, <1>4, <1>9, <1>14 DEF SchemaTypes, Writes
<1>17. Alone'
  BY <1>4, <1>15 DEF Alone, MayWrite, Others, Writes
<1>18. DbInv'
  BY <1>4, <1>9 DEF DbInv, Sound
<1>19. \A q \in Process : Grows(q)
  BY <1>9 DEF Grows
<1>20. setBack' \in BOOLEAN /\ (setBack => setBack')
  BY <1>4, <1>9 DEF SchemaTypes
<1>21. PriorInv(p)'
  <2>1. pc'[p] \in {"statement", "commit"}
    BY <1>4, <1>10 DEF SchemaTypes, At
  <2> QED
    BY <1>4, <1>9, <1>20, <2>1 DEF ProcessInv, PriorInv, InScript, Underway, At
<1>22. CASE i # n + 1
  <2>1. pc'[p] = "statement" /\ stmt'[p] = i + 1 /\ i <= n
    BY <1>4, <1>10, <1>22 DEF SchemaTypes, At
  <2>2. StatementInv(p)'
    <3>1. (i + 1) - 1 = i /\ i + 1 \in 1 .. n + 1
      BY <2>1
    <3> QED
      BY <1>2, <1>9, <1>12, <1>16, <2>1, <3>1 DEF StatementInv
  <2>3. ProcessInv(p)'
    BY <1>21, <2>1, <2>2 DEF ProcessInv, ReadyInv, BeginInv, CommitInv, At
  <2> QED
    BY <1>9, <1>15, <1>17, <1>18, <1>19, <1>20, <2>3, OrderFromStep
<1>23. CASE i = n + 1
  <2>1. pc'[p] = "commit"
    BY <1>4, <1>10, <1>23 DEF SchemaTypes
  <2>2. setBack' \/ db.version <= k
    <3>1. r.version = k
      BY <1>13, <1>23 DEF Ended
    <3>2. ASSUME db.version > k PROVE setBack'
      <4>1. r.version < t.version
        BY <1>4, <1>11, <3>1, <3>2
      <4> QED
        BY <1>9, <4>1, Zenon
    <3> QED
      BY <1>4, <1>11, <3>2
  <2>3. CommitInv(p)'
    BY <1>9, <1>13, <1>16, <1>23, <2>2 DEF CommitInv
  <2>4. ProcessInv(p)'
    BY <1>21, <2>1, <2>3 DEF ProcessInv, ReadyInv, BeginInv, StatementInv, At
  <2> QED
    BY <1>9, <1>15, <1>17, <1>18, <1>19, <1>20, <2>4, OrderFromStep
<1> QED
  BY <1>22, <1>23

LEMMA ExecuteKeeps ==
  ASSUME Order, NEW p \in Process, Execute(p)
  PROVE  Order' /\ db.objects \subseteq db'.objects
<1>1. script[p] \in 1 .. 6 /\ stmt[p] \in 1 .. Len(Migrations[script[p]]) + 1
  BY DEF Order, SchemaTypes, ProcessInv, StatementInv, Execute
<1>2. Len(Migrations[script[p]]) \in Nat
  BY <1>1, LengthsAre
<1>3. CASE script[p] \in {4, 5, 6}
  BY <1>3, StatementInTransaction
<1>4. CASE script[p] \in {1, 2, 3} /\ stmt[p] <= Len(Migrations[script[p]])
  BY <1>4, StatementOnDatabase
<1>5. CASE script[p] \in {1, 2, 3} /\ stmt[p] = Len(Migrations[script[p]]) + 1
  BY <1>5, VersionOnDatabase
<1> QED
  BY <1>1, <1>2, <1>3, <1>4, <1>5

\* A transaction commits all of its script, on the database it was begun on.
LEMMA CommitKeeps ==
  ASSUME Order, NEW p \in Process, Commit(p)
  PROVE  Order' /\ db.objects \subseteq db'.objects
<1>1. PICK k \in 1 .. 6 : k = script[p]
  BY DEF Order, SchemaTypes
<1>2. /\ SchemaTypes /\ DbInv /\ Alone /\ ProcessInv(p) /\ At(p, "commit")
      /\ db \in State /\ db.version \in 0 .. 6
  BY StateIs DEF Order, SchemaTypes, Commit
<1>3. /\ db' = View(p) /\ tx' = [tx EXCEPT ![p] = None]
      /\ UNCHANGED <<stmt, goal, setBack, halfDone>>
      /\ \/ k = goal[p] /\ pc' = [pc EXCEPT ![p] = "ready"] /\ UNCHANGED script
         \/ k # goal[p] /\ pc' = [pc EXCEPT ![p] = "script"]
            /\ script' = [script EXCEPT ![p] = k + 1]
  BY <1>1 DEF Commit, Goto
<1>4. /\ MadeBefore(k) \subseteq db.objects /\ k <= goal[p] /\ goal[p] \in {1, 6}
      /\ setBack \/ db.version >= k - 1
  BY <1>1, <1>2 DEF ProcessInv, PriorInv, InScript, Underway, At, SchemaTypes
<1>5. tx'[p] = None /\ (k # goal[p] => k + 1 \in 1 .. 6 /\ k + 1 <= goal[p])
  BY <1>1, <1>2, <1>3, <1>4 DEF SchemaTypes
<1>6. MadeBefore(k + 1) = MadeBefore(k) \cup Made(k)
  BY <1>1, MadeBeforeIs
\* What the process finds when its script is done.
<1>7. ASSUME Made(k) \subseteq db'.objects, db.objects \subseteq db'.objects,
             setBack \/ db'.version >= k, db'.version \in 0 .. 6
      PROVE  ProcessInv(p)'
  <2>1. MadeBefore(k + 1) \subseteq db'.objects
    BY <1>4, <1>6, <1>7
  <2>2. CASE k = goal[p]
    <3>1. pc'[p] = "ready" /\ goal'[p] = k
      BY <1>2, <1>3, <2>2 DEF SchemaTypes
    <3>2. k = 6 => MadeBefore(7) \subseteq db'.objects
      <4>1. 6 + 1 = 7
        OBVIOUS
      <4> QED
        BY <2>1, <4>1
    <3>3. ReadyInv(p)'
      BY <3>1, <3>2 DEF ReadyInv
    <3> QED
      BY <3>1, <3>3 DEF ProcessInv, PriorInv, InScript, Underway, BeginInv, StatementInv,
        CommitInv, At
  <2>3. CASE k # goal[p]
    <3>1. pc'[p] = "script" /\ script'[p] = k + 1 /\ goal'[p] = goal[p]
      BY <1>1, <1>2, <1>3, <2>3 DEF SchemaTypes
    <3>2. setBack' \/ db'.version >= (k + 1) - 1
      BY <1>1, <1>3, <1>7
    <3>3. PriorInv(p)'
      BY <1>5, <2>1, <2>3, <3>1, <3>2 DEF PriorInv
    <3> QED
      BY <3>1, <3>3 DEF ProcessInv, ReadyInv, BeginInv, StatementInv, CommitInv, At
  <2> QED
    BY <2>2, <2>3
<1>8. ASSUME db' \in State PROVE SchemaTypes' /\ Others(p)
  BY <1>2, <1>3, <1>5, <1>8 DEF SchemaTypes, Step, Others
<1>9. CASE k <= 3
  <2>1. tx[p] = None /\ Made(k) \subseteq db.objects /\ (setBack \/ db.version >= k)
    BY <1>1, <1>2, <1>9 DEF ProcessInv, CommitInv
  <2>2. db' = db
    BY <1>3, <2>1 DEF View, Writes
  <2>3. ProcessInv(p)' /\ SchemaTypes' /\ Others(p)
    BY <1>2, <1>7, <1>8, <2>1, <2>2
  <2> QED
    BY <1>3, <1>5, <2>2, <2>3, QuietStep
<1>10. CASE k > 3
  <2>1. k \in {4, 5, 6} /\ tx[p] = Ended(db, k) /\ (setBack \/ db.version <= k)
    BY <1>1, <1>2, <1>10 DEF ProcessInv, CommitInv
  <2>2. Ended(db, k) \in State
    BY <1>2, <2>1, EndedInState DEF DbInv
  <2>3. Writes(p) /\ db' = Ended(db, k)
    BY <1>3, <2>1, <2>2, StateIs DEF View, Writes
  <2>4. /\ db'.version = k /\ db'.objects = db.objects \cup Made(k)
        /\ db'.converted = IF k = 4 THEN 1 ELSE db.converted
    BY <2>3 DEF Ended
  <2>5. SchemaTypes' /\ Others(p)
    BY <1>8, <2>2, <2>3
  <2>6. DbInv'
    <3>1. Sound(db')
      <4>1. db'.objects \subseteq MadeBefore(7)
        BY <1>1, <1>2, <2>4, MadeBeforeIs DEF DbInv, Sound
      <4>2. "review_events" \in Made(k) <=> k = 4
        <5>1. "review_events" \in Made(4) /\ "review_events" \in New(4)
          BY MadeIs, NewIs
        <5> QED
          BY <1>1, <5>1, NewAreOwn
      <4>3. db'.converted = IF "review_events" \in db'.objects THEN 1 ELSE 0
        BY <1>2, <2>4, <4>2 DEF DbInv, Sound
      <4> QED
        BY <2>2, <2>3, <4>1, <4>3 DEF Sound
    <3>2. MadeBefore(db'.version + 1) \subseteq db'.objects
      BY <1>4, <1>6, <2>4
    <3>3. ASSUME ~setBack, NEW j \in 1 .. 6, New(j) \cap db'.objects # {}
          PROVE  k >= (IF j = 2 THEN 1 ELSE j)
      <4>1. CASE New(j) \cap Made(k) # {}
        BY <1>1, <4>1, NewAreOwn
      <4>2. CASE New(j) \cap db.objects # {}
        <5>1. db.version >= (IF j = 2 THEN 1 ELSE j)
          BY <1>2, <3>3, <4>2 DEF DbInv
        <5>2. db.version <= k
          BY <2>1, <3>3
        <5> QED
          BY <1>1, <1>2, <5>1, <5>2
      <4> QED
        BY <2>4, <3>3, <4>1, <4>2
    <3> QED
      BY <1>3, <2>4, <3>1, <3>2, <3>3 DEF DbInv
  <2>7. Alone'
    BY <1>2, <1>5, <2>5 DEF Alone, Others, Writes
  <2>8. ProcessInv(p)'
    BY <1>1, <1>7, <2>4
  <2>9. \A q \in Process \ {p} : Grows(q)
    BY <1>2, <1>3, <2>1, <2>3, <2>4 DEF Grows, Alone
  <2> QED
    BY <1>3, <2>4, <2>5, <2>6, <2>7, <2>8, <2>9, OrderFromStep
<1> QED
  BY <1>1, <1>9, <1>10

----------------------------------------------------------------------------
(* The theorems.                                                           *)

LEMMA NextKeeps ==
  ASSUME Order, Next, ~halfDone'
  PROVE  Order' /\ db.objects \subseteq db'.objects
<1>1. PICK p \in Process : Work(p) \/ StartV0(p) \/ Fail(p) \/ TryAgain(p) \/ Crash(p)
  BY DEF Next
<1>2. CASE Start(p)
  BY <1>2, StartKeeps
<1>3. CASE StartV0(p)
  BY <1>3, StartV0Keeps
<1>4. CASE StartScript(p)
  BY <1>4, StartScriptKeeps
<1>5. CASE Begin(p)
  BY <1>5, BeginKeeps
<1>6. CASE Execute(p)
  BY <1>6, ExecuteKeeps
<1>7. CASE Commit(p)
  BY <1>7, CommitKeeps
<1>8. CASE Finish(p)
  BY <1>8, FinishKeeps
<1>9. CASE Refused(p) \/ Fail(p) \/ GiveUp(p) \/ TryAgain(p) \/ Crash(p)
  BY <1>9, StopKeeps
<1> QED
  BY <1>1, <1>2, <1>3, <1>4, <1>5, <1>6, <1>7, <1>8, <1>9 DEF Work

LEMMA OnceHalfDone ==
  ASSUME [Next]_vars, ~halfDone'
  PROVE  ~halfDone
  BY DEF Next, Work, Start, StartV0, StartScript, CommitPending, Begin, Execute, Commit,
    Refused, Fail, Raise, GiveUp, Finish, TryAgain, Crash, vars

LEMMA InitHolds == Init => Order
<1> SUFFICES ASSUME Init PROVE Order
  OBVIOUS
<1>1. PICK k \in 0 .. 6 : db = Database(k)
  BY MigrationsAre DEF Init
<1>2. db.version = k /\ db.objects = MadeBefore(k + 1)
      /\ db.converted = IF k < 4 THEN 0 ELSE 1
  BY <1>1 DEF Database
<1>3. MadeBefore(k + 1) \subseteq MadeBefore(7)
  BY MadeBeforeIs
<1>4. db \in State
  <2>1. MadeBefore(k + 1) \subseteq Object
    BY <1>3, NeverMade
  <2> QED
    BY <1>1, <2>1, MigrationsAre DEF Database, State
<1>5. ASSUME NEW j \in 1 .. 6, New(j) \cap db.objects # {}
      PROVE  k >= j
  <2>1. PICK x \in New(j) : x \in MadeBefore(k + 1)
    BY <1>2, <1>5
  <2>2. PICK m \in 1 .. (k + 1) - 1 : x \in Made(m)
    BY <2>1 DEF MadeBefore
  <2>3. m \in 1 .. 6 /\ m <= k
    BY <2>2
  <2> QED
    BY <2>1, <2>2, <2>3, NewAreOwn
<1>6. db.converted = IF "review_events" \in db.objects THEN 1 ELSE 0
  <2>1. "review_events" \in New(4) /\ "review_events" \in Made(4)
    BY NewIs, MadeIs
  <2>2. CASE k < 4
    BY <1>2, <1>5, <2>1, <2>2
  <2>3. CASE k >= 4
    <3>1. Made(4) \subseteq MadeBefore(k + 1)
      BY <2>3 DEF MadeBefore
    <3> QED
      BY <1>2, <2>1, <2>3, <3>1
  <2> QED
    BY <2>2, <2>3
<1>7. DbInv
  BY <1>2, <1>3, <1>4, <1>5, <1>6 DEF DbInv, Sound
<1>8. SchemaTypes
  <2>1. /\ tx = [p \in Process |-> None] /\ pc = [p \in Process |-> "idle"]
        /\ script = [p \in Process |-> 1] /\ stmt = [p \in Process |-> 1]
        /\ goal = [p \in Process |-> 6] /\ setBack = FALSE /\ halfDone = FALSE
    BY MigrationsAre DEF Init
  <2>2. tx \in [Process -> State \cup {None, Opened}]
    BY <2>1
  <2>3. pc \in [Process -> Step]
    BY <2>1 DEF Step
  <2>4. script \in [Process -> 1 .. 6] /\ stmt \in [Process -> Nat]
        /\ goal \in [Process -> {1, 6}]
    BY <2>1
  <2> QED
    BY <1>4, <2>1, <2>2, <2>3, <2>4 DEF SchemaTypes
<1>9. Alone
  BY DEF Init, Alone, Writes
<1>10. \A p \in Process : ProcessInv(p)
  BY DEF Init, ProcessInv, PriorInv, InScript, Underway, ReadyInv, BeginInv, StatementInv,
    CommitInv, At
<1> QED
  BY <1>7, <1>8, <1>9, <1>10 DEF Order

\* While no failed script has been committed, the database is sound, one process writes,
\* and each has behind it what its place in the loop promises.
THEOREM MigrationInvHolds == Spec => []MigrationInv
<1>1. Init => MigrationInv
  BY InitHolds DEF MigrationInv
<1>2. MigrationInv /\ [Next]_vars => MigrationInv'
  <2> SUFFICES ASSUME MigrationInv, [Next]_vars, ~halfDone' PROVE Order'
    BY DEF MigrationInv
  <2>1. ~halfDone /\ Order
    BY OnceHalfDone DEF MigrationInv
  <2>2. CASE Next
    BY <2>1, <2>2, NextKeeps
  <2>3. CASE UNCHANGED vars
    BY <2>1, <2>3 DEF vars, Order, SchemaTypes, DbInv, Alone, Sound, ProcessInv, PriorInv,
      InScript, Underway, ReadyInv, BeginInv, StatementInv, CommitInv, At, Writes
  <2> QED
    BY <2>2, <2>3
<1> QED
  BY <1>1, <1>2, PTL DEF Spec

\* The version that is committed never promises what is not there, and a start that returns
\* leaves the whole schema with the queue converted once (apply_all_migrations), for any
\* number of processes, from any version, however starts are cut off or repeated, unless a
\* failed script was committed.
THEOREM VersionIsEarnedHolds == Spec => []VersionIsEarned
<1>1. MigrationInv => VersionIsEarned
  <2> SUFFICES ASSUME Order, ~halfDone PROVE VersionIsEarned
    BY DEF MigrationInv, VersionIsEarned
  <2>1. MadeBefore(db.version + 1) \subseteq db.objects
    BY DEF Order, DbInv
  <2>2. ASSUME NEW p \in Process, At(p, "ready"), goal[p] = Latest, ~Writes(p)
        PROVE  Complete
    <3>1. MadeBefore(7) \subseteq db.objects
      BY <2>2, MigrationsAre DEF Order, ProcessInv, ReadyInv
    <3>2. "review_events" \in MadeBefore(7)
      <4>1. Made(4) \subseteq MadeBefore(7)
        BY MadeBeforeIs
      <4> QED
        BY <4>1, MadeIs
    <3>3. db.objects \subseteq MadeBefore(7)
          /\ db.converted = IF "review_events" \in db.objects THEN 1 ELSE 0
      BY DEF Order, DbInv, Sound
    <3>4. Latest + 1 = 7
      BY MigrationsAre
    <3> QED
      BY <3>1, <3>2, <3>3, <3>4 DEF Complete
  <2> QED
    BY <2>1, <2>2 DEF VersionIsEarned
<1> QED
  BY <1>1, MigrationInvHolds, PTL

\* Nothing of the schema that is committed goes away, the old queue does not stay and rows
\* are converted once, whoever starts or is cut off (the scripts' CREATE, their
\* transactions, and SQLite's one writer).
THEOREM NothingIsTakenAwayHolds == Spec => NothingIsTakenAway
<1>1. MigrationInv /\ [Next]_vars =>
        [~halfDone' => /\ db.objects \subseteq db'.objects
                       /\ db'.converted <= 1
                       /\ "promotion_queue_v3" \notin db'.objects]_db
  <2> SUFFICES ASSUME MigrationInv, [Next]_vars, ~halfDone', db' # db
               PROVE  /\ db.objects \subseteq db'.objects
                      /\ db'.converted <= 1
                      /\ "promotion_queue_v3" \notin db'.objects
    OBVIOUS
  <2>1. Order /\ Next
    BY OnceHalfDone DEF MigrationInv, vars
  <2>2. Order' /\ db.objects \subseteq db'.objects
    BY <2>1, NextKeeps
  <2>3. db'.converted \in {0, 1} /\ db'.objects \subseteq MadeBefore(7)
    BY <2>2 DEF Order, DbInv, Sound
  <2> QED
    BY <2>2, <2>3, NeverMade
<1> QED
  BY <1>1, MigrationInvHolds, PTL DEF Spec, NothingIsTakenAway

\* A start can only get stuck between ADD COLUMN and user_version of script 002, or when a
\* late process, or apply_schema_v0, has set the version back, or a failed script was
\* committed.
THEOREM StuckIsExplainedHolds == Spec => []StuckIsExplained
<1>1. MigrationInv => StuckIsExplained
  <2> SUFFICES ASSUME Order, Stuck, ~setBack PROVE db.version = 1
    BY DEF MigrationInv, StuckIsExplained
  <2>1. db.version \in 0 .. 6
    BY StateIs DEF Order, SchemaTypes
  <2>2. PICK k \in db.version + 1 .. 6 : New(k) \cap db.objects # {}
    BY MigrationsAre DEF Stuck, New
  <2>3. k \in 1 .. 6 /\ db.version >= (IF k = 2 THEN 1 ELSE k)
    BY <2>1, <2>2 DEF Order, DbInv
  <2> QED
    BY <2>1, <2>2, <2>3
<1> QED
  BY <1>1, MigrationInvHolds, PTL
=============================================================================
