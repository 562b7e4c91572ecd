----------------------------- MODULE IndexSearch -----------------------------
(***************************************************************************)
(* A caller pages through search results, search_messages with the cursor  *)
(* of the last row it was given, while the processes of IndexWriter sync.  *)
(* Of a row's metadata the search sees the sent date, which is what Meta   *)
(* stands for here, and whether the filters admit it.                      *)
(***************************************************************************)
EXTENDS IndexWriter

CONSTANTS
  Limit,    \* the limit given with every page
  Wanted    \* the metadata the filters admit

ASSUME SearchAssumption ==
  /\ Limit \in Nat \ {0}
  /\ Export \subseteq Nat /\ Meta \subseteq Nat /\ Wanted \subseteq Meta
  /\ IsFiniteSet(Export)
  /\ None \notin [sent : Meta, export : Export]

VARIABLES
  cursor,   \* the cursor for the next page, None for the first
  shown,    \* history: how often this caller was shown each row, up to twice
  steady,   \* history: matching rows that nothing changed since its first page
  over      \* whether the last page was empty

searchVars == <<cursor, shown, steady, over>>

Matching == {e \in Export : db.rows[e] # NoRow /\ db.rows[e].meta \in Wanted}

SearchInit ==
  /\ Init
  /\ cursor = None
  /\ shown = [e \in Export |-> 0]
  /\ steady = {}
  /\ over = TRUE

\* ORDER BY sent_at DESC, locator_export_id ASC
Before(sent, export, otherSent, otherExport) ==
  sent > otherSent \/ (sent = otherSent /\ export < otherExport)

\* Wrong: rows as old as the last one shown are not shown any more.
OlderThanCursor(e) == cursor = None \/ db.rows[e].meta < cursor.sent

\* Wrong: the row of the cursor is shown again.
FromCursorOn(e) ==
  cursor = None \/ ~Before(db.rows[e].meta, e, cursor.sent, cursor.export)

BeyondCursor(e) ==
  cursor = None \/ Before(cursor.sent, cursor.export, db.rows[e].meta, e)

Candidates == {e \in Matching : BeyondCursor(e)}

Ahead(e) == {f \in Candidates : Before(db.rows[f].meta, f, db.rows[e].meta, e)}

Page == {e \in Candidates : Cardinality(Ahead(e)) < Limit}

LastOfPage == CHOOSE e \in Page : \A f \in Page : f = e \/ f \in Ahead(e)

FirstPage ==
  /\ over
  /\ over' = FALSE
  /\ cursor' = None
  /\ shown' = [e \in Export |-> 0]
  /\ steady' = Matching
  /\ UNCHANGED vars

\* search_messages
NextPage ==
  /\ ~over
  /\ over' = (Page = {})
  /\ shown' = [e \in Export |-> IF e \in Page /\ shown[e] < 2 THEN shown[e] + 1 ELSE shown[e]]
  /\ cursor' = IF Page = {} THEN cursor
               ELSE [sent |-> db.rows[LastOfPage].meta, export |-> LastOfPage]
  /\ UNCHANGED <<vars, steady>>

Sync ==
  /\ Next
  /\ steady' = {e \in steady : db'.rows[e] = db.rows[e]}
  /\ UNCHANGED <<cursor, shown, over>>

SearchNext == FirstPage \/ NextPage \/ Sync

SearchSpec == SearchInit /\ [][SearchNext]_<<vars, searchVars>>
                /\ WF_<<vars, searchVars>>(NextPage)

----------------------------------------------------------------------------

\* "opaque result cursor for stable pagination": whatever is synced between the pages, a
\* row that matches and does not change is shown exactly once by the time a page is
\* empty, and never twice.
SteadyRowsOnce ==
  \A e \in steady :
    /\ shown[e] <= 1
    /\ over => shown[e] = 1

\* The pages come to an end, though rows are added and change while they are read: a
\* row that is shown again is one whose date was changed to an older one.
PagingEnds == (~over) ~> over
=============================================================================
