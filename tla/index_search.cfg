SPECIFICATION SearchSpec
CONSTANTS
  Process = {p1}
  Export = {1, 2, 3}
  Identity = {"a", "b", "c", "d"}
  Meta = {1, 2, 3}
  Unstorable = {}
  Reordered = {}
  Batches <- MCBatches
  NoRow = NoRow
  None = None
  Unread = Unread
  Nobody = Nobody
  Limit = 1
  Wanted = {1, 2}
INVARIANTS
  SteadyRowsOnce
PROPERTIES
  PagingEnds
