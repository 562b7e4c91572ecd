SPECIFICATION Spec
CONSTANTS
  Process = {p1, p2}
  Export = {1, 2}
  Identity = {"a", "b", "c"}
  Meta = {1, 2, 3}
  Unstorable = {3}
  Reordered = {}
  Batches <- MCBatches
  NoRow = NoRow
  None = None
  Unread = Unread
  Nobody = Nobody
SYMMETRY Symmetry
INVARIANTS
  PlanIsKept
  InputsAreAccounted
  IndexIsCoherent
  ReplayIsUnchanged
PROPERTIES
  ImplementsSyncLedger
