\* Two processes, one of which repeats what failed without a rollback, on a new database and on those of every earlier version.
CONSTANTS
  Process = {p1, p2}
  Careless = {p1}
  None = None
  Opened = Opened
SPECIFICATION Spec
INVARIANTS
  VersionIsEarned
  StuckIsExplained
PROPERTIES
  NothingIsTakenAway
  SchemaGetsComplete
