SPECIFICATION Spec
CONSTANTS
  Corpora <- MCCorpora
  Export <- MCExport
  MessageId <- MCMessageId
  Subject <- MCSubject
  Hint <- MCHint
  Absent = Absent
  Malformed = Malformed
  Null = Null
  None = None
INVARIANTS
  ThreadsAreComponents
  ConfidenceIsEarned
  DecisionsAreOwn
  SeedIsComplete
