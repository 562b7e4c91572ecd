\* Two processes, three messages of which one is malformed, pages of one message.
CONSTANTS
  NoMail = NoMail
  Mail = {m1, m2, m3}
  Malformed = {m3}
  Process = {p1, p2}
  PageSize = 1
  MaxUid = 2
  MaxValidity = 2
SPECIFICATION Spec
INVARIANTS
  SyncedUpToCheckpoint
PROPERTIES
  CheckpointAdvances
  MailIsIndexed
