\* Two overlapping processes, two messages, one renumbering.
CONSTANTS
  NoMail = NoMail
  Mail = {m1, m2}
  Malformed = {}
  Process = {p1, p2}
  PageSize = 1
  MaxUid = 2
  MaxValidity = 2
SPECIFICATION Spec
INVARIANTS
  CheckpointSkipsNothing
