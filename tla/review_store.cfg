\* One artifact of this version and one that came through migration 004.
CONSTANTS
  NoCorrection = NoCorrection
  Artifact = {a1, a2}
  Migrated = {a2}
  Correction = {fix}
  MaxRevision = 3
SPECIFICATION Spec
INVARIANTS
  HistoryExplainsQueue
  OutboxFollowsReview
  OneContentPerKey
PROPERTIES
  OutboxLifecycle
  ImplementsLedger
CHECK_DEADLOCK FALSE
