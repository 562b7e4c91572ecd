\* One artifact, two exporters that nothing stops, files deleted by hand at any time.
CONSTANTS
  NoCorrection = NoCorrection
  Artifact = {a1}
  Migrated = {}
  Correction = {fix}
  MaxRevision = 3
  Reviewer = {p1}
  Exporter = {e1, e2}
  ListLimit = 1
  Statuses <- ExportPath
  Disruptions = {"revert"}
SPECIFICATION FairSpec
INVARIANTS
  StrayFileHasOwner
PROPERTIES
  UsesStore
  LateFileIsUnlinked
