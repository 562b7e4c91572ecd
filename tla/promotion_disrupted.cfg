\* One artifact, two exporters that may crash or fail to write at any step, two reviewers.
CONSTANTS
  NoCorrection = NoCorrection
  Artifact = {a1}
  Migrated = {}
  Correction = {fix}
  MaxRevision = 3
  Reviewer = {p1, p2}
  Exporter = {e1, e2}
  ListLimit = 1
  Statuses <- ExportPath
  Disruptions = {"crash", "oserror"}
SPECIFICATION PromotionSpec
INVARIANTS
  ExportedFileOnDisk
  FilesAreApproved
  ManifestIsRecorded
SYMMETRY ProcessSymmetry
PROPERTIES
  DecidedOnWhatWasSeen
