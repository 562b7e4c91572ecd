\* Two artifacts in a batch, exports repeated.
CONSTANTS
  NoCorrection = NoCorrection
  Artifact = {a1, a2}
  Migrated = {}
  Correction = {fix}
  MaxRevision = 2
  Reviewer = {p1}
  Exporter = {e1}
  ListLimit = 2
  Statuses <- ExportPath
  Disruptions = {}
SPECIFICATION RepeatedExportSpec
PROPERTIES
  ApprovedIsExported
