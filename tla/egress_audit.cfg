\* Two processes, one of which makes up to two requests and one a single one; the second thread has a cassette.
CONSTANTS
  p1 = p1
  p2 = p2
  Process = {p1, p2}
  LastThread = 3
  Ineligible = {}
  Cassette = {2}
  Settings <- SettingsTried
  MaxRequests <- TwoAndOne
  Unset = Unset
SPECIFICATION Spec
INVARIANTS
  EgressIsConsented
  ResultsAreAudited
PROPERTIES
  ImplementsLedger
  CallerWorkIsLeftAlone
  OutcomeIsRecorded
