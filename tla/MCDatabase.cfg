SPECIFICATION DatabaseSpec
CONSTANTS
  e1 = e1
  e2 = e2
  l1 = l1
  a1 = a1
  s1 = s1
  NoOne = NoOne
  Edits <- TwoEdits
  Logins <- OneLogin
  Applies <- OneApply
  Scans <- OneScan
  Processes = {"installer", "panel"}
  MaxCrashes = 2
INVARIANTS
AllOrNothing
AppliesSeeConfirmedEdits
PhantomsAreFailedEdits
RecordsAreLostWithAnEdit
UpMeansMigrated
OnlyAKillHalfMigrates
PROPERTIES
ConnectionIsReleased
ImplementsAtomicRequests
PanelComesUp
