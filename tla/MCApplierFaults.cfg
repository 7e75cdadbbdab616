SPECIFICATION Spec
CONSTANTS
  w1 = w1
  w2 = w2
  n1 = n1
  n2 = n2
  nMerge = nMerge
  nSyntax = nSyntax
  d1 = d1
  d2 = d2
  dBad = dBad
  Absent = Absent
  NoRules = NoRules
  Down = Down
  NoJob = NoJob
  Workers <- OneWorker
  NftTexts <- LoadNft
  PreOk <- LoadNft
  FullOk <- GoodNft
  DnsTexts <- TwoDns
  DnsOk <- OneDns
  Seconds <- OneSecond
  Overlap = FALSE
  EditDuringApply = FALSE
  Drifts = TRUE
  Faults = TRUE
  FreshInstall = TRUE
  PreCheckRuns = TRUE
INVARIANTS
TypeOK
OkMeansLive
PROPERTIES
SettledOnceApplied
