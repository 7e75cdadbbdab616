SPECIFICATION FairSpec
CONSTANTS
  w1 = w1
  w2 = w2
  n1 = n1
  n2 = n2
  nMerge = nMerge
  nSyntax = nSyntax
  d1 = d1
  d2 = d2
  dBad = dBad
  Absent = Absent
  NoRules = NoRules
  Down = Down
  NoJob = NoJob
  Workers <- OneWorker
  NftTexts <- AllNft
  PreOk <- PreNft
  FullOk <- GoodNft
  DnsTexts <- TwoDns
  DnsOk <- OneDns
  Seconds <- Clock
  Overlap = FALSE
  EditDuringApply = FALSE
  Drifts = TRUE
  Faults = FALSE
  FreshInstall = FALSE
  PreCheckRuns = TRUE
INVARIANTS
DiskDeployableWhenIdle
CleanMeansLive
PROPERTIES
EveryApplyEnds
ImplementsAtomicApply
