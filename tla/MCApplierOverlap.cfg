SPECIFICATION Spec
CONSTANTS
  w1 = w1
  w2 = w2
  n1 = n1
  n2 = n2
  nMerge = nMerge
  nSyntax = nSyntax
  d1 = d1
  d2 = d2
  dBad = dBad
  Absent = Absent
  NoRules = NoRules
  Down = Down
  NoJob = NoJob
  Workers <- TwoWorkers
  NftTexts <- GoodNft
  PreOk <- GoodNft
  FullOk <- GoodNft
  DnsTexts <- TwoDns
  DnsOk <- OneDns
  Seconds <- OneSecond
  Overlap = TRUE
  EditDuringApply = TRUE
  Drifts = FALSE
  Faults = FALSE
  FreshInstall = FALSE
  PreCheckRuns = TRUE
INVARIANTS
KernelMatchesDisk
DnsMatchesDisk
SYMMETRY
WorkerSymmetry
