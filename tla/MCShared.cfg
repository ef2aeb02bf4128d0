SPECIFICATION FairSpec
CONSTANTS
  Items <- DiamondItems
  NoItem = NoItem
  NBuckets <- DiamondNBuckets
  BStage <- DiamondBStage
  BItems <- DiamondBItems
  Bucket <- DiamondBucket
  Type <- DiamondType
  Flags <- DiamondFlags
  Deps <- DiamondDeps
  Rdeps <- DiamondRdeps
  RuleKind <- DiamondRules
  Conditional = {}
  SlowItems = {"a", "b"}
  RuleOps <- SyncRequests
  MaxOps = 4
  MaxRecursion = 20
  Requested <- AllStages
  HasTimeout = FALSE
  AutoLearn = TRUE
  SoftRejectOnTimeout = FALSE
  ShutdownWorkaround = FALSE
INVARIANTS
  AllRun
  NothingToFinish
PROPERTIES
  ScanEnds
