SPECIFICATION Spec
CONSTANTS
  Items <- LevelItems
  NoItem = NoItem
  NBuckets <- LevelNBuckets
  BStage <- LevelBStage
  BItems <- LevelBItems
  Bucket <- LevelBucket
  Type <- LevelType
  Flags <- LevelFlags
  Deps <- LevelDeps
  Rdeps <- LevelRdeps
  RuleKind <- AllLua
  Conditional = {}
  SlowItems = {}
  RuleOps <- NestedRequests
  MaxOps = 2
  MaxRecursion = 20
  Requested <- AllStages
  HasTimeout = TRUE
  AutoLearn = FALSE
  SoftRejectOnTimeout = FALSE
  ShutdownWorkaround = FALSE
INVARIANTS
  NothingToFinish
