SPECIFICATION Spec
CONSTANTS
  Items <- LevelItems
  NoItem = NoItem
  NBuckets <- LevelNBuckets
  BStage <- LevelBStage
  BItems <- LevelBItems
  Bucket <- LevelBucket
  Type <- LevelType
  Flags <- LevelFlags
  Deps <- LevelDeps
  Rdeps <- LevelRdeps
  RuleKind <- AllLua
  Conditional = {}
  SlowItems = {"p2", "f"}
  RuleOps <- Disabling
  MaxOps = 4
  MaxRecursion = 20
  Requested <- AllStages
  HasTimeout = TRUE
  AutoLearn = FALSE
  SoftRejectOnTimeout = FALSE
  ShutdownWorkaround = FALSE
INVARIANTS
  TypeOK
  BucketAccounting
  InflightAccounting
  CurItemAttribution
  NoAbort
PROPERTIES
  LevelBarrier
  DepsBeforeStart
