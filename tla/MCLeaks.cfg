SPECIFICATION TimerSpec
CONSTANTS
  Items <- LevelItems
  NoItem = NoItem
  NBuckets <- LevelNBuckets
  BStage <- LevelBStage
  BItems <- LevelBItems
  Bucket <- LevelBucket
  Type <- LevelType
  Flags <- LevelFlags
  Deps <- LevelDeps
  Rdeps <- LevelRdeps
  RuleKind <- AllLua
  Conditional = {}
  SlowItems = {}
  RuleOps <- Leaks
  MaxOps = 3
  MaxRecursion = 20
  Requested <- AllStages
  HasTimeout = TRUE
  AutoLearn = FALSE
  SoftRejectOnTimeout = TRUE
  ShutdownWorkaround = TRUE
INVARIANTS
  NoSpin
  NoStall
  OneReply
PROPERTIES
  TimeoutEndsFilters
