SPECIFICATION Spec
CONSTANTS
  Items <- MixedItems
  NoItem = NoItem
  NBuckets <- MixedNBuckets
  BStage <- MixedBStage
  BItems <- MixedBItems
  Bucket <- MixedBucket
  Type <- MixedType
  Flags <- MixedFlags
  Deps <- MixedDeps
  Rdeps <- MixedRdeps
  RuleKind <- MixedRules
  Conditional = {"q"}
  SlowItems = {"n"}
  RuleOps <- Settings
  MaxOps = 3
  MaxRecursion = 20
  Requested <- AllStages
  HasTimeout = FALSE
  AutoLearn = FALSE
  SoftRejectOnTimeout = FALSE
  ShutdownWorkaround = FALSE
INVARIANTS
  NoAbort
PROPERTIES
  StoppedNotStarted
