SPECIFICATION Spec
CONSTANTS
  Sym <- HoistSym
  Late <- HoistLate
  Type <- HoistType
  Priority <- HoistPriority
  NegativeWeight <- HoistNegative
  MaxEdges = 3
  Disablable = {3}
INVARIANTS
  RdepsMatch
  HoistedByNeed
  PlanKept
  DepsFirst
PROPERTIES
  OnlyCyclesBroken
