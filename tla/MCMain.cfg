SPECIFICATION FairSpec
CONSTANTS
  p1 = p1
  s1 = s1
  Pids = {p1, p2}
  First <- FirstOf
  Helpers = {x1}
  NoPid = NoPid
  Slots = {s1}
  MaxGen = 2
  LossMax = 1
  Attempts = 0
  Scripts = TRUE
  MaxConns = 1
  MaxEvents = 2
INVARIANTS
  Supervised
  SlotsKept
  ScriptsOnce
PROPERTIES
  ShutdownEnds
  HungKilled
  OldLeaves
