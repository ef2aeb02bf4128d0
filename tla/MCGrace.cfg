SPECIFICATION Spec
CONSTANTS
  n1 = n1
  h1 = h1
  p1 = p1
  m1 = m1
  m2 = m2
  Ups = {n1, h1, p1, m1, m2}
  NoUp = NoUp
  Kind <- KindOf
  Targets = {t1}
  NoTarget = NoTarget
  MaxTokens = 3
  RefBound = 3
  TokenBound = 2
  Sessions = {s1, s2}
  NoSession = NoSession
  Sources = {a1}
  RetryBound = 0
  TokenCost = 2
  Configs <- Lists
INVARIANT
  HeldUpstream
CHECK_DEADLOCK FALSE
