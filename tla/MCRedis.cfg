SPECIFICATION FairSpec
CONSTANTS
  a1 = a1
  s1 = s1
  Ctxs = {c1, c2}
  NoCtx = NoCtx
  Clients = {a1, s1}
  Nobody = Nobody
  Sync = {s1}
  Pooling <- PoolingOf
  Setups = {1}
  MaxCmds = 2
  MaxSent = 2
INVARIANTS
  OneOwner PoolTimers CommandsOwned
PROPERTIES
  RequestsEnd PoolDrains LeaseSpec
