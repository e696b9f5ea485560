\* One crash, and a block that does not connect above one that does.
SPECIFICATION Spec
CHECK_DEADLOCK FALSE
CONSTANTS
  g = g
  a1 = a1
  a2 = a2
  a3 = a3
  b1 = b1
  b2 = b2
  b3 = b3
  c2 = c2
  x2 = x2
  x3 = x3
  y1 = y1
  k1 = k1
  k2 = k2
  k3 = k3
  s = s
  tt = tt
  u = u
  v = v
  w = w
  None = None
  Block = {g, a1, a2, a3}
  Genesis = g
  Parent <- ParentOf
  Branch <- BranchOf
  Height <- HeightOf
  ChainTrust <- TrustOf
  Tx <- AllTxs
  Vtx <- VtxOf
  CoinBase = {k1, k2, k3}
  CoinStake = {s}
  OutPoint <- AllOutPoints
  OutTx <- OutTxOf
  Inputs <- InputsOf
  Kernel <- KernelOf
  BadBlock = {a3}
  Standard <- AllTxs
  nCoinbaseMaturity = 1
  nCheckpointSpan = 2
  nStakeMinConfirmations = 1
  TotalBlocksEstimate = 0
  MaxCrash = 1
INVARIANTS
  MemoryMatchesDisk
