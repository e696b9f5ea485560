\* A branch with a duplicate stake, and a pool that is full with two orphans.
SPECIFICATION FairSpec
CONSTANTS
  g = g
  p1 = p1
  p2 = p2
  p3 = p3
  q2 = q2
  q3 = q3
  r3 = r3
  r4 = r4
  y3 = y3
  k1 = k1
  k2 = k2
  k3 = k3
  k4 = k4
  s2 = s2
  s3 = s3
  None = None
  Block = {g, p1, p2, p3, q2, q3, r3, r4}
  Genesis = g
  Parent <- ParentOf
  Branch <- BranchOf
  Height <- HeightOf
  ChainTrust <- HeightOf
  Tx <- AllTxs
  Vtx <- VtxOf
  CoinBase = {k1, k2, k3, k4}
  CoinStake = {s2, s3}
  OutPoint <- AllOutPoints
  OutTx <- OutTxOf
  Inputs <- InputsOf
  Kernel <- KernelOf
  StakeTime <- StakeTimeOf
  BadBlock = {}
  Rejectable = {}
  nMaxOrphanBlocks = 1
PROPERTIES
  OrphansResolved
