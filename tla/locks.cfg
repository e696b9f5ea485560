\* A request that the pool does not accept locks its inputs with no vote at
\* all, and blocks are refused for it.
CHECK_DEADLOCK FALSE
SPECIFICATION Spec
CONSTANTS
  g = g
  b1 = b1
  b2 = b2
  b3 = b3
  k1 = k1
  k2 = k2
  k3 = k3
  p = p
  d = d
  c = c
  f1 = f1
  f2 = f2
  None = None
  Block = {g, b1, b2, b3}
  Genesis = g
  Parent <- ParentOf
  Branch <- BranchOf
  Height <- HeightOf
  ChainTrust <- HeightOf
  Tx = {k1, k2, k3, p, d, c}
  Vtx <- VtxOf
  CoinBase = {k1, k2, k3}
  CoinStake = {}
  OutPoint = {"k1_0", "k1_1", "p_0"}
  OutTx <- OutTxOf
  Inputs <- InputsOf
  Kernel <- NoKernels
  BadBlock = {}
  Standard = {p, d, c}
  nCoinbaseMaturity = 0
  MAX_ORPHAN_TRANSACTIONS = 1
  FloatingCity = {f1, f2}
  FirstInput <- FirstInputOf
  MinInputAge = 1
  INSTANTX_SIGNATURES_REQUIRED = 2
  Request = {p, d}
  Vote <- Votes
  Self = f1
INVARIANT
  LocksAgreed
