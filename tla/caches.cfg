\* A node that extends its chain, reorganises, fails on a block that is too
\* large, ends at any point and restarts, with queries by height and for
\* hashes in between.
\* No deadlock check: the blocks of the instance run out.
SPECIFICATION CacheSpec
CHECK_DEADLOCK FALSE
CONSTANTS
  g = g
  a1 = a1
  a2 = a2
  b2 = b2
  b3 = b3
  b4 = b4
  z1 = z1
  k1 = k1
  k2 = k2
  k3 = k3
  k4 = k4
  tt = tt
  t1 = t1
  None = None
  Block = {g, a1, a2, b2, b3, b4, z1}
  Genesis = g
  Parent <- ParentOf
  Branch <- BranchOf
  Height <- HeightOf
  ChainTrust <- TrustOf
  Tx <- AllTxs
  Vtx <- VtxOf
  CoinBase <- Coinbases
  CoinStake = {}
  OutPoint = {"k1_0"}
  OutTx <- OutTxOf
  Inputs <- InputsOf
  Kernel <- NoKernels
  BadBlock = {}
  Standard = {}
  nCoinbaseMaturity = 1
  nCheckpointSpan = 3
  nStakeMinConfirmations = 1
  TotalBlocksEstimate = 0
  MaxCrash = 1
  BlockSize <- SizeOf
  NUM_BLOCKS_FOR_MEDIAN_BLOCK = 3
  MIN_BLOCK_SIZE = 3
  InitialLimit = 8
  UIntMax = 15
  Thread = {t1}
INVARIANTS
  FindsBestChain
  HashesOfBestChain
  TxIndexMatchesChain
  MemoryMatchesDisk
