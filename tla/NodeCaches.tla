---- MODULE NodeCaches ----
(***************************************************************************)
(* Three caches that are kept beside the best chain of ChainState and that *)
(* nothing in it but SetBestChain knows of:                                *)
(*   - the last answer of FindBlockByHeight;                               *)
(*   - the hashes GetBlockHash has looked up for floatingcity ranks;       *)
(*   - the sizes of the last blocks, from which ConnectBlock computes the  *)
(*     block size limit (BlockSizeCalculator).                             *)
(* The hashes are looked up by threads that do not hold cs_main, while     *)
(* SetBestChain moves pindexBest.  A block that waited among the orphans   *)
(* was tested against an earlier limit, so AcceptBlock tests no size;      *)
(* ConnectBlock does.                                                      *)
(***************************************************************************)
EXTENDS ChainState, SequencesExt

CONSTANTS
  BlockSize,           \* serialised size of each block
  NUM_BLOCKS_FOR_MEDIAN_BLOCK,
  MIN_BLOCK_SIZE,
  InitialLimit,        \* MAX_BLOCK_SIZE when the process starts
  UIntMax,             \* the largest unsigned int
  Thread               \* threads that rank floatingcities

(* CheckBlock refuses a block without transactions. *)
ASSUME CacheAssumption ==
  /\ BlockSize \in [Block -> Nat]
  /\ {MIN_BLOCK_SIZE, InitialLimit, UIntMax, NUM_BLOCKS_FOR_MEDIAN_BLOCK}
        \subseteq Nat \ {0}
  /\ \A b \in Block \ {Genesis} : Vtx[b] # <<>>

VARIABLES
  pblockindexFBBHLast,  \* FindBlockByHeight's last answer
  mapCacheBlockHashes,  \* by height, None where there is no entry
  nBlockHeight,         \* of each thread in GetBlockHash: what it looks for,
  BlockReading,         \* and the best block it has read; None outside
  blocksizes, sorted,   \* the window of sizes; has it ever been sorted?
  MAX_BLOCK_SIZE,
  \* history of this process, read by the properties only
  disturbed,    \* a block was disconnected or did not connect
  overtaken,    \* pindexBest was assigned while a thread was in GetBlockHash
  limited       \* a limit has been computed

hashes == <<mapCacheBlockHashes, nBlockHeight, BlockReading>>
sizes == <<blocksizes, sorted, MAX_BLOCK_SIZE, limited>>
caches == <<pblockindexFBBHLast, hashes, sizes>>
cvars == <<vars, caches, disturbed, overtaken>>

Heights == { Height[b] + 1 : b \in Block }
NoHashes == [n \in Heights |-> None]

CacheInit ==
  /\ Init
  /\ pblockindexFBBHLast = None
  /\ mapCacheBlockHashes = NoHashes
  /\ nBlockHeight = [t \in Thread |-> 0] /\ BlockReading = [t \in Thread |-> None]
  /\ blocksizes = <<>> /\ sorted = FALSE /\ MAX_BLOCK_SIZE = InitialLimit
  /\ disturbed = FALSE /\ overtaken = FALSE /\ limited = FALSE

-----------------------------------------------------------------------------
Ancestor(b, h) == CHOOSE a \in Branch[b] : Height[a] = h
Distance(h, b) == IF Height[b] > h THEN Height[b] - h ELSE h - Height[b]

(* Where FindBlockByHeight starts to walk: the genesis block or pindexBest, *)
(* or its last answer if that is nearer.                                    *)
WalkFrom(h) ==
  LET near == IF h < Height[pindexBest] \div 2 THEN Genesis ELSE pindexBest
  IN  IF pblockindexFBBHLast # None
           /\ Distance(h, near) > Distance(h, pblockindexFBBHLast)
        THEN pblockindexFBBHLast ELSE near

(* The blocks on the way up along pnext, None from where it is null. *)
Upward(next, from) ==
  LET up[n \in Nat] == IF n = 0 THEN from
                         ELSE IF up[n - 1] = None THEN None ELSE next[up[n - 1]]
  IN  up

(* Down along pprev, or up along pnext; None if pnext is null on the way,   *)
(* where the process would end.                                             *)
FindBlockByHeight(h) ==
  LET from == WalkFrom(h)
  IN  IF Height[from] >= h THEN Ancestor(from, h)
                           ELSE Upward(pnext, from)[h - Height[from]]

(* RPC and wallet ask for a block of the best chain. *)
QueryByHeight(h) ==
  /\ pc = "idle"
  /\ h =< Height[pindexBest]
  /\ pblockindexFBBHLast' = FindBlockByHeight(h)
  /\ UNCHANGED <<vars, hashes, sizes, disturbed, overtaken>>

(* How many blocks below pindexBest GetBlockHash takes the hash for height  *)
(* h: that of the block before h.  The fault: the block itself.             *)
BlocksAgoFault(h) == Height[pindexBest] - h
BlocksAgo(h) == Height[pindexBest] + 1 - h

(* GetBlockHash for a height that is not cached, 0 standing for the best    *)
(* height.  It reads pindexBest several times, without cs_main.  What it    *)
(* reads up to BlockReading counts as one step: a height that is stale by   *)
(* then is one that could have been asked for.                              *)
GetBlockHash(t, n) ==
  LET h == IF n = 0 THEN Height[pindexBest] ELSE n
  IN  /\ pc # "down"
      /\ BlockReading[t] = None
      /\ Height[pindexBest] > 0
      /\ mapCacheBlockHashes[h] = None
      /\ nBlockHeight' = [nBlockHeight EXCEPT ![t] = h]
      /\ BlockReading' = [BlockReading EXCEPT ![t] = pindexBest]
      /\ UNCHANGED <<vars, pblockindexFBBHLast, mapCacheBlockHashes, sizes, disturbed,
                     overtaken>>

(* The rest of it: nBlocksAgo, from pindexBest as it is now, and the walk   *)
(* down from BlockReading, which reads nothing that changes.  The genesis   *)
(* block is never returned; if nBlocksAgo is negative, the function returns *)
(* before or the assertion ends the process (CachedCrash).                  *)
CacheBlockHash(t) ==
  LET h       == nBlockHeight[t]
      reading == BlockReading[t]
  IN  /\ pc # "down"
      /\ reading # None
      /\ mapCacheBlockHashes' =
           IF BlocksAgo(h) \in 0..(Height[reading] - 1)
             THEN [mapCacheBlockHashes EXCEPT
                     ![h] = Ancestor(reading, Height[reading] - BlocksAgo(h))]
             ELSE mapCacheBlockHashes
      /\ nBlockHeight' = [nBlockHeight EXCEPT ![t] = 0]
      /\ BlockReading' = [BlockReading EXCEPT ![t] = None]
      /\ UNCHANGED <<vars, pblockindexFBBHLast, sizes, disturbed, overtaken>>

-----------------------------------------------------------------------------
(* The size GetBlockSize reads before a block.  It opens it in              *)
(* blocks/blkNNNNN.dat (GetBlockPosFilename), while AppendBlockFile writes  *)
(* blocks to blkNNNN.dat (BlockFilePath): the file it makes stays empty,    *)
(* nothing is read, and size keeps its initial value.                       *)
GetBlockSize(b) == 0

(* std::lower_bound, as the number of elements before the insertion. *)
LowerBound(s, x) == Cardinality({ i \in 1..Len(s) : s[i] < x })

(* The height of the block that leaves the window when b enters it. *)
FirstBlock(b) == Height[b] - NUM_BLOCKS_FOR_MEDIAN_BLOCK

(* GetBlockSizes, when b is being connected. *)
Slid(b) ==
  LET oldest == GetBlockSize(FindBlockByHeight(FirstBlock(b)))
      rest   == RemoveFirst(blocksizes, oldest)
  IN  IF ~ Contains(blocksizes, oldest)
        THEN blocksizes
        ELSE InsertAt(rest, LowerBound(rest, GetBlockSize(b)) + 1, GetBlockSize(b))
Filled(b) ==
  [n \in 1..NUM_BLOCKS_FOR_MEDIAN_BLOCK |-> GetBlockSize(Ancestor(b, Height[b] - n + 1))]
SlidesAt(b) == Height[b] >= NUM_BLOCKS_FOR_MEDIAN_BLOCK /\ blocksizes # <<>>
GetBlockSizes(b) ==
  IF Height[b] < NUM_BLOCKS_FOR_MEDIAN_BLOCK THEN blocksizes
    ELSE IF blocksizes = <<>> THEN Filled(b) ELSE Slid(b)

(* std::sort *)
Rearranged(s) ==
  { [i \in 1..Len(s) |-> s[p[i]]] : p \in Bijection(1..Len(s), 1..Len(s)) }
Ascending(s) == CHOOSE t \in Rearranged(s) : IsSorted(t, =<)
SortOnce(s) == IF sorted THEN s ELSE Ascending(s)

(* GetMedianBlockSize of a window, 0 if it is not full. *)
MedianOf(s) ==
  LET n == Len(s)
  IN  IF n # NUM_BLOCKS_FOR_MEDIAN_BLOCK THEN 0
        ELSE IF n % 2 = 1 THEN s[n \div 2 + 1]
               ELSE (s[n \div 2] + s[n \div 2 + 1]) \div 2

(* ComputeBlockSize: twice the median, in unsigned arithmetic. *)
LimitFrom(median) ==
  LET twice   == (2 * median) % (UIntMax + 1)
      clamped == IF twice < median THEN UIntMax ELSE twice
  IN  IF clamped < MIN_BLOCK_SIZE THEN MIN_BLOCK_SIZE ELSE clamped

(* The first half of ConnectBlock, for the block b after cursor: CheckBlock *)
(* with the limit of the moment, the new limit, and then the first          *)
(* transaction.                                                             *)
StartConnect ==
  /\ pc = "connect" /\ cursor # target /\ nTx = 0
  /\ LET b == ChildToward(cursor, target)
     IN  IF BlockSize[b] > MAX_BLOCK_SIZE
           THEN /\ Abort
                /\ disturbed' = TRUE
                /\ UNCHANGED <<memory, db, pindexNew, target, mode, crashes, caches,
                               overtaken>>
           ELSE /\ ConnectTx
                /\ SlidesAt(b) => FindBlockByHeight(FirstBlock(b)) # None
                /\ pblockindexFBBHLast' = IF SlidesAt(b)
                                            THEN FindBlockByHeight(FirstBlock(b))
                                            ELSE pblockindexFBBHLast
                /\ blocksizes' = SortOnce(GetBlockSizes(b))
                /\ sorted' = TRUE
                /\ MAX_BLOCK_SIZE' = LimitFrom(MedianOf(blocksizes'))
                /\ limited' = TRUE
                /\ disturbed' = (disturbed \/ pc' # "connect")
                /\ UNCHANGED <<hashes, overtaken>>

(* "New best block" also forgets FindBlockByHeight's last answer.  The      *)
(* fault: it does not.                                                      *)
AfterNewBestFault == pblockindexFBBHLast
AfterNewBest == None

(* The steps of ChainState that read and write none of the caches.  Loose   *)
(* transactions have no part in them.                                       *)
ChainStep ==
  /\ \/ \E b \in Block \ {Genesis} : AcceptBlock(b)
     \/ SetBestChain
     \/ DisconnectBlock
     \/ nTx > 0 /\ ConnectTx
     \/ ConnectBlock
     \/ Commit
     \/ ResurrectTx
     \/ DeleteTx
     \/ ConnectFurther
     \/ LoadBlockIndex
  /\ disturbed' = \/ disturbed
                  \/ pc = "disconnect"
                  \/ pc = "connect" /\ pc' \in {"idle", "newbest"}
  /\ UNCHANGED <<caches, overtaken>>

CachedNewBest ==
  /\ NewBest
  /\ pblockindexFBBHLast' = AfterNewBest
  /\ overtaken' = (overtaken \/ \E t \in Thread : BlockReading[t] # None)
  /\ UNCHANGED <<hashes, sizes, disturbed>>

(* All three caches, and the threads, end with the process. *)
CachedCrash ==
  /\ Crash
  /\ pblockindexFBBHLast' = None
  /\ mapCacheBlockHashes' = NoHashes
  /\ nBlockHeight' = [t \in Thread |-> 0] /\ BlockReading' = [t \in Thread |-> None]
  /\ blocksizes' = <<>> /\ sorted' = FALSE /\ MAX_BLOCK_SIZE' = InitialLimit
  /\ disturbed' = FALSE /\ overtaken' = FALSE /\ limited' = FALSE

CacheNext ==
  \/ ChainStep
  \/ StartConnect
  \/ CachedNewBest
  \/ CachedCrash
  \/ \E h \in {0} \cup Heights : QueryByHeight(h) \/ \E t \in Thread : GetBlockHash(t, h)
  \/ \E t \in Thread : CacheBlockHash(t)

CacheSpec == CacheInit /\ [][CacheNext]_cvars

-----------------------------------------------------------------------------
(* FindBlockByHeight finds the block of the best chain at every height of   *)
(* it whenever cs_main is free, however the chain was reorganised since its *)
(* last answer, and never follows a null pnext.                             *)
FindsBestChain ==
  pc = "idle" => \A h \in 0..Height[pindexBest] :
                   FindBlockByHeight(h) = Ancestor(pindexBest, h)

(* "Deterministically calculate a given score for a floatingcity"           *)
(* (CalculateScore): as long as no block was disconnected, every hash that  *)
(* GetBlockHash has cached for a height is that of a block below it in the  *)
(* best chain, and of the block just below it if pindexBest never moved     *)
(* under a thread, so that all such nodes rank by the same hash.            *)
HashesOfBestChain ==
  ~ disturbed => \A h \in Heights :
    LET b == mapCacheBlockHashes[h]
    IN  b # None => /\ b \in Branch[pindexBest] \ {Genesis}
                    /\ Height[b] < h
                    /\ ~ overtaken => Height[b] = h - 1

(* The last NUM_BLOCKS_FOR_MEDIAN_BLOCK blocks of the chain that ends in b. *)
LastBlocks(b) ==
  { a \in ConnectedBlocks(b) : Height[a] + NUM_BLOCKS_FOR_MEDIAN_BLOCK > Height[b] }

(* The median of the sizes of the blocks B, one of them being no larger     *)
(* than half of them and no smaller than the other half; B is odd.          *)
MedianSize(B) ==
  CHOOSE x \in { BlockSize[b] : b \in B } :
    /\ 2 * Cardinality({ b \in B : BlockSize[b] < x }) < Cardinality(B)
    /\ 2 * Cardinality({ b \in B : BlockSize[b] > x }) < Cardinality(B)

(* The limit that ComputeBlockSize gives after the block b. *)
LimitAfter(b) ==
  IF Height[b] < NUM_BLOCKS_FOR_MEDIAN_BLOCK THEN MIN_BLOCK_SIZE
    ELSE LimitFrom(MedianSize(LastBlocks(b)))

(* MAX_BLOCK_SIZE follows the sizes of the last blocks, as main.h has it    *)
(* ("the computation of median block size"), in a node in which no block    *)
(* was disconnected or failed.                                              *)
LimitFollowsMedian ==
  pc = "idle" /\ ~ disturbed /\ limited => MAX_BLOCK_SIZE = LimitAfter(pindexBest)

====
