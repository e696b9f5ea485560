------------------------------ MODULE ChainState ------------------------------
(***************************************************************************)
(* One node's best chain: the block index, the database and the memory     *)
(* pool, from AcceptBlock down to the commit of a reorganisation.          *)
(*                                                                         *)
(* Everything here runs under cs_main, so no other thread sees a           *)
(* half-done update.  What can cut an update short is the end of the       *)
(* process: the database then has what was committed and memory is gone.   *)
(* A step of this module therefore does at most one commit, and the steps  *)
(* between two commits work on the batch of the open transaction.          *)
(***************************************************************************)
EXTENDS MemPool

CONSTANTS
  nCheckpointSpan,         \* Checkpoints::nCheckpointSpan
  nStakeMinConfirmations,  \* confirmations before coins are staked
  TotalBlocksEstimate,     \* height of the last hardened checkpoint
  MaxCrash                 \* bound: how often the process ends

ASSUME ChainAssumption ==
  /\ nCheckpointSpan \in Nat
  /\ nStakeMinConfirmations \in Nat \ {0}
  /\ TotalBlocksEstimate \in Nat
  /\ MaxCrash \in Nat

VARIABLES
  \* memory
  mapBlockIndex,  \* the blocks in the block index
  pnext,          \* CBlockIndex::pnext
  pindexBest,     \* end of the best chain (hashBestChain, nBestHeight and
                  \* nBestChainTrust are always assigned with it)
  mempool,        \* the memory pool
  \* txleveldb, as committed
  dbIndex,        \* blocks with a "blockindex" record
  dbNext,         \* hashNext of those records
  dbBest,         \* "hashBestChain"
  dbPos, dbSpent, \* the "tx" records
  \* what the open transaction reads and writes; the committed values if
  \* there is none (CTxDB::Read looks into activeBatch first)
  batchNext, batchPos, batchSpent,
  \* control state of SetBestChain
  pc,             \* what the node does next
  pindexNew,      \* the block SetBestChain was called for
  target,         \* where the open transaction takes the chain
  cursor,         \* the block whose chain the batch has reached,
  nTx,            \* and how many transactions of the block after it
  mode,           \* "inner": SetBestChainInner on pindexNew,
                  \* "reorg": Reorganize to pindexIntermediate,
                  \* "further": SetBestChainInner on a postponed block
  vResurrect,     \* loose transactions of the disconnected blocks
  vDelete,        \* transactions of the connected blocks
  crashes         \* how often the process has ended

memory == <<mapBlockIndex, pnext, pindexBest, mempool>>
db     == <<dbIndex, dbNext, dbBest, dbPos, dbSpent>>
batch  == <<batchNext, batchPos, batchSpent>>
queues == <<vResurrect, vDelete>>
work   == <<pindexNew, target, cursor, nTx, mode, queues>>
vars   == <<memory, db, batch, work, pc, crashes>>

-----------------------------------------------------------------------------
NoNext == [b \in Block |-> None]

(* After LoadBlockIndex on an empty database: the genesis block is indexed  *)
(* and is the best chain.                                                   *)
Init ==
  /\ mapBlockIndex = {Genesis} /\ pnext = NoNext /\ pindexBest = Genesis
  /\ mempool = EmptyPool
  /\ dbIndex = {Genesis} /\ dbNext = NoNext /\ dbBest = Genesis
  /\ dbPos = NoTxIndexed /\ dbSpent = NothingSpent
  /\ batchNext = NoNext /\ batchPos = NoTxIndexed /\ batchSpent = NothingSpent
  /\ pc = "idle" /\ pindexNew = Genesis /\ target = Genesis
  /\ cursor = Genesis /\ nTx = 0 /\ mode = "inner"
  /\ vResurrect = <<>> /\ vDelete = <<>>
  /\ crashes = 0

(* AutoSelectSyncCheckpoint walks back from pindexBest while the block is   *)
(* within the span; CheckSync rejects a block at or below it.               *)
CheckSync(b) == Height[b] + nCheckpointSpan > Height[pindexBest] /\ Height[b] > 0

(* CheckProofOfStake looks the staked coins up in the index of the current  *)
(* best chain, and then for the block that holds them in the last blocks of *)
(* the branch of b.                                                         *)
CheckProofOfStake(b) ==
  IsProofOfStake(b) =>
    LET pos == dbPos[OutTx[Kernel[Vtx[b][2]]]]
    IN  /\ pos # None
        /\ ~ IsConfirmedInNPrevBlocks(pos, Parent[b], nStakeMinConfirmations - 1)

(* The tests of AcceptBlock that depend on the chain.  The fault: a block   *)
(* without its parent gets through.                                         *)
AcceptTestsFault(b) == CheckProofOfStake(b) /\ CheckSync(b)
AcceptTests(b) ==
  /\ Parent[b] \in mapBlockIndex
  /\ CheckProofOfStake(b)
  /\ CheckSync(b)

(* AddToBlockIndex calls SetBestChain only for more trust than the best     *)
(* chain has.  The fault: as much is enough.                                *)
MoreTrustFault(b) == ChainTrust[b] >= ChainTrust[pindexBest]
MoreTrust(b) == ChainTrust[b] > ChainTrust[pindexBest]

(* AcceptBlock for a block whose parent is known, up to the commit of its   *)
(* index record in AddToBlockIndex; then SetBestChain if it has more trust. *)
AcceptBlock(b) ==
  /\ pc = "idle"
  /\ b \notin mapBlockIndex
  /\ AcceptTests(b)
  /\ mapBlockIndex' = mapBlockIndex \cup {b}
  /\ dbIndex' = dbIndex \cup {b}
  /\ dbNext' = [dbNext EXCEPT ![b] = None]
  /\ batchNext' = [batchNext EXCEPT ![b] = None]
  /\ IF MoreTrust(b)
       THEN pc' = "setbest" /\ pindexNew' = b
       ELSE UNCHANGED <<pc, pindexNew>>
  /\ UNCHANGED <<pnext, pindexBest, mempool, dbBest, dbPos, dbSpent,
                 batchPos, batchSpent, target, cursor, nTx, mode,
                 queues, crashes>>

(* pindexIntermediate: going down from b, the first block whose parent has  *)
(* no more trust than the best chain.                                       *)
Intermediate(b) ==
  CHOOSE x \in Branch[b] :
    /\ x = b \/ ChainTrust[x] > ChainTrust[pindexBest]
    /\ x = Genesis \/ ChainTrust[Parent[x]] =< ChainTrust[pindexBest]

(* SetBestChain up to its first database transaction: extend the best       *)
(* chain by one block, or reorganise.                                       *)
SetBestChain ==
  /\ pc = "setbest"
  /\ IF pindexNew # Genesis /\ Parent[pindexNew] = pindexBest
       THEN target' = pindexNew /\ mode' = "inner"
       ELSE target' = Intermediate(pindexNew) /\ mode' = "reorg"
  /\ cursor' = pindexBest
  /\ pc' = IF pindexBest \in Branch[target'] THEN "connect" ELSE "disconnect"
  /\ UNCHANGED <<memory, db, batch, pindexNew, nTx, queues, crashes>>

(* The open transaction is lost, by TxnAbort or with the process.  The      *)
(* fault: its changes stay visible to the next one.                         *)
DiscardBatchFault == UNCHANGED batch
DiscardBatch == batchNext' = dbNext /\ batchPos' = dbPos /\ batchSpent' = dbSpent

(* TxnAbort.  A failure of the first transaction makes SetBestChain return  *)
(* false; a failure of a postponed block is "not fatal" and only ends the   *)
(* loop over them.                                                          *)
Abort ==
  /\ DiscardBatch
  /\ pc' = IF mode = "further" THEN "newbest" ELSE "idle"
  /\ nTx' = 0 /\ vResurrect' = <<>> /\ vDelete' = <<>>
  /\ UNCHANGED cursor

(* What Reorganize queues of a disconnected block: nothing at or below the  *)
(* last checkpoint.  That it leaves out coinbase and coinstake is modelled  *)
(* where the queue is used, in ResurrectTx.                                 *)
ToResurrect(b) == IF Height[b] > TotalBlocksEstimate THEN Vtx[b] ELSE <<>>
Resurrectable(t) == t \notin CoinBase \cup CoinStake

(* One DisconnectBlock of Reorganize, the end of the old branch first. *)
DisconnectBlock ==
  /\ pc = "disconnect"
  /\ IF CanDisconnect(cursor, batchPos)
       THEN /\ batchPos' = DisconnectPos(cursor, batchPos)
            /\ batchSpent' = DisconnectSpent(cursor, batchSpent)
            /\ batchNext' = [batchNext EXCEPT ![Parent[cursor]] = None]
            /\ cursor' = Parent[cursor]
            /\ vResurrect' = ToResurrect(cursor) \o vResurrect
            /\ UNCHANGED <<nTx, vDelete>>
            /\ pc' = IF Parent[cursor] \in Branch[target] THEN "connect"
                                                          ELSE "disconnect"
       ELSE Abort
  /\ UNCHANGED <<memory, db, pindexNew, target, mode, crashes>>

(* One round of the loop over the transactions in ConnectBlock. *)
ConnectTx ==
  /\ pc = "connect"
  /\ cursor # target
  /\ LET b == ChildToward(cursor, target)
         t == Vtx[b][nTx + 1]
     IN  /\ nTx < Len(Vtx[b])
         /\ IF InputsConnect(t, batchPos, batchSpent, b)
              THEN /\ batchPos' = ConnectPos(t, b, batchPos)
                   /\ batchSpent' = ConnectSpent(t, batchSpent)
                   /\ nTx' = nTx + 1
                   /\ UNCHANGED <<batchNext, pc, cursor, queues>>
              ELSE Abort
  /\ UNCHANGED <<memory, db, pindexNew, target, mode, crashes>>

(* The rest of ConnectBlock, for Reorganize or SetBestChainInner: the tests *)
(* of the block as a whole; then its record is rewritten from memory, its   *)
(* parent's with hashNext set.                                              *)
ConnectBlock ==
  /\ pc = "connect"
  /\ cursor # target
  /\ LET b == ChildToward(cursor, target)
     IN  /\ nTx = Len(Vtx[b])
         /\ IF b \notin BadBlock
              THEN /\ batchNext' = [batchNext EXCEPT ![b] = pnext[b], ![cursor] = b]
                   /\ cursor' = b /\ nTx' = 0
                   /\ vDelete' = vDelete \o Vtx[b]
                   /\ UNCHANGED <<batchPos, batchSpent, pc, vResurrect>>
              ELSE Abort
  /\ UNCHANGED <<memory, db, pindexNew, target, mode, crashes>>

-----------------------------------------------------------------------------
(* The two branches of the reorganisation from pindexBest to target. *)
Disconnected == Branch[pindexBest] \ Branch[target]
Connected == Branch[target] \ Branch[pindexBest]

(* CBlockIndex::pnext after the commit: the shorter branch is unlinked, the *)
(* longer one linked.  The fault: the shorter branch keeps its links.       *)
LinksAfterFault ==
  [b \in Block |-> IF \E c \in Connected : Parent[c] = b
                     THEN ChildToward(b, target) ELSE pnext[b]]
LinksAfter ==
  IF mode = "reorg"
    THEN [b \in Block |->
            IF \E c \in Connected : Parent[c] = b
              THEN ChildToward(b, target)
              ELSE IF \E d \in Disconnected : Parent[d] = b
                     THEN None ELSE pnext[b]]
    ELSE [pnext EXCEPT ![Parent[target]] = target]

(* WriteHashBestChain and TxnCommit, then the changes of pnext in memory    *)
(* that wait for it.                                                        *)
Commit ==
  /\ pc = "connect"
  /\ cursor = target
  /\ dbNext' = batchNext /\ dbPos' = batchPos /\ dbSpent' = batchSpent
  /\ dbBest' = target
  /\ pnext' = LinksAfter
  /\ pc' = "pool"
  /\ UNCHANGED <<mapBlockIndex, pindexBest, mempool, dbIndex, batch, work,
                 crashes>>

(* "Resurrect memory transactions that were in the disconnected branch",    *)
(* against the index just committed and with pindexBest still the old tip.  *)
ResurrectTx ==
  /\ pc = "pool"
  /\ vResurrect # <<>>
  /\ LET t == Head(vResurrect)
     IN  mempool' = IF Resurrectable(t)
                      THEN AcceptToMemoryPool(mempool, t, dbPos, dbSpent, pindexBest)
                      ELSE mempool
  /\ vResurrect' = Tail(vResurrect)
  /\ UNCHANGED <<mapBlockIndex, pnext, pindexBest, db, batch, pindexNew, target,
                 cursor, nTx, mode, vDelete, pc, crashes>>

(* "Delete redundant memory transactions": Reorganize also drops what       *)
(* contradicts the connected branch, SetBestChainInner does not.            *)
DeleteTx ==
  /\ pc = "pool"
  /\ vResurrect = <<>> /\ vDelete # <<>>
  /\ LET t == Head(vDelete)
     IN  mempool' = IF mode = "reorg"
                      THEN removeConflicts(remove(mempool, t), t)
                      ELSE remove(mempool, t)
  /\ vDelete' = Tail(vDelete)
  /\ UNCHANGED <<mapBlockIndex, pnext, pindexBest, db, batch, pindexNew, target,
                 cursor, nTx, mode, vResurrect, pc, crashes>>

PoolDone == pc = "pool" /\ vResurrect = <<>> /\ vDelete = <<>>

(* The loop over vpindexSecondary, the blocks postponed by SetBestChain. *)
ConnectFurther ==
  /\ PoolDone
  /\ IF target = pindexNew
       THEN pc' = "newbest" /\ UNCHANGED <<target, cursor, mode>>
       ELSE /\ target' = ChildToward(target, pindexNew)
            /\ cursor' = target
            /\ mode' = "further"
            /\ pc' = "connect"
  /\ UNCHANGED <<memory, db, batch, pindexNew, nTx, queues, crashes>>

(* "New best block": the assignments at the end of SetBestChain. *)
NewBest ==
  /\ pc = "newbest"
  /\ pindexBest' = pindexNew
  /\ pc' = "idle"
  /\ UNCHANGED <<mapBlockIndex, pnext, mempool, db, batch, work, crashes>>

(* A loose transaction arrives from a peer or the wallet. *)
AcceptTx(t) ==
  /\ pc = "idle"
  /\ Acceptable(mempool, t, dbPos, dbSpent, pindexBest)
  /\ mempool' = AcceptToMemoryPool(mempool, t, dbPos, dbSpent, pindexBest)
  /\ UNCHANGED <<mapBlockIndex, pnext, pindexBest, db, batch, work, pc, crashes>>

-----------------------------------------------------------------------------
(* The process ends, at any point.  An open transaction is lost. *)
Crash ==
  /\ pc # "down"
  /\ crashes < MaxCrash
  /\ crashes' = crashes + 1
  /\ pc' = "down"
  /\ DiscardBatch
  /\ mempool' = EmptyPool
  /\ nTx' = 0 /\ vResurrect' = <<>> /\ vDelete' = <<>>
  /\ UNCHANGED <<mapBlockIndex, pnext, pindexBest, db, pindexNew, target,
                 cursor, mode>>

(* The hashNext a block index entry gets when LoadBlockIndex reads its      *)
(* record.  The fault: it is not restored.                                  *)
LoadedNextFault == NoNext
LoadedNext == dbNext

(* CTxDB::LoadBlockIndex at the next start.  It tests the blocks of the     *)
(* best chain again; the result depends on more than the block (the block   *)
(* size limit, the payments known so far), so any of them may fail now, and *)
(* SetBestChain then takes the chain back to the parent of the lowest.      *)
LoadBlockIndex ==
  /\ pc = "down"
  /\ mapBlockIndex' = dbIndex
  /\ pnext' = LoadedNext
  /\ pindexBest' = dbBest
  /\ \E pindexFork \in Branch[dbBest] :
       IF pindexFork = dbBest
         THEN pc' = "idle" /\ UNCHANGED pindexNew
         ELSE pc' = "setbest" /\ pindexNew' = pindexFork
  /\ UNCHANGED <<mempool, db, batch, target, cursor, nTx, mode,
                 queues, crashes>>

(* What a call of SetBestChain still has to do. *)
Advance ==
  SetBestChain \/ DisconnectBlock \/ ConnectTx \/ ConnectBlock \/ Commit
    \/ ResurrectTx \/ DeleteTx \/ ConnectFurther \/ NewBest

(* One step of the node while its process runs. *)
Node ==
  \/ \E b \in Block \ {Genesis} : AcceptBlock(b)
  \/ Advance
  \/ \E t \in Tx : AcceptTx(t)

Next == Node \/ Crash \/ LoadBlockIndex

Spec == Init /\ [][Next]_vars

(* The node whose process never ends. *)
NodeSpec == Init /\ [][Node]_vars

(* SetBestChain runs in the thread that holds cs_main and waits for nobody. *)
FairNodeSpec == NodeSpec /\ WF_vars(Advance)

-----------------------------------------------------------------------------
(* Every variable has its type, and an indexed block's ancestors are        *)
(* indexed too: pprev is never null above the genesis block.                *)
TypeOK ==
  /\ mapBlockIndex \subseteq Block /\ dbIndex \subseteq Block
  /\ \A b \in mapBlockIndex : Branch[b] \subseteq mapBlockIndex
  /\ {pindexBest, pindexNew, target, cursor, dbBest} \subseteq mapBlockIndex
  /\ {pnext, dbNext, batchNext} \subseteq [Block -> Block \cup {None}]
  /\ mempool \in [mapTx : SUBSET Tx, mapNextTx : SUBSET (OutPoint \X Tx)]
  /\ {dbPos, batchPos} \subseteq [Tx -> Block \cup {None}]
  /\ {dbSpent, batchSpent} \subseteq [OutPoint -> Tx \cup {None}]
  /\ pc \in {"idle", "setbest", "disconnect", "connect", "pool",
             "newbest", "down"}
  /\ {vResurrect, vDelete} \subseteq Seq(Tx)
  /\ nTx \in Nat
  /\ mode \in {"inner", "reorg", "further"}
  /\ crashes \in 0..MaxCrash

(* The committed transaction index describes exactly the committed best     *)
(* chain: DisconnectBlock undoes what ConnectBlock did, in whatever order   *)
(* branches are left and joined, and no commit shows half of a              *)
(* reorganisation.                                                          *)
TxIndexMatchesChain == IndexMatches(dbPos, dbSpent, Occurrences(dbBest))

(* The committed best chain obeys the rules of the ledger, as they read     *)
(* without an index: nothing is spent twice, before it exists or before it  *)
(* is mature, although ConnectInputs only looks at the index.               *)
BestChainValid == ValidChain(dbBest)

(* CBlockIndex::pnext (main.h: IsInMainChain) links exactly the chain that  *)
(* ends in b.                                                               *)
LinksFollow(next, b) ==
  \A a, c \in Block : next[a] = c <=> c \in ConnectedBlocks(b) /\ Parent[c] = a

(* When no update is under way, memory and database agree on the best chain *)
(* and on the links along it ("Make sure it's successfully written to disk  *)
(* before changing memory structure", Reorganize).                          *)
MemoryMatchesDisk ==
  pc = "idle" => /\ pindexBest = dbBest
                 /\ LinksFollow(pnext, pindexBest)
                 /\ LinksFollow(dbNext, dbBest)

(* When no update is under way, no block of the index ends a valid chain    *)
(* with more trust than the best one: postponing part of a reorganisation,  *)
(* or giving one up at an invalid block, never leaves a better valid chain  *)
(* behind.                                                                  *)
MostTrustWins ==
  pc = "idle" => \A b \in mapBlockIndex :
                   ValidChain(b) => ChainTrust[b] =< ChainTrust[pindexBest]

(* The node implements the abstract ledger: the committed best chain moves  *)
(* atomically, to valid chains only, and always to more trust.              *)
L == INSTANCE TrustedChain WITH tip <- dbBest
RefinesTrustedChain == L!OnlyBetterChains

(* mapNextTx and mapTx of the memory pool agree after any sequence of       *)
(* admissions, confirmations, resurrections and removed conflicts; so no    *)
(* two transactions of the pool spend the same output.                      *)
PoolSpendsIndexed == NextTxMatches(mempool)

(* When no update is under way, the pool holds no transaction that the best *)
(* chain already contains ("Delete redundant memory transactions",          *)
(* Reorganize and SetBestChainInner).                                       *)
PoolUnconfirmed ==
  pc = "idle" => mempool.mapTx \cap ChainTxs(pindexBest) = {}

(* A block that ends a valid chain is, once indexed, sooner or later on the *)
(* best chain or beaten by one with at least its trust.                     *)
ValidChainsAdopted ==
  \A b \in Block :
    (b \in mapBlockIndex /\ ValidChain(b)) ~> ChainTrust[b] =< ChainTrust[dbBest]

(* CheckProofOfStake: "Min age requirement".  Every stake of the best chain *)
(* uses coins that have nStakeMinConfirmations confirmations in that chain. *)
StakesAged ==
  \A b \in ConnectedBlocks(dbBest) : IsProofOfStake(b) =>
    \A a \in ConnectedBlocks(dbBest) :
      OutTx[Kernel[Vtx[b][2]]] \in TxsOf(a) =>
        Height[b] >= Height[a] + nStakeMinConfirmations

(* Reorganize: "Resurrect memory transactions that were in the disconnected *)
(* branch".  A loose transaction of the disconnected branch that the new    *)
(* chain does not contain, and whose inputs are all there (unspent in the   *)
(* new chain, or created in the pool and spent by nothing else in it) is in *)
(* the pool once Reorganize is done with it.                                *)
StillSpendable(o) ==
  /\ OutTx[o] \notin CoinBase \cup CoinStake
  /\ dbSpent[o] = None
  /\ dbPos[OutTx[o]] # None \/ OutTx[o] \in mempool.mapTx
  /\ \A e \in mempool.mapNextTx : e[1] # o
DisconnectedResurrected ==
  PoolDone /\ mode = "reorg" =>
    \A d \in Disconnected : \A t \in TxsOf(d) \cap Standard :
      (/\ Resurrectable(t)
       /\ t \notin ChainTxs(target)
       /\ \A o \in Inputs[t] : StillSpendable(o))
         => t \in mempool.mapTx

=============================================================================
