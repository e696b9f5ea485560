---- MODULE TxRelay ----
(***************************************************************************)
(* A loose transaction on its way into a node: the tx and dstx handlers    *)
(* with their orphans, the txlreq and txlvote handlers with their locks,   *)
(* the memory pool that both feed, and the blocks that confirm it.         *)
(*                                                                         *)
(* The messages are handled by one thread.  Under cs_main, blocks and      *)
(* transactions exclude each other; the thread that removes old locks      *)
(* holds no lock and may run between any two steps.  The chain only grows  *)
(* here, and the index is the one that belongs to it: that it is, is       *)
(* ChainState's subject.                                                   *)
(***************************************************************************)
EXTENDS OrphanTx, InstantX

CONSTANTS
  Request, \* the transactions that peers ask a lock for
  Vote,   \* the votes <<floatingcity, transaction, height>> that are sent
  Self    \* activeFloatingcity, None if this node is not one

ASSUME RelayAssumption ==
  /\ Request \subseteq Tx \ CoinBase
  /\ Vote \subseteq FloatingCity \X Tx \X Nat
  /\ Self \in FloatingCity \cup {None}

VARIABLES
  best,       \* pindexBest
  mempool,
  orphans,    \* see OrphanTx
  ix,         \* see InstantX
  vWorkQueue, \* of the tx handler at work, <<>> if there is none:
  tried,      \* orphans of its first element that were tried
  vEraseQueue

retry == <<vWorkQueue, tried, vEraseQueue>>
vars == <<best, mempool, orphans, ix, retry>>

Init ==
  /\ best = Genesis
  /\ mempool = EmptyPool
  /\ orphans = NoOrphanTxs
  /\ ix = NoLocks
  /\ vWorkQueue = <<>> /\ tried = {} /\ vEraseQueue = {}

(* The index of the chain that ends in a block, and in best. *)
PosAt == [b \in Block |->
            [t \in Tx |-> IF t \in ChainTxs(b)
                            THEN CHOOSE a \in ConnectedBlocks(b) : t \in TxsOf(a)
                            ELSE None]]
SpentAt == [b \in Block |->
              [o \in OutPoint |->
                 LET spenders == { t \in ChainTxs(b) : o \in Inputs[t] }
                 IN  IF spenders = {} THEN None ELSE CHOOSE t \in spenders : TRUE]]
pos == PosAt[best]
spent == SpentAt[best]

Idle == vWorkQueue = <<>>

(* AcceptToMemoryPool with the transaction locks: its two ways to fail are  *)
(* told apart by fMissingInputs.  The fault: mapNextTx is not looked at.    *)
AcceptsDoubleFault(t) ==
  LockedForOthers(ix, t) = {} /\ Acceptable([mempool EXCEPT !.mapNextTx = {}], t, pos, spent, best)
Accepts(t) == LockedForOthers(ix, t) = {} /\ Acceptable(mempool, t, pos, spent, best)
Misses(t) == LockedForOthers(ix, t) = {} /\ MissingInputs(mempool, t, pos)

(* AlreadyHave for a transaction. *)
AlreadyHave(t) ==
  t \in mempool.mapTx \/ t \in orphans.mapOrphanTransactions \/ pos[t] # None

(* The tx handler up to the loop over the orphans.  For a dstx AlreadyHave  *)
(* only asks whether a known floatingcity sent it before, which is left     *)
(* open.                                                                    *)
ReceiveTx(t, strCommand) ==
  /\ Idle
  /\ strCommand = "tx" => ~ AlreadyHave(t)
  /\ \/ /\ Accepts(t)
        /\ mempool' = addUnchecked(mempool, t)
        /\ vWorkQueue' = <<t>>
        /\ UNCHANGED orphans
     \/ /\ Misses(t)
        /\ orphans' \in LimitOrphanTxSize(AddOrphanTx(orphans, t))
        /\ UNCHANGED <<mempool, vWorkQueue>>
  /\ UNCHANGED <<best, ix, tried, vEraseQueue>>

Untried == OrphansByPrev(orphans, Head(vWorkQueue)) \ tried

(* "Recursively process any orphan transactions that depended on this one": *)
(* one round of the inner loop.                                             *)
RetryOrphan(t) ==
  /\ ~ Idle
  /\ t \in Untried
  /\ tried' = tried \cup {t}
  /\ IF Accepts(t)
       THEN /\ mempool' = addUnchecked(mempool, t)
            /\ vWorkQueue' = Append(vWorkQueue, t)
            /\ vEraseQueue' = vEraseQueue \cup {t}
       ELSE /\ vEraseQueue' = IF Misses(t) THEN vEraseQueue ELSE vEraseQueue \cup {t}
            /\ UNCHANGED <<mempool, vWorkQueue>>
  /\ UNCHANGED <<best, orphans, ix>>

(* The end of a round of the outer loop; after the last one the erase queue *)
(* is emptied.                                                              *)
NextWork ==
  /\ ~ Idle
  /\ Untried = {}
  /\ vWorkQueue' = Tail(vWorkQueue)
  /\ tried' = {}
  /\ IF Len(vWorkQueue) = 1
       THEN orphans' = EraseOrphanTxs(orphans, vEraseQueue) /\ vEraseQueue' = {}
       ELSE UNCHANGED <<orphans, vEraseQueue>>
  /\ UNCHANGED <<best, mempool, ix>>

-----------------------------------------------------------------------------
(* DisconnectBlock with a block index that was never set, and a write to a  *)
(* database opened for reading: the process ends, and a new one starts with *)
(* empty maps.                                                              *)
ProcessEnds ==
  /\ mempool' = EmptyPool
  /\ orphans' = NoOrphanTxs
  /\ ix' = NoLocks

(* The txlreq handler: a lock is made first, then the transaction goes to   *)
(* the pool.  DoConsensusVote adds the node's own vote to mapTxLockVote,    *)
(* not to the lock, if its rank allows.  The fault: the request is not      *)
(* remembered.                                                              *)
ReqAcceptedFault(i, t) == i
ReqAccepted(i, t) == [i EXCEPT !.mapTxLockReq = @ \cup {t}]
DoConsensusVote(i, t) == {i} \cup IF Self = None THEN {} ELSE {SeenVote(i, <<Self, t>>)}
ReqRejected(i, t) == LockInputs([i EXCEPT !.mapTxLockReqRejected = @ \cup {t}], t)
TxLockRequest(t) ==
  LET made == CreateNewLock(ix, t, pos, best)
      rejected == ReqRejected(made, t)
  IN  /\ Idle
      /\ t \notin ix.mapTxLockReq \cup ix.mapTxLockReqRejected
      /\ \/ /\ Accepts(t)
            /\ mempool' = addUnchecked(mempool, t)
            /\ \E voted \in DoConsensusVote(made, t) : ix' = ReqAccepted(voted, t)
            /\ UNCHANGED orphans
         \/ /\ ~ Accepts(t)
            /\ \/ /\ ~ Complete(rejected, t)
                  /\ ix' = rejected
                  /\ UNCHANGED <<mempool, orphans>>
               \/ /\ Complete(rejected, t)
                  /\ \E o \in LockedForOthers(rejected, t) : ix' = CancelBoth(rejected, t, o)
                  /\ UNCHANGED <<mempool, orphans>>
               \/ /\ Complete(rejected, t)
                  /\ LockedForOthers(rejected, t) = {}
                  /\ ProcessEnds
      /\ UNCHANGED <<best, retry>>

(* The wallet commits a transaction and asks for a lock on it. *)
WalletLockRequest(t) ==
  /\ Idle
  /\ Accepts(t)
  /\ mempool' = addUnchecked(mempool, t)
  /\ ix' = CreateNewLock(ReqAccepted(ix, t), t, pos, best)
  /\ UNCHANGED <<best, orphans, retry>>

(* mapTxLockVote tells votes apart by voter and transaction. *)
IsNewVote(v) == <<v[1], v[2]>> \notin ix.mapTxLockVote

(* The txlvote handler for a vote it has not seen.  A vote that is refused  *)
(* (unknown voter, rank, signature) is remembered all the same.  If a lock  *)
(* completes that was not accepted as a request, mapTxLockReq gives an      *)
(* empty transaction, and nothing conflicts with that.                      *)
TxLockVote(v) ==
  LET t == v[2]
      seen == SeenVote(ix, v)
      counted == AddSignature(seen, v)
      conflicts == IF t \in ix.mapTxLockReq THEN LockedForOthers(counted, t) ELSE {}
  IN  /\ Idle
      /\ IsNewVote(v)
      /\ \/ ix' = seen /\ UNCHANGED <<mempool, orphans>>
         \/ /\ ~ Complete(counted, t)
            /\ ix' = counted
            /\ UNCHANGED <<mempool, orphans>>
         \/ /\ Complete(counted, t)
            /\ \E o \in conflicts : ix' = CancelBoth(counted, t, o)
            /\ UNCHANGED <<mempool, orphans>>
         \/ /\ Complete(counted, t)
            /\ conflicts = {} /\ t \notin ix.mapTxLockReqRejected
            /\ ix' = LockInputs(counted, t)
            /\ UNCHANGED <<mempool, orphans>>
         \/ /\ Complete(counted, t)
            /\ conflicts = {} /\ t \in ix.mapTxLockReqRejected
            /\ ProcessEnds
      /\ UNCHANGED <<best, retry>>

(* Twenty minutes have passed since the lock was made. *)
LockExpires(t) ==
  /\ ix.mapTxLocks[t] # None
  /\ ~ ix.mapTxLocks[t].expired
  /\ ix' = [ix EXCEPT !.mapTxLocks[t].expired = TRUE]
  /\ UNCHANGED <<best, mempool, orphans, retry>>

CleanLocks ==
  /\ Expired(ix) # {}
  /\ ix' = CleanTransactionLocksList(ix)
  /\ UNCHANGED <<best, mempool, orphans, retry>>

(* A block extends the best chain: CheckBlock refuses it if it contradicts  *)
(* a lock, SetBestChainInner takes its transactions out of the pool, but    *)
(* not what contradicts them.                                               *)
ConnectBlock(b) ==
  /\ Idle
  /\ b # Genesis /\ Parent[b] = best
  /\ ValidChain(b)
  /\ \A t \in TxsOf(b) : LockedForOthers(ix, t) = {}
  /\ best' = b
  /\ mempool' = Without(mempool, mempool.mapTx \cap TxsOf(b))
  /\ UNCHANGED <<orphans, ix, retry>>

Loose == Tx \ CoinBase

Next ==
  \/ \E t \in Loose : \E strCommand \in {"tx", "dstx"} : ReceiveTx(t, strCommand)
  \/ \E t \in Loose : RetryOrphan(t)
  \/ NextWork
  \/ \E t \in Request : TxLockRequest(t) \/ WalletLockRequest(t)
  \/ \E t \in Tx : LockExpires(t)
  \/ \E v \in Vote : TxLockVote(v)
  \/ CleanLocks
  \/ \E b \in Block : ConnectBlock(b)

Spec == Init /\ [][Next]_vars

(* Time passes, and ThreadCheckMNenginePool removes old locks every minute. *)
FairSpec ==
  /\ Spec
  /\ \A t \in Request : WF_vars(LockExpires(t))
  /\ WF_vars(CleanLocks)

-----------------------------------------------------------------------------
(* Every variable has its type. *)
TypeOK ==
  /\ best \in Block
  /\ mempool \in [mapTx : SUBSET Tx, mapNextTx : SUBSET (OutPoint \X Tx)]
  /\ orphans \in [mapOrphanTransactions : SUBSET Tx,
                  mapOrphanTransactionsByPrev : SUBSET (Tx \X Tx)]
  /\ ix \in LockMaps
  /\ vWorkQueue \in Seq(Tx)
  /\ tried \subseteq Tx /\ vEraseQueue \subseteq Tx

(* After any sequence of arrivals, retries and evictions the two maps of    *)
(* the orphans agree (mapOrphanTransactions[orphanTxHash] would insert an   *)
(* empty transaction for an entry that points nowhere), and no more are     *)
(* kept than MAX_ORPHAN_TRANSACTIONS.                                       *)
OrphanTxsKept ==
  /\ OrphanIndexMatches(orphans)
  /\ Cardinality(orphans.mapOrphanTransactions) =< MAX_ORPHAN_TRANSACTIONS

(* "Recursively process any orphan transactions that depended on this one", *)
(* with "accepted orphan tx" for each that is taken (the tx handler): this  *)
(* says that the loop never takes any.  The parent of an orphan it tries    *)
(* has just entered the pool, so it is not in the index, where              *)
(* AcceptToMemoryPool looks for it.                                         *)
RetryAcceptsNothing == [][~ Idle => mempool' = mempool]_vars

(* The locked inputs of a request the pool accepted belong to a lock that   *)
(* enough different floatingcities voted for, at its height.                *)
AcceptedLocksAgreed ==
  \A o \in OutPoint :
    LET t == ix.mapLockedInputs[o]
    IN  t # None /\ t \notin ix.mapTxLockReqRejected => Consensus(ix, t)

(* CheckBlock: "only reject blocks when it's based on complete consensus".  *)
(* Every locked input belongs to a lock with complete consensus.            *)
LocksAgreed ==
  \A o \in OutPoint :
    ix.mapLockedInputs[o] # None => Consensus(ix, ix.mapLockedInputs[o])

(* A complete lock is that of a request this node has seen, so that         *)
(* ProcessConsensusVote never takes an empty transaction from mapTxLockReq  *)
(* for one it could lock.                                                   *)
CompleteLocksRequested ==
  \A t \in Tx :
    Complete(ix, t) => t \in ix.mapTxLockReq \cup ix.mapTxLockReqRejected

(* As long as an input is locked for an accepted request, no transaction of *)
(* the pool contradicts it, in whatever order transactions, requests, votes *)
(* and blocks come.                                                         *)
PoolRespectsLocks ==
  \A e \in mempool.mapNextTx :
    LET t == ix.mapLockedInputs[e[1]]
    IN  t # None /\ t \notin ix.mapTxLockReqRejected => e[2] = t

(* "locks expire after 20 minutes" (CreateNewLock): the inputs locked for   *)
(* an accepted request are released, all of them.                           *)
LockedFor(t) == { o \in OutPoint : ix.mapLockedInputs[o] = t }
AcceptedLocksReleased ==
  \A t \in Request :
    (LockedFor(t) # {} /\ t \notin ix.mapTxLockReqRejected) ~> LockedFor(t) = {}

====
