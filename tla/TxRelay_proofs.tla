---- MODULE TxRelay_proofs ----
(***************************************************************************)
(* Orphan transactions, for every chain, every set of transactions and     *)
(* every limit: their two maps agree, their number is bounded, and the     *)
(* retry after a transaction was accepted adds nothing to the pool.        *)
(* Transaction locks, for every set of votes: a complete one is that of a  *)
(* request the node has seen; the inputs locked for an accepted request    *)
(* have enough different voters, and nothing in the pool contradicts them. *)
(***************************************************************************)
EXTENDS TxRelay, MemPool_proofs, FiniteSetTheorems

(* The orphans are a record of two finite maps that agree.                  *)
OrphansOK(orph) ==
  /\ orph = [mapOrphanTransactions |-> orph.mapOrphanTransactions,
             mapOrphanTransactionsByPrev |-> orph.mapOrphanTransactionsByPrev]
  /\ IsFiniteSet(orph.mapOrphanTransactions)
  /\ OrphanIndexMatches(orph)

(* The loop works on the one transaction that was accepted, and this one is *)
(* in no block of the best chain.                                           *)
QueueInv ==
  vWorkQueue = <<>> \/ \E t : vWorkQueue = <<t>> /\ pos[t] = None

RetryInv ==
  /\ OrphansOK(orphans)
  /\ Cardinality(orphans.mapOrphanTransactions) =< MAX_ORPHAN_TRANSACTIONS
  /\ QueueInv

(* AddOrphanTx adds to both maps. *)
LEMMA AddKeepsIndex ==
  ASSUME NEW orph, NEW t, OrphansOK(orph)
  PROVE  OrphansOK(AddOrphanTx(orph, t))
<1> DEFINE new == AddOrphanTx(orph, t)
<1>1. CASE t \in orph.mapOrphanTransactions
  BY <1>1 DEF AddOrphanTx
<1>2. CASE t \notin orph.mapOrphanTransactions
  <2>1. /\ new.mapOrphanTransactions = orph.mapOrphanTransactions \cup {t}
        /\ new.mapOrphanTransactionsByPrev
             = orph.mapOrphanTransactionsByPrev \cup PrevEntries(t)
        /\ new = [mapOrphanTransactions |-> new.mapOrphanTransactions,
                  mapOrphanTransactionsByPrev |-> new.mapOrphanTransactionsByPrev]
    BY <1>2 DEF AddOrphanTx
  <2>2. IsFiniteSet(new.mapOrphanTransactions)
    BY <2>1, FS_AddElement DEF OrphansOK
  <2>3. OrphanIndexMatches(new)
    BY <2>1 DEF OrphansOK, OrphanIndexMatches
  <2> QED
    BY <2>1, <2>2, <2>3 DEF OrphansOK
<1> QED
  BY <1>1, <1>2

(* EraseOrphanTx takes out exactly the entries of the orphans that go: an   *)
(* entry names the orphan it belongs to.                                    *)
LEMMA EraseKeepsIndex ==
  ASSUME NEW orph, NEW D, OrphansOK(orph)
  PROVE  /\ OrphansOK(EraseOrphanTxs(orph, D))
         /\ EraseOrphanTxs(orph, D).mapOrphanTransactions
              = orph.mapOrphanTransactions \ D
<1> DEFINE new == EraseOrphanTxs(orph, D)
<1>1. /\ new.mapOrphanTransactions = orph.mapOrphanTransactions \ D
      /\ new.mapOrphanTransactionsByPrev
           = orph.mapOrphanTransactionsByPrev \ UNION { PrevEntries(t) : t \in D }
      /\ new = [mapOrphanTransactions |-> new.mapOrphanTransactions,
                mapOrphanTransactionsByPrev |-> new.mapOrphanTransactionsByPrev]
  BY DEF EraseOrphanTxs
<1>2. ASSUME NEW t, NEW u, NEW x \in PrevEntries(t), x \in PrevEntries(u)
      PROVE  t = u
  BY <1>2 DEF PrevEntries
<1>3. OrphanIndexMatches(new)
  <2>1. ASSUME NEW x \in new.mapOrphanTransactionsByPrev
        PROVE  \E t \in new.mapOrphanTransactions : x \in PrevEntries(t)
    BY <1>1 DEF OrphansOK, OrphanIndexMatches
  <2>2. ASSUME NEW t \in new.mapOrphanTransactions, NEW x \in PrevEntries(t)
        PROVE  x \in new.mapOrphanTransactionsByPrev
    <3>1. x \in orph.mapOrphanTransactionsByPrev
      BY <1>1 DEF OrphansOK, OrphanIndexMatches
    <3>2. \A u \in D : x \notin PrevEntries(u)
      BY <1>1, <1>2
    <3> QED
      BY <1>1, <3>1, <3>2
  <2> QED
    BY <2>1, <2>2 DEF OrphanIndexMatches
<1>4. IsFiniteSet(new.mapOrphanTransactions)
  <2>1. new.mapOrphanTransactions \in SUBSET orph.mapOrphanTransactions
    BY <1>1
  <2> QED
    BY <2>1, FS_Subset DEF OrphansOK
<1> QED
  BY <1>1, <1>3, <1>4 DEF OrphansOK

(* Whatever LimitOrphanTxSize evicts, no more than the limit are left. *)
LEMMA LimitKeepsIndex ==
  ASSUME NEW orph, NEW new \in LimitOrphanTxSize(orph), OrphansOK(orph)
  PROVE  /\ OrphansOK(new)
         /\ Cardinality(new.mapOrphanTransactions) =< MAX_ORPHAN_TRANSACTIONS
<1>1. PICK D \in SUBSET orph.mapOrphanTransactions :
        /\ new = EraseOrphanTxs(orph, D)
        /\ LET left == Cardinality(orph.mapOrphanTransactions \ D)
           IN  \/ D = {} /\ left =< MAX_ORPHAN_TRANSACTIONS
               \/ D # {} /\ left = MAX_ORPHAN_TRANSACTIONS
  BY DEF LimitOrphanTxSize
<1>2. /\ OrphansOK(new)
      /\ new.mapOrphanTransactions = orph.mapOrphanTransactions \ D
  BY <1>1, EraseKeepsIndex
<1> QED
  BY <1>1, <1>2, OrphanTxAssumption

(* A process starts without orphans. *)
LEMMA NoOrphansOK ==
  /\ OrphansOK(NoOrphanTxs)
  /\ Cardinality(NoOrphanTxs.mapOrphanTransactions) =< MAX_ORPHAN_TRANSACTIONS
<1>1. NoOrphanTxs.mapOrphanTransactions = {} /\ NoOrphanTxs.mapOrphanTransactionsByPrev = {}
  BY DEF NoOrphanTxs
<1>2. OrphanIndexMatches(NoOrphanTxs)
  BY <1>1 DEF OrphanIndexMatches
<1> QED
  BY <1>1, <1>2, FS_EmptySet, OrphanTxAssumption DEF OrphansOK, NoOrphanTxs

(* An orphan that is looked at again spends the transaction that was just   *)
(* accepted, which is not in the index: AcceptToMemoryPool refuses it.      *)
LEMMA RetryRefused ==
  ASSUME RetryInv, ~ Idle, NEW t \in Untried
  PROVE  ~ Accepts(t)
<1>1. PICK u : vWorkQueue = <<u>> /\ pos[u] = None
  BY DEF RetryInv, QueueInv, Idle
<1>2. Head(vWorkQueue) = u
  BY <1>1
<1>3. PICK x \in orphans.mapOrphanTransactionsByPrev : x[1] = u /\ x[2] = t
  BY <1>2 DEF Untried, OrphansByPrev
<1>4. PICK v \in orphans.mapOrphanTransactions : x \in PrevEntries(v)
  BY DEF RetryInv, OrphansOK, OrphanIndexMatches
<1>5. PICK o \in Inputs[t] : OutTx[o] = u
  BY <1>3, <1>4 DEF PrevEntries
<1>6. pos[OutTx[o]] = None
  BY <1>1, <1>5
<1> QED
  BY <1>5, <1>6 DEF Accepts, Acceptable, InputsConnect

(* The invariant holds in a new process, *)
LEMMA RetryInvInit == Init => RetryInv
<1> SUFFICES ASSUME Init PROVE RetryInv
  OBVIOUS
<1>1. orphans = NoOrphanTxs /\ vWorkQueue = <<>>
  BY DEF Init
<1> QED
  BY <1>1, NoOrphansOK DEF RetryInv, QueueInv

(* A handler that is not in the loop leaves the orphans alone, or ends the  *)
(* process.                                                                 *)
LEMMA LockStepsKeep ==
  ASSUME RetryInv, best' = best, UNCHANGED retry,
         orphans' = orphans \/ orphans' = NoOrphanTxs
  PROVE  RetryInv'
<1>1. vWorkQueue' = vWorkQueue /\ pos' = pos
  BY DEF retry, pos
<1>2. QueueInv'
  BY <1>1 DEF RetryInv, QueueInv
<1>3. CASE orphans' = orphans
  BY <1>2, <1>3 DEF RetryInv
<1>4. CASE orphans' = NoOrphanTxs
  BY <1>2, <1>4, NoOrphansOK DEF RetryInv
<1> QED
  BY <1>3, <1>4

(* and each step of the node keeps it. *)
LEMMA RetryInvNext == RetryInv /\ [Next]_vars => RetryInv'
<1> SUFFICES ASSUME RetryInv, [Next]_vars PROVE RetryInv'
  OBVIOUS
<1>1. ASSUME NEW t, NEW strCommand, ReceiveTx(t, strCommand) PROVE RetryInv'
  <2>1. pos' = pos
    BY <1>1 DEF ReceiveTx, pos
  <2>2. CASE Accepts(t) /\ vWorkQueue' = <<t>> /\ UNCHANGED orphans
    <3>1. pos[t] = None
      BY <2>2 DEF Accepts, Acceptable
    <3> QED
      BY <2>1, <2>2, <3>1 DEF RetryInv, QueueInv
  <2>3. CASE /\ orphans' \in LimitOrphanTxSize(AddOrphanTx(orphans, t))
             /\ vWorkQueue' = vWorkQueue
    <3>1. OrphansOK(AddOrphanTx(orphans, t))
      BY AddKeepsIndex DEF RetryInv
    <3>2. /\ OrphansOK(orphans')
          /\ Cardinality(orphans'.mapOrphanTransactions) =< MAX_ORPHAN_TRANSACTIONS
      BY <2>3, <3>1, LimitKeepsIndex
    <3> QED
      BY <2>1, <2>3, <3>2 DEF RetryInv, QueueInv
  <2> QED
    BY <1>1, <2>2, <2>3 DEF ReceiveTx
<1>2. ASSUME NEW t, RetryOrphan(t) PROVE RetryInv'
  <2>1. ~ Accepts(t)
    BY <1>2, RetryRefused DEF RetryOrphan
  <2>2. pos' = pos /\ vWorkQueue' = vWorkQueue /\ orphans' = orphans
    BY <1>2, <2>1 DEF RetryOrphan, pos
  <2> QED
    BY <2>2 DEF RetryInv, QueueInv
<1>3. CASE NextWork
  <2>1. vWorkQueue' = <<>>
    <3>1. PICK u : vWorkQueue = <<u>>
      BY <1>3 DEF NextWork, Idle, RetryInv, QueueInv
    <3> QED
      BY <1>3, <3>1 DEF NextWork
  <2>2. orphans' = orphans \/ orphans' = EraseOrphanTxs(orphans, vEraseQueue)
    BY <1>3 DEF NextWork
  <2>3. CASE orphans' = orphans
    BY <2>1, <2>3 DEF RetryInv, QueueInv
  <2>4. CASE orphans' = EraseOrphanTxs(orphans, vEraseQueue)
    <3>1. /\ OrphansOK(orphans')
          /\ orphans'.mapOrphanTransactions = orphans.mapOrphanTransactions \ vEraseQueue
      BY <2>4, EraseKeepsIndex DEF RetryInv
    <3>2. orphans'.mapOrphanTransactions \in SUBSET orphans.mapOrphanTransactions
      BY <3>1
    <3>3. /\ Cardinality(orphans'.mapOrphanTransactions)
               =< Cardinality(orphans.mapOrphanTransactions)
          /\ Cardinality(orphans'.mapOrphanTransactions) \in Nat
          /\ Cardinality(orphans.mapOrphanTransactions) \in Nat
      BY <3>1, <3>2, FS_Subset, FS_CardinalityType DEF RetryInv, OrphansOK
    <3>4. Cardinality(orphans'.mapOrphanTransactions) =< MAX_ORPHAN_TRANSACTIONS
      BY <3>3, OrphanTxAssumption DEF RetryInv
    <3> QED
      BY <2>1, <3>1, <3>4 DEF RetryInv, QueueInv
  <2> QED
    BY <2>2, <2>3, <2>4
<1>4. ASSUME NEW t, TxLockRequest(t) PROVE RetryInv'
  <2>1. /\ best' = best /\ UNCHANGED retry
        /\ orphans' = orphans \/ orphans' = NoOrphanTxs
    BY <1>4 DEF TxLockRequest, ProcessEnds
  <2> QED
    BY <2>1, LockStepsKeep
<1>5. ASSUME NEW t, WalletLockRequest(t) PROVE RetryInv'
  BY <1>5, LockStepsKeep DEF WalletLockRequest
<1>6. ASSUME NEW t, LockExpires(t) PROVE RetryInv'
  BY <1>6, LockStepsKeep DEF LockExpires
<1>7. ASSUME NEW v, TxLockVote(v) PROVE RetryInv'
  <2>1. /\ best' = best /\ UNCHANGED retry
        /\ orphans' = orphans \/ orphans' = NoOrphanTxs
    BY <1>7 DEF TxLockVote, ProcessEnds
  <2> QED
    BY <2>1, LockStepsKeep
<1>8. CASE CleanLocks
  BY <1>8, LockStepsKeep DEF CleanLocks
<1>9. ASSUME NEW b, ConnectBlock(b) PROVE RetryInv'
  <2>1. vWorkQueue' = <<>> /\ orphans' = orphans
    BY <1>9 DEF ConnectBlock, Idle, retry
  <2> QED
    BY <2>1 DEF RetryInv, QueueInv
<1>10. CASE UNCHANGED vars
  BY <1>10, LockStepsKeep DEF vars
<1> QED
  BY <1>1, <1>2, <1>3, <1>4, <1>5, <1>6, <1>7, <1>8, <1>9, <1>10 DEF Next

(* mapOrphanTransactions and mapOrphanTransactionsByPrev agree, and no more *)
(* orphans are kept than LimitOrphanTxSize allows, in any run.              *)
THEOREM OrphanTxsCorrect == Spec => []OrphanTxsKept
<1>1. RetryInv => OrphanTxsKept
  BY DEF RetryInv, OrphansOK, OrphanTxsKept
<1> QED
  BY <1>1, RetryInvInit, RetryInvNext, PTL DEF Spec

(* The loop of the tx handler over the orphans of an accepted transaction   *)
(* never adds one of them to the pool, although it is there to do that.     *)
THEOREM RetryAddsNothing == Spec => RetryAcceptsNothing
<1>1. RetryInv /\ [Next]_vars => [~ Idle => mempool' = mempool]_vars
  <2> SUFFICES ASSUME RetryInv, Next, ~ Idle PROVE mempool' = mempool
    OBVIOUS
  <2>1. ASSUME NEW t, RetryOrphan(t) PROVE mempool' = mempool
    <3>1. ~ Accepts(t)
      BY <2>1, RetryRefused DEF RetryOrphan
    <3> QED
      BY <2>1, <3>1 DEF RetryOrphan
  <2>2. ASSUME NEW t, LockExpires(t) PROVE mempool' = mempool
    BY <2>2 DEF LockExpires
  <2>3. CASE NextWork
    BY <2>3 DEF NextWork
  <2>4. CASE CleanLocks
    BY <2>4 DEF CleanLocks
  <2> QED
    BY <2>1, <2>2, <2>3, <2>4
    DEF Next, ReceiveTx, TxLockRequest, WalletLockRequest, TxLockVote, ConnectBlock
<1> QED
  BY <1>1, RetryInvInit, RetryInvNext, PTL DEF Spec, RetryAcceptsNothing

-----------------------------------------------------------------------------
(* The height of a lock is set by CreateNewLock, when its request is        *)
(* handled; votes alone do not know it.  S are the transactions whose       *)
(* requests are being handled.                                              *)
IsLock(l) == l = [nBlockHeight |-> l.nBlockHeight, votes |-> l.votes, expired |-> l.expired]
HeightsRequested(i, S) ==
  /\ i = [mapTxLockReq |-> i.mapTxLockReq, mapTxLockReqRejected |-> i.mapTxLockReqRejected,
          mapTxLockVote |-> i.mapTxLockVote, mapTxLocks |-> i.mapTxLocks,
          mapLockedInputs |-> i.mapLockedInputs]
  /\ i.mapTxLocks = [t \in Tx |-> i.mapTxLocks[t]]
  /\ \A t \in Tx : i.mapTxLocks[t] # None =>
       /\ IsLock(i.mapTxLocks[t])
       /\ \/ i.mapTxLocks[t].nBlockHeight = 0
          \/ t \in i.mapTxLockReq \cup i.mapTxLockReqRejected \cup S

(* What an EXCEPT on a lock leaves alone. *)
LEMMA ChangedLock ==
  ASSUME NEW l, IsLock(l), NEW x
  PROVE  /\ IsLock([l EXCEPT !.votes = x])
         /\ [l EXCEPT !.votes = x].nBlockHeight = l.nBlockHeight
         /\ IsLock([l EXCEPT !.expired = x])
         /\ [l EXCEPT !.expired = x].nBlockHeight = l.nBlockHeight
<1> DEFINE new == [l EXCEPT !.votes = x]
           old == [l EXCEPT !.expired = x]
<1>1. new = [nBlockHeight |-> l.nBlockHeight, votes |-> x, expired |-> l.expired]
  BY DEF IsLock
<1>2. old = [nBlockHeight |-> l.nBlockHeight, votes |-> l.votes, expired |-> x]
  BY DEF IsLock
<1> HIDE DEF new, old
<1>3. IsLock(new) /\ new.nBlockHeight = l.nBlockHeight
  BY <1>1 DEF IsLock
<1>4. IsLock(old) /\ old.nBlockHeight = l.nBlockHeight
  BY <1>2 DEF IsLock
<1> QED
  BY <1>3, <1>4 DEF new, old

(* A new process has no locks. *)
LEMMA NoHeights == HeightsRequested(NoLocks, {})
  BY DEF HeightsRequested, NoLocks

(* CreateNewLock gives a height to the lock of the request at hand alone. *)
LEMMA CreateHeights ==
  ASSUME NEW i, NEW t, NEW at, NEW b, HeightsRequested(i, {})
  PROVE  HeightsRequested(CreateNewLock(i, t, at, b), {t})
<1> DEFINE new == CreateNewLock(i, t, at, b)
<1>1. CASE ~ OldEnough(t, at, b)
  BY <1>1 DEF CreateNewLock, HeightsRequested
<1>2. CASE OldEnough(t, at, b)
  <2> DEFINE lock == IF i.mapTxLocks[t] = None
                       THEN NewLock(LockHeight(t, at))
                       ELSE [i.mapTxLocks[t] EXCEPT !.nBlockHeight = LockHeight(t, at)]
  <2>1. new = [i EXCEPT !.mapTxLocks = [i.mapTxLocks EXCEPT ![t] = lock]]
    BY <1>2 DEF CreateNewLock
  <2>2. t \in Tx => IsLock(lock)
    BY DEF HeightsRequested, IsLock, NewLock
  <2> QED
    BY <2>1, <2>2 DEF HeightsRequested
<1> QED
  BY <1>1, <1>2

(* The request is then remembered, either way. *)
LEMMA AcceptedHeights ==
  ASSUME NEW i, NEW t, HeightsRequested(i, {t}) \/ HeightsRequested(i, {})
  PROVE  HeightsRequested(ReqAccepted(i, t), {})
  BY DEF HeightsRequested, ReqAccepted

(* Locking inputs does not touch the locks. *)
LEMMA LockInputsHeights ==
  ASSUME NEW i, NEW t, HeightsRequested(i, {})
  PROVE  HeightsRequested(LockInputs(i, t), {})
  BY DEF HeightsRequested, LockInputs

(* A rejected request is remembered among the rejected ones. *)
LEMMA RejectedHeights ==
  ASSUME NEW i, NEW t, HeightsRequested(i, {t})
  PROVE  HeightsRequested(ReqRejected(i, t), {})
<1> DEFINE new == [i EXCEPT !.mapTxLockReqRejected = @ \cup {t}]
<1>1. HeightsRequested(new, {})
  BY DEF HeightsRequested
<1> QED
  BY <1>1, LockInputsHeights DEF ReqRejected

(* Remembering a vote does not touch the locks. *)
LEMMA SeenHeights ==
  ASSUME NEW i, NEW v, NEW S, HeightsRequested(i, S)
  PROVE  HeightsRequested(SeenVote(i, v), S)
  BY DEF HeightsRequested, SeenVote

(* A vote makes a lock without a height, or leaves the height of one alone. *)
LEMMA AddHeights ==
  ASSUME NEW i, NEW v, HeightsRequested(i, {})
  PROVE  HeightsRequested(AddSignature(i, v), {})
<1> DEFINE old == IF i.mapTxLocks[v[2]] = None THEN NewLock(0) ELSE i.mapTxLocks[v[2]]
           lock == [old EXCEPT !.votes = Append(old.votes, <<v[1], v[3]>>)]
<1>1. AddSignature(i, v) = [i EXCEPT !.mapTxLocks = [i.mapTxLocks EXCEPT ![v[2]] = lock]]
  BY DEF AddSignature
<1>2. v[2] \in Tx => IsLock(old)
  BY DEF HeightsRequested, IsLock, NewLock
<1>3. i.mapTxLocks[v[2]] = None => old.nBlockHeight = 0
  BY DEF NewLock
<1> HIDE DEF old
<1>4. v[2] \in Tx => IsLock(lock) /\ lock.nBlockHeight = old.nBlockHeight
  BY <1>2, ChangedLock
<1>5. i.mapTxLocks[v[2]] # None => old = i.mapTxLocks[v[2]]
  BY DEF old
<1> HIDE DEF lock
<1>6. ASSUME NEW t \in Tx
      PROVE  AddSignature(i, v).mapTxLocks[t] = IF t = v[2] THEN lock ELSE i.mapTxLocks[t]
  BY <1>1 DEF HeightsRequested
<1>7. /\ AddSignature(i, v).mapTxLockReq = i.mapTxLockReq
      /\ AddSignature(i, v).mapTxLockReqRejected = i.mapTxLockReqRejected
  BY <1>1 DEF HeightsRequested
<1> QED
  BY <1>1, <1>3, <1>4, <1>5, <1>6, <1>7 DEF HeightsRequested

(* So does a conflict, *)
LEMMA CancelHeights ==
  ASSUME NEW i, NEW t, NEW o, HeightsRequested(i, {})
  PROVE  HeightsRequested(CancelBoth(i, t, o), {})
<1> DEFINE new == CancelBoth(i, t, o)
           cancelled(u) == [i.mapTxLocks[u] EXCEPT !.expired = TRUE]
<1>1. ASSUME NEW u \in Tx, i.mapTxLocks[u] # None
      PROVE  IsLock(cancelled(u)) /\ cancelled(u).nBlockHeight = i.mapTxLocks[u].nBlockHeight
  BY <1>1, ChangedLock DEF HeightsRequested
<1> DEFINE locks == [u \in Tx |-> IF u \in {t, i.mapLockedInputs[o]} /\ i.mapTxLocks[u] # None
                                   THEN cancelled(u) ELSE i.mapTxLocks[u]]
<1>2. new = [i EXCEPT !.mapTxLocks = locks]
  BY DEF CancelBoth
<1> HIDE DEF locks, cancelled, new
<1>3. /\ new.mapTxLocks = locks
      /\ new.mapTxLockReq = i.mapTxLockReq
      /\ new.mapTxLockReqRejected = i.mapTxLockReqRejected
      /\ new = [mapTxLockReq |-> new.mapTxLockReq, mapTxLockReqRejected |-> new.mapTxLockReqRejected,
                mapTxLockVote |-> new.mapTxLockVote, mapTxLocks |-> new.mapTxLocks,
                mapLockedInputs |-> new.mapLockedInputs]
  BY <1>2 DEF HeightsRequested
<1>4. ASSUME NEW u \in Tx, new.mapTxLocks[u] # None
      PROVE  /\ IsLock(new.mapTxLocks[u])
             /\ \/ new.mapTxLocks[u].nBlockHeight = 0
                \/ u \in new.mapTxLockReq \cup new.mapTxLockReqRejected
  BY <1>1, <1>3, <1>4 DEF HeightsRequested, locks
<1>5. new.mapTxLocks = [u \in Tx |-> new.mapTxLocks[u]]
  BY <1>3 DEF locks
<1>6. HeightsRequested(new, {})
  BY <1>3, <1>4, <1>5 DEF HeightsRequested
<1> QED
  BY <1>6 DEF new

(* and what CleanTransactionLocksList forgets has no lock any more. *)
LEMMA CleanHeights ==
  ASSUME NEW i, HeightsRequested(i, {})
  PROVE  HeightsRequested(CleanTransactionLocksList(i), {})
<1> DEFINE new == CleanTransactionLocksList(i)
<1>1. /\ new.mapTxLocks = [t \in Tx |-> IF t \in Expired(i) THEN None ELSE i.mapTxLocks[t]]
      /\ new.mapTxLockReq = i.mapTxLockReq \ (Expired(i) \cap i.mapTxLockReq)
      /\ new.mapTxLockReqRejected = i.mapTxLockReqRejected \ (Expired(i) \cap i.mapTxLockReq)
      /\ new = [mapTxLockReq |-> new.mapTxLockReq, mapTxLockReqRejected |-> new.mapTxLockReqRejected,
                mapTxLockVote |-> new.mapTxLockVote, mapTxLocks |-> new.mapTxLocks,
                mapLockedInputs |-> new.mapLockedInputs]
  BY DEF CleanTransactionLocksList
<1> QED
  BY <1>1 DEF HeightsRequested

(* Each step of the node keeps the invariant. *)
LEMMA HeightsNext == HeightsRequested(ix, {}) /\ [Next]_vars => HeightsRequested(ix, {})'
<1> SUFFICES ASSUME HeightsRequested(ix, {}), [Next]_vars
             PROVE  HeightsRequested(ix', {})
  OBVIOUS
<1>1. ASSUME NEW t, TxLockRequest(t) PROVE HeightsRequested(ix', {})
  <2> DEFINE made == CreateNewLock(ix, t, pos, best)
             rejected == ReqRejected(made, t)
  <2>1. HeightsRequested(made, {t})
    BY CreateHeights
  <2>2. HeightsRequested(rejected, {})
    BY <2>1, RejectedHeights
  <2>3. ASSUME NEW voted \in DoConsensusVote(made, t)
        PROVE  HeightsRequested(ReqAccepted(voted, t), {})
    <3>1. HeightsRequested(voted, {t})
      BY <2>1, SeenHeights DEF DoConsensusVote
    <3> QED
      BY <3>1, AcceptedHeights
  <2>4. ASSUME NEW o PROVE HeightsRequested(CancelBoth(rejected, t, o), {})
    BY <2>2, CancelHeights
  <2> HIDE DEF made, rejected
  <2>5. \/ \E voted \in DoConsensusVote(made, t) : ix' = ReqAccepted(voted, t)
        \/ ix' = rejected
        \/ \E o \in LockedForOthers(rejected, t) : ix' = CancelBoth(rejected, t, o)
        \/ ix' = NoLocks
    BY <1>1 DEF TxLockRequest, ProcessEnds, made, rejected
  <2> QED
    BY <2>2, <2>3, <2>4, <2>5, NoHeights
<1>2. ASSUME NEW t, WalletLockRequest(t) PROVE HeightsRequested(ix', {})
  <2>1. HeightsRequested(ReqAccepted(ix, t), {})
    BY AcceptedHeights
  <2>2. HeightsRequested(ix', {t})
    BY <1>2, <2>1, CreateHeights DEF WalletLockRequest
  <2>3. t \in ix'.mapTxLockReq
    <3>1. t \in ReqAccepted(ix, t).mapTxLockReq
      BY DEF ReqAccepted, HeightsRequested
    <3> QED
      BY <1>2, <2>1, <3>1 DEF WalletLockRequest, CreateNewLock, HeightsRequested
  <2> QED
    BY <2>2, <2>3 DEF HeightsRequested
<1>3. ASSUME NEW v, TxLockVote(v) PROVE HeightsRequested(ix', {})
  <2> DEFINE seen == SeenVote(ix, v)
             counted == AddSignature(seen, v)
  <2>1. HeightsRequested(seen, {})
    BY SeenHeights
  <2>2. HeightsRequested(counted, {})
    BY <2>1, AddHeights
  <2>3. ASSUME NEW o PROVE HeightsRequested(CancelBoth(counted, v[2], o), {})
    BY <2>2, CancelHeights
  <2>4. HeightsRequested(LockInputs(counted, v[2]), {})
    BY <2>2, LockInputsHeights
  <2> HIDE DEF seen, counted
  <2>5. \/ ix' = seen
        \/ ix' = counted
        \/ \E o : ix' = CancelBoth(counted, v[2], o)
        \/ ix' = LockInputs(counted, v[2])
        \/ ix' = NoLocks
    BY <1>3 DEF TxLockVote, ProcessEnds, seen, counted
  <2> QED
    BY <2>1, <2>2, <2>3, <2>4, <2>5, NoHeights
<1>4. ASSUME NEW t, LockExpires(t) PROVE HeightsRequested(ix', {})
  <2> DEFINE lock == [ix.mapTxLocks[t] EXCEPT !.expired = TRUE]
  <2>1. ix' = [ix EXCEPT !.mapTxLocks = [ix.mapTxLocks EXCEPT ![t] = lock]]
    BY <1>4, Zenon DEF LockExpires
  <2>2. ix.mapTxLocks[t] # None
    BY <1>4, Zenon DEF LockExpires
  <2>3. t \in Tx => IsLock(lock) /\ lock.nBlockHeight = ix.mapTxLocks[t].nBlockHeight
    BY <2>2, ChangedLock DEF HeightsRequested
  <2> HIDE DEF lock
  <2> QED
    BY <2>1, <2>2, <2>3 DEF HeightsRequested
<1>5. CASE CleanLocks
  BY <1>5, CleanHeights DEF CleanLocks
<1>6. CASE UNCHANGED ix
  BY <1>6
<1>7. ASSUME NEW t, NEW strCommand, ReceiveTx(t, strCommand) PROVE UNCHANGED ix
  BY <1>7 DEF ReceiveTx
<1>8. ASSUME NEW t, RetryOrphan(t) PROVE UNCHANGED ix
  BY <1>8 DEF RetryOrphan
<1>9. CASE NextWork
  BY <1>9 DEF NextWork
<1>10. ASSUME NEW b, ConnectBlock(b) PROVE UNCHANGED ix
  BY <1>10 DEF ConnectBlock
<1> QED
  BY <1>1, <1>2, <1>3, <1>4, <1>5, <1>6, <1>7, <1>8, <1>9, <1>10 DEF Next, vars

(* Whatever order requests, votes, expiries and ends of the process come    *)
(* in, a lock that is complete is that of a request the node has handled:   *)
(* ProcessConsensusVote finds the transaction it is about to lock.          *)
THEOREM CompleteLocksKnown == Spec => []CompleteLocksRequested
<1>1. Init => HeightsRequested(ix, {})
  BY NoHeights DEF Init
<1>2. HeightsRequested(ix, {}) => CompleteLocksRequested
  BY DEF HeightsRequested, CompleteLocksRequested, Complete
<1> QED
  BY <1>1, <1>2, HeightsNext, PTL DEF Spec

-----------------------------------------------------------------------------
(***************************************************************************)
(* Locks and the pool.  Three more facts are needed.  A floatingcity's     *)
(* vote for a transaction is counted once, as mapTxLockVote holds all that *)
(* were counted.  An input is locked for a transaction that spends it and  *)
(* whose request is known, and a lock of an accepted request is complete.  *)
(* And a request in mapTxLockReq is that of a transaction which is in the  *)
(* pool or in the best chain, so that nothing else in the pool spends its  *)
(* inputs.                                                                 *)
(***************************************************************************)
VotesOnce(i) ==
  \A t \in Tx : i.mapTxLocks[t] # None =>
    LET votes == i.mapTxLocks[t].votes
    IN  /\ \A j \in 1..Len(votes) : <<votes[j][1], t>> \in i.mapTxLockVote
        /\ \A j, k \in 1..Len(votes) : votes[j][1] = votes[k][1] => j = k

LocksKnown(i) ==
  \A o \in OutPoint :
    LET t == i.mapLockedInputs[o]
    IN  t # None => /\ o \in Inputs[t]
                    /\ t \in i.mapTxLockReq \cup i.mapTxLockReqRejected
                    /\ t \notin i.mapTxLockReqRejected => Complete(i, t)

LocksInv(i) == i \in LockMaps /\ VotesOnce(i) /\ LocksKnown(i)

RequestsHeld(i, pool, b) ==
  \A t \in i.mapTxLockReq :
    /\ t \in pool.mapTx \cup ChainTxs(b)
    /\ \A e \in pool.mapNextTx : e[1] \in Inputs[t] => e[2] = t

PoolInv(i, pool, b) ==
  /\ b \in Block
  /\ pool \in [mapTx : SUBSET Tx, mapNextTx : SUBSET (OutPoint \X Tx)]
  /\ NextTxMatches(pool)
  /\ RequestsHeld(i, pool, b)

RelayInv ==
  /\ HeightsRequested(ix, {})
  /\ LocksInv(ix)
  /\ PoolInv(ix, mempool, best)

-----------------------------------------------------------------------------
(* Counting votes. *)

(* The votes that CountSignatures counts. *)
Counted(lock) == { j \in 1..Len(lock.votes) : lock.votes[j][2] = lock.nBlockHeight }

(* There are finitely many of them, and one more vote leaves the others.    *)
LEMMA CountedGrows ==
  ASSUME NEW lock \in Lock, NEW new \in Lock, NEW x, NEW y \in BOOLEAN,
         \/ new = lock
         \/ new = [lock EXCEPT !.expired = y]
         \/ new = [lock EXCEPT !.votes = Append(lock.votes, x)]
  PROVE  /\ IsFiniteSet(Counted(lock)) /\ Cardinality(Counted(lock)) \in Nat
         /\ Cardinality(Counted(new)) \in Nat
         /\ Cardinality(Counted(lock)) =< Cardinality(Counted(new))
         /\ new.nBlockHeight = lock.nBlockHeight
<1>1. ASSUME NEW l \in Lock PROVE IsFiniteSet(Counted(l)) /\ Cardinality(Counted(l)) \in Nat
  <2> DEFINE n == Len(l.votes)
  <2>1. n \in Int
    BY DEF Lock
  <2>2. IsFiniteSet(1..n)
    <3> HIDE DEF n
    <3> QED
      BY <2>1, FS_Interval
  <2>3. Counted(l) \in SUBSET (1..Len(l.votes))
    BY DEF Counted
  <2> QED
    BY <2>2, <2>3, FS_Subset, FS_CardinalityType
<1>2. new.nBlockHeight = lock.nBlockHeight
  BY DEF Lock
<1>3. Counted(lock) \subseteq Counted(new)
  <2>1. lock.votes \in Seq(FloatingCity \X Nat)
    BY DEF Lock
  <2>2. CASE new = lock
    BY <2>2
  <2>3. CASE new = [lock EXCEPT !.expired = y]
    BY <1>2, <2>3 DEF Counted, Lock
  <2>4. CASE new = [lock EXCEPT !.votes = Append(lock.votes, x)]
    <3>1. new.votes = Append(lock.votes, x)
      BY <2>4 DEF Lock
    <3>2. \A j \in 1..Len(lock.votes) :
            j \in 1..Len(new.votes) /\ new.votes[j] = lock.votes[j]
      BY <2>1, <3>1
    <3> QED
      BY <1>2, <3>2 DEF Counted
  <2> QED
    BY <2>2, <2>3, <2>4
<1> QED
  BY <1>1, <1>2, <1>3, FS_Subset

(* What becomes of a lock when it expires, or when another vote x comes. *)
Advanced(lock, new, x) ==
  \/ new = lock
  \/ new = [lock EXCEPT !.expired = TRUE]
  \/ new = [lock EXCEPT !.votes = Append(lock.votes, x)] /\ new \in Lock

(* A lock that was complete stays complete. *)
LEMMA CompleteStays ==
  ASSUME NEW i \in LockMaps, NEW k \in LockMaps, NEW t \in Tx, Complete(i, t), NEW x,
         Advanced(i.mapTxLocks[t], k.mapTxLocks[t], x)
  PROVE  Complete(k, t)
<1> DEFINE lock == i.mapTxLocks[t]
           new == k.mapTxLocks[t]
<1>1. lock \in Lock
  BY DEF LockMaps, Complete
<1>2. new \in Lock
  <2>1. [lock EXCEPT !.expired = TRUE] \in Lock
    BY <1>1 DEF Lock
  <2> QED
    BY <1>1, <2>1 DEF Advanced
<1>3. /\ Cardinality(Counted(lock)) \in Nat /\ Cardinality(Counted(new)) \in Nat
      /\ Cardinality(Counted(lock)) =< Cardinality(Counted(new))
      /\ new.nBlockHeight = lock.nBlockHeight
  <2> HIDE DEF lock, new
  <2>1. \/ new = lock
        \/ new = [lock EXCEPT !.expired = TRUE]
        \/ new = [lock EXCEPT !.votes = Append(lock.votes, x)]
    BY DEF lock, new, Advanced
  <2> QED
    BY <1>1, <1>2, <2>1, CountedGrows
<1>4. lock.nBlockHeight # 0 /\ Cardinality(Counted(lock)) >= INSTANTX_SIGNATURES_REQUIRED
  BY DEF Complete, Counted
<1>5. new # None
  BY <1>2, InstantXAssumption
<1>6. new.nBlockHeight # 0 /\ Cardinality(Counted(new)) >= INSTANTX_SIGNATURES_REQUIRED
  BY <1>3, <1>4, InstantXAssumption
<1> QED
  BY <1>5, <1>6 DEF Complete, Counted

(* As every floatingcity is counted once, a complete lock has as many       *)
(* voters as votes.                                                         *)
LEMMA CompleteIsConsensus ==
  ASSUME NEW i \in LockMaps, VotesOnce(i), NEW t \in Tx, Complete(i, t)
  PROVE  Consensus(i, t)
<1> DEFINE lock == i.mapTxLocks[t]
           A == Counted(lock)
           F == { f \in FloatingCity : \E j \in 1..Len(lock.votes) :
                    lock.votes[j] = <<f, lock.nBlockHeight>> }
           voter == [j \in A |-> lock.votes[j][1]]
<1>1. lock \in Lock /\ lock # None
  BY DEF LockMaps, Complete
<1>2. /\ \A j \in 1..Len(lock.votes) : lock.votes[j] \in FloatingCity \X Nat
      /\ \A j, k \in 1..Len(lock.votes) : lock.votes[j][1] = lock.votes[k][1] => j = k
  BY <1>1 DEF Lock, VotesOnce
<1>3. IsFiniteSet(A)
  BY <1>1, CountedGrows
<1>4. Cardinality(A) >= INSTANTX_SIGNATURES_REQUIRED
  BY DEF Complete, Counted
<1>5. voter \in Bijection(A, F)
  <2>1. ASSUME NEW j \in A PROVE voter[j] \in F
    <3>1. /\ j \in 1..Len(lock.votes) /\ lock.votes[j][2] = lock.nBlockHeight
          /\ lock.votes[j] \in FloatingCity \X Nat
      BY <1>2 DEF Counted
    <3>2. lock.votes[j] = <<lock.votes[j][1], lock.nBlockHeight>> /\ lock.votes[j][1] \in FloatingCity
      BY <3>1
    <3> QED
      BY <3>1, <3>2
  <2>2. ASSUME NEW f \in F PROVE \E j \in A : voter[j] = f
    <3>1. PICK j \in 1..Len(lock.votes) : lock.votes[j] = <<f, lock.nBlockHeight>>
      OBVIOUS
    <3>2. j \in A /\ lock.votes[j][1] = f
      BY <3>1 DEF Counted
    <3> QED
      BY <3>2
  <2>3. \A j, k \in A : voter[j] = voter[k] => j = k
    BY <1>2 DEF Counted
  <2>4. voter \in [A -> F]
    BY <2>1
  <2> HIDE DEF voter, A, F
  <2> QED
    BY <2>2, <2>3, <2>4 DEF Bijection, Injection, Surjection, IsInjective
<1>6. Cardinality(F) = Cardinality(A)
  <2> HIDE DEF voter, A, F
  <2> QED
    BY <1>3, <1>5, FS_Bijection DEF ExistsBijection
<1> QED
  BY <1>1, <1>4, <1>6 DEF Consensus

-----------------------------------------------------------------------------
(* The operations on the locks. *)

(* A new process has no locks. *)
LEMMA NoLocksInv == LocksInv(NoLocks)
<1>1. NoLocks \in LockMaps
  BY DEF NoLocks, LockMaps
<1> QED
  BY <1>1 DEF LocksInv, NoLocks, VotesOnce, LocksKnown

(* CreateNewLock changes the lock of t alone, and leaves its votes.         *)
LEMMA CreateLocks ==
  ASSUME NEW i, LocksInv(i), NEW t \in Tx \ CoinBase, NEW b \in Block,
         NEW at \in [Tx -> Block \cup {None}],
         \A o \in OutPoint : i.mapLockedInputs[o] = t => t \in i.mapTxLockReqRejected
  PROVE  LET new == CreateNewLock(i, t, at, b)
         IN  /\ LocksInv(new)
             /\ new.mapTxLockReq = i.mapTxLockReq
             /\ new.mapTxLockReqRejected = i.mapTxLockReqRejected
             /\ new.mapLockedInputs = i.mapLockedInputs
<1> DEFINE new == CreateNewLock(i, t, at, b)
           old == i.mapTxLocks[t]
           h == LockHeight(t, at)
           lock == IF old = None THEN NewLock(h) ELSE [old EXCEPT !.nBlockHeight = h]
<1>1. CASE ~ OldEnough(t, at, b)
  BY <1>1 DEF CreateNewLock
<1>2. CASE OldEnough(t, at, b)
  <2>1. new = [i EXCEPT !.mapTxLocks = [i.mapTxLocks EXCEPT ![t] = lock]]
    BY <1>2 DEF CreateNewLock
  <2>2. h \in Nat
    <3>1. FirstInput[t] \in Inputs[t] /\ Inputs[t] \subseteq OutPoint
      BY InstantXAssumption, TxAssumption
    <3>2. OutTx[FirstInput[t]] \in Tx /\ at[OutTx[FirstInput[t]]] # None
      BY <1>2, <3>1, TxAssumption DEF OldEnough
    <3>3. at[OutTx[FirstInput[t]]] \in Block
      BY <3>2
    <3> QED
      BY <3>3, TreeAssumption DEF LockHeight
  <2>3. i \in LockMaps /\ old \in Lock \cup {None}
    BY DEF LocksInv, LockMaps
  <2> HIDE DEF h
  <2> HIDE DEF old
  <2>4. lock \in Lock /\ lock.votes = IF old = None THEN <<>> ELSE old.votes
    <3>1. CASE old = None
      <4>1. lock = [nBlockHeight |-> h, votes |-> <<>>, expired |-> FALSE]
        BY <3>1 DEF NewLock
      <4>2. <<>> \in Seq(FloatingCity \X Nat)
        OBVIOUS
      <4> HIDE DEF lock
      <4> QED
        BY <2>2, <3>1, <4>1, <4>2 DEF Lock
    <3>2. CASE old # None
      <4>1. old \in Lock /\ lock = [old EXCEPT !.nBlockHeight = h]
        BY <2>3, <3>2
      <4> HIDE DEF lock
      <4>2. lock \in Lock /\ lock.votes = old.votes
        BY <2>2, <4>1 DEF Lock
      <4> QED
        BY <3>2, <4>2
    <3> QED
      BY <3>1, <3>2
  <2> HIDE DEF lock, new
  <2>5. /\ new \in LockMaps
        /\ new.mapTxLockReq = i.mapTxLockReq
        /\ new.mapTxLockReqRejected = i.mapTxLockReqRejected
        /\ new.mapLockedInputs = i.mapLockedInputs
        /\ new.mapTxLockVote = i.mapTxLockVote
        /\ \A u \in Tx : new.mapTxLocks[u] = IF u = t THEN lock ELSE i.mapTxLocks[u]
    BY <2>1, <2>3, <2>4 DEF LockMaps
  <2>6. VotesOnce(new)
    <3> SUFFICES ASSUME NEW u \in Tx, new.mapTxLocks[u] # None
                 PROVE  LET votes == new.mapTxLocks[u].votes
                        IN  /\ \A j \in 1..Len(votes) : <<votes[j][1], u>> \in new.mapTxLockVote
                            /\ \A j, k \in 1..Len(votes) : votes[j][1] = votes[k][1] => j = k
      BY DEF VotesOnce
    <3>1. CASE u = t /\ old = None
      BY <2>4, <2>5, <3>1
    <3>2. CASE u # t \/ old # None
      <4>1. i.mapTxLocks[u] # None /\ new.mapTxLocks[u].votes = i.mapTxLocks[u].votes
        BY <2>4, <2>5, <3>2 DEF old
      <4> QED
        BY <2>5, <4>1 DEF LocksInv, VotesOnce
    <3> QED
      BY <3>1, <3>2
  <2>7. LocksKnown(new)
    <3> SUFFICES ASSUME NEW o \in OutPoint, NEW u, u = new.mapLockedInputs[o], u # None
                 PROVE  /\ o \in Inputs[u]
                        /\ u \in new.mapTxLockReq \cup new.mapTxLockReqRejected
                        /\ u \notin new.mapTxLockReqRejected => Complete(new, u)
      BY DEF LocksKnown
    <3>1. u \in Tx
      BY <2>5 DEF LockMaps
    <3>2. /\ o \in Inputs[u]
          /\ u \in i.mapTxLockReq \cup i.mapTxLockReqRejected
          /\ u \notin i.mapTxLockReqRejected => Complete(i, u)
      BY <2>5 DEF LocksInv, LocksKnown
    <3>3. CASE u = t
      BY <2>5, <3>2, <3>3
    <3>4. CASE u # t
      <4>1. new.mapTxLocks[u] = i.mapTxLocks[u]
        BY <2>5, <3>1, <3>4
      <4>2. Complete(i, u) => Complete(new, u)
        BY <4>1 DEF Complete
      <4> QED
        BY <2>5, <3>2, <4>2
    <3> QED
      BY <3>3, <3>4
  <2> QED
    BY <2>5, <2>6, <2>7 DEF LocksInv, new
<1> QED
  BY <1>1, <1>2

(* The request joins mapTxLockReq. *)
LEMMA AcceptedLocks ==
  ASSUME NEW i, LocksInv(i), NEW t \in Tx
  PROVE  /\ LocksInv(ReqAccepted(i, t))
         /\ ReqAccepted(i, t).mapTxLockReq = i.mapTxLockReq \cup {t}
         /\ ReqAccepted(i, t).mapTxLockReqRejected = i.mapTxLockReqRejected
         /\ ReqAccepted(i, t).mapLockedInputs = i.mapLockedInputs
<1> DEFINE new == ReqAccepted(i, t)
<1>1. /\ new \in LockMaps
      /\ new.mapTxLockReq = i.mapTxLockReq \cup {t}
      /\ new.mapTxLockReqRejected = i.mapTxLockReqRejected
      /\ new.mapLockedInputs = i.mapLockedInputs
      /\ new.mapTxLockVote = i.mapTxLockVote
      /\ new.mapTxLocks = i.mapTxLocks
  BY DEF LocksInv, LockMaps, ReqAccepted
<1> HIDE DEF new
<1>2. VotesOnce(new) /\ LocksKnown(new)
  BY <1>1 DEF LocksInv, VotesOnce, LocksKnown, Complete
<1> QED
  BY <1>1, <1>2 DEF LocksInv, new

(* A vote is remembered. *)
LEMMA SeenLocks ==
  ASSUME NEW i, LocksInv(i), NEW v, <<v[1], v[2]>> \in FloatingCity \X Tx
  PROVE  LET new == SeenVote(i, v)
         IN  /\ LocksInv(new)
             /\ new.mapTxLockReq = i.mapTxLockReq
             /\ new.mapTxLockReqRejected = i.mapTxLockReqRejected
             /\ new.mapLockedInputs = i.mapLockedInputs
             /\ new.mapTxLocks = i.mapTxLocks
             /\ new.mapTxLockVote = i.mapTxLockVote \cup {<<v[1], v[2]>>}
<1> DEFINE new == SeenVote(i, v)
<1>1. /\ new \in LockMaps
      /\ new.mapTxLockReq = i.mapTxLockReq
      /\ new.mapTxLockReqRejected = i.mapTxLockReqRejected
      /\ new.mapLockedInputs = i.mapLockedInputs
      /\ new.mapTxLockVote = i.mapTxLockVote \cup {<<v[1], v[2]>>}
      /\ new.mapTxLocks = i.mapTxLocks
  BY DEF LocksInv, LockMaps, SeenVote
<1> HIDE DEF new
<1>2. VotesOnce(new) /\ LocksKnown(new)
  BY <1>1 DEF LocksInv, VotesOnce, LocksKnown, Complete
<1> QED
  BY <1>1, <1>2 DEF LocksInv, new

(* Free inputs are locked for a transaction that was rejected, or whose     *)
(* lock is complete.                                                        *)
LEMMA LockInputsLocks ==
  ASSUME NEW i, LocksInv(i), NEW t \in Tx,
         \/ t \in i.mapTxLockReqRejected
         \/ t \in i.mapTxLockReq /\ Complete(i, t)
  PROVE  /\ LocksInv(LockInputs(i, t))
         /\ LockInputs(i, t).mapTxLockReq = i.mapTxLockReq
<1> DEFINE new == LockInputs(i, t)
<1>1. /\ new \in LockMaps
      /\ new.mapTxLockReq = i.mapTxLockReq
      /\ new.mapTxLockReqRejected = i.mapTxLockReqRejected
      /\ new.mapTxLockVote = i.mapTxLockVote
      /\ new.mapTxLocks = i.mapTxLocks
      /\ \A o \in OutPoint :
           new.mapLockedInputs[o] = IF o \in Inputs[t] /\ i.mapLockedInputs[o] = None
                                      THEN t ELSE i.mapLockedInputs[o]
  BY DEF LocksInv, LockMaps, LockInputs
<1> HIDE DEF new
<1>2. VotesOnce(new)
  BY <1>1 DEF LocksInv, VotesOnce
<1>3. LocksKnown(new)
  <2> SUFFICES ASSUME NEW o \in OutPoint, NEW u, u = new.mapLockedInputs[o], u # None
               PROVE  /\ o \in Inputs[u]
                      /\ u \in new.mapTxLockReq \cup new.mapTxLockReqRejected
                      /\ u \notin new.mapTxLockReqRejected => Complete(new, u)
    BY DEF LocksKnown
  <2>1. CASE o \in Inputs[t] /\ u = t
    BY <1>1, <2>1 DEF Complete, LocksInv, LocksKnown
  <2>2. CASE u = i.mapLockedInputs[o]
    BY <1>1, <2>2 DEF Complete, LocksInv, LocksKnown
  <2> QED
    BY <1>1, <2>1, <2>2
<1> QED
  BY <1>1, <1>2, <1>3 DEF LocksInv, new

(* A rejected request, whatever is locked for it. *)
LEMMA RejectedLocks ==
  ASSUME NEW i, LocksInv(i), NEW t \in Tx
  PROVE  /\ LocksInv(ReqRejected(i, t))
         /\ ReqRejected(i, t).mapTxLockReq = i.mapTxLockReq
<1> DEFINE new == [i EXCEPT !.mapTxLockReqRejected = @ \cup {t}]
<1>1. /\ new \in LockMaps
      /\ new.mapTxLockReq = i.mapTxLockReq
      /\ new.mapTxLockReqRejected = i.mapTxLockReqRejected \cup {t}
      /\ new.mapTxLockVote = i.mapTxLockVote
      /\ new.mapTxLocks = i.mapTxLocks
      /\ new.mapLockedInputs = i.mapLockedInputs
  BY DEF LocksInv, LockMaps
<1>2. ReqRejected(i, t) = LockInputs(new, t)
  BY DEF ReqRejected
<1> HIDE DEF new
<1>3. VotesOnce(new) /\ LocksKnown(new)
  BY <1>1 DEF LocksInv, VotesOnce, LocksKnown, Complete
<1> QED
  BY <1>1, <1>2, <1>3, LockInputsLocks DEF LocksInv

(* Locks that another vote, an expiry or a conflict changed.  What is       *)
(* complete stays complete, so the locked inputs keep their reason.         *)
LEMMA ChangedLocks ==
  ASSUME NEW i, LocksInv(i), NEW k \in LockMaps, NEW x,
         k.mapTxLockReq = i.mapTxLockReq,
         k.mapTxLockReqRejected = i.mapTxLockReqRejected,
         k.mapLockedInputs = i.mapLockedInputs,
         \A t \in Tx : i.mapTxLocks[t] # None =>
           Advanced(i.mapTxLocks[t], k.mapTxLocks[t], x)
  PROVE  LocksKnown(k)
<1> SUFFICES ASSUME NEW o \in OutPoint, NEW u, u = k.mapLockedInputs[o], u # None
             PROVE  /\ o \in Inputs[u]
                    /\ u \in k.mapTxLockReq \cup k.mapTxLockReqRejected
                    /\ u \notin k.mapTxLockReqRejected => Complete(k, u)
  BY DEF LocksKnown
<1>1. u \in Tx
  BY DEF LockMaps
<1>2. /\ o \in Inputs[u]
      /\ u \in i.mapTxLockReq \cup i.mapTxLockReqRejected
      /\ u \notin i.mapTxLockReqRejected => Complete(i, u)
  BY DEF LocksInv, LocksKnown
<1>3. ASSUME Complete(i, u) PROVE Complete(k, u)
  <2>1. i \in LockMaps /\ i.mapTxLocks[u] # None
    BY <1>3 DEF LocksInv, Complete
  <2> QED
    BY <1>1, <1>3, <2>1, CompleteStays
<1> QED
  BY <1>2, <1>3

(* AddSignature counts a vote that was just remembered, and was not there   *)
(* before.                                                                  *)
LEMMA CountedLocks ==
  ASSUME NEW i, LocksInv(i), NEW v \in FloatingCity \X Tx \X Nat,
         <<v[1], v[2]>> \notin i.mapTxLockVote
  PROVE  LET new == AddSignature(SeenVote(i, v), v)
         IN  /\ LocksInv(new)
             /\ new.mapTxLockReq = i.mapTxLockReq
             /\ new.mapTxLockReqRejected = i.mapTxLockReqRejected
             /\ new.mapLockedInputs = i.mapLockedInputs
<1> DEFINE seen == SeenVote(i, v)
           new == AddSignature(seen, v)
           t == v[2]
           x == <<v[1], v[3]>>
           was == i.mapTxLocks[t]
           old == IF was = None THEN NewLock(0) ELSE was
           lock == [old EXCEPT !.votes = Append(old.votes, x)]
<1>1. t \in Tx /\ v[1] \in FloatingCity /\ x \in FloatingCity \X Nat /\ x[1] = v[1]
  OBVIOUS
<1>2. /\ LocksInv(seen)
      /\ seen.mapTxLockReq = i.mapTxLockReq
      /\ seen.mapTxLockReqRejected = i.mapTxLockReqRejected
      /\ seen.mapLockedInputs = i.mapLockedInputs
      /\ seen.mapTxLocks = i.mapTxLocks
      /\ seen.mapTxLockVote = i.mapTxLockVote \cup {<<v[1], t>>}
  BY <1>1, SeenLocks
<1> HIDE DEF seen
<1>3. new = [seen EXCEPT !.mapTxLocks = [seen.mapTxLocks EXCEPT ![t] = lock]]
  BY <1>2 DEF AddSignature
<1> HIDE DEF t, x
<1>4. i \in LockMaps /\ seen \in LockMaps /\ was \in Lock \cup {None}
  BY <1>1, <1>2 DEF LocksInv, LockMaps
<1> HIDE DEF was, new
<1>5. old \in Lock /\ (was = None => old.votes = <<>>)
  <2>1. NewLock(0) \in Lock /\ NewLock(0).votes = <<>>
    <3>1. <<>> \in Seq(FloatingCity \X Nat)
      OBVIOUS
    <3> QED
      BY <3>1 DEF NewLock, Lock
  <2> QED
    BY <1>4, <2>1
<1>6. was # None => old = was
  OBVIOUS
<1> HIDE DEF old
<1>7. /\ lock \in Lock /\ lock.votes = Append(old.votes, x)
      /\ old.votes \in Seq(FloatingCity \X Nat)
  <2>1. old.votes \in Seq(FloatingCity \X Nat)
    BY <1>5 DEF Lock
  <2> DEFINE w == Append(old.votes, x)
  <2>2. w \in Seq(FloatingCity \X Nat)
    BY <1>1, <2>1
  <2> HIDE DEF w
  <2>3. [old EXCEPT !.votes = w] \in Lock /\ [old EXCEPT !.votes = w].votes = w
    BY <1>5, <2>2 DEF Lock
  <2> QED
    BY <2>1, <2>3 DEF w
<1>8. lock = [old EXCEPT !.votes = Append(old.votes, x)]
  OBVIOUS
<1> HIDE DEF lock
<1>9. /\ new \in LockMaps
      /\ new.mapTxLockReq = i.mapTxLockReq
      /\ new.mapTxLockReqRejected = i.mapTxLockReqRejected
      /\ new.mapLockedInputs = i.mapLockedInputs
      /\ new.mapTxLockVote = i.mapTxLockVote \cup {<<v[1], t>>}
      /\ \A u \in Tx : new.mapTxLocks[u] = IF u = t THEN lock ELSE i.mapTxLocks[u]
  BY <1>2, <1>3, <1>4, <1>7 DEF LockMaps
<1>10. LocksKnown(new)
  <2>1. ASSUME NEW u \in Tx, i.mapTxLocks[u] # None
        PROVE  Advanced(i.mapTxLocks[u], new.mapTxLocks[u], x)
    <3>1. CASE u = t
      <4>1. old = i.mapTxLocks[u] /\ new.mapTxLocks[u] = lock
        BY <1>6, <1>9, <2>1, <3>1 DEF was
      <4> QED
        BY <1>7, <1>8, <4>1 DEF Advanced
    <3>2. CASE u # t
      BY <1>9, <3>2 DEF Advanced
    <3> QED
      BY <3>1, <3>2
  <2> QED
    BY <1>9, <2>1, ChangedLocks
<1>11. VotesOnce(new)
  <2> SUFFICES ASSUME NEW u \in Tx, new.mapTxLocks[u] # None
               PROVE  LET votes == new.mapTxLocks[u].votes
                      IN  /\ \A j \in 1..Len(votes) : <<votes[j][1], u>> \in new.mapTxLockVote
                          /\ \A j, k \in 1..Len(votes) : votes[j][1] = votes[k][1] => j = k
    BY DEF VotesOnce
  <2>1. CASE u # t
    <3>1. new.mapTxLocks[u] = i.mapTxLocks[u]
      BY <1>9, <2>1
    <3> QED
      BY <1>9, <3>1 DEF LocksInv, VotesOnce
  <2>2. CASE u = t
    <3> DEFINE n == Len(old.votes)
    <3>1. new.mapTxLocks[u] = lock
      BY <1>9, <2>2
    <3>2. /\ \A j \in 1..n : <<old.votes[j][1], t>> \in i.mapTxLockVote
          /\ \A j, k \in 1..n : old.votes[j][1] = old.votes[k][1] => j = k
      <4>1. CASE was = None
        BY <1>5, <4>1
      <4>2. CASE was # None
        BY <1>1, <1>6, <4>2 DEF LocksInv, VotesOnce, was
      <4> QED
        BY <4>1, <4>2
    <3>3. /\ n \in Nat /\ Len(lock.votes) = n + 1
          /\ \A j \in 1..n : lock.votes[j] = old.votes[j]
          /\ lock.votes[n + 1] = x
      BY <1>7
    <3>4. \A j \in 1..n : old.votes[j][1] # v[1]
      BY <3>2 DEF t
    <3> HIDE DEF n
    <3>5. \A j \in 1..(n + 1) : j \in 1..n \/ j = n + 1
      BY <3>3
    <3>6. ASSUME NEW j \in 1..(n + 1) PROVE <<lock.votes[j][1], t>> \in new.mapTxLockVote
      BY <1>1, <1>9, <3>2, <3>3, <3>5
    <3>7. ASSUME NEW j \in 1..(n + 1), NEW k \in 1..(n + 1),
                 lock.votes[j][1] = lock.votes[k][1]
          PROVE  j = k
      <4>1. CASE j \in 1..n /\ k \in 1..n
        BY <3>2, <3>3, <3>7, <4>1
      <4>2. CASE j \in 1..n /\ k = n + 1
        BY <1>1, <3>3, <3>4, <3>7, <4>2
      <4>3. CASE j = n + 1 /\ k \in 1..n
        BY <1>1, <3>3, <3>4, <3>7, <4>3
      <4> QED
        BY <3>5, <4>1, <4>2, <4>3
    <3> QED
      BY <2>2, <3>1, <3>3, <3>6, <3>7
  <2> QED
    BY <2>1, <2>2
<1> QED
  BY <1>9, <1>10, <1>11 DEF LocksInv, new, seen

(* Locks of which some have expired. *)
LEMMA ExpiredLocks ==
  ASSUME NEW i, LocksInv(i), NEW k \in LockMaps,
         k.mapTxLockReq = i.mapTxLockReq,
         k.mapTxLockReqRejected = i.mapTxLockReqRejected,
         k.mapTxLockVote = i.mapTxLockVote,
         k.mapLockedInputs = i.mapLockedInputs,
         \A t \in Tx :
           \/ k.mapTxLocks[t] = i.mapTxLocks[t]
           \/ /\ i.mapTxLocks[t] # None
              /\ k.mapTxLocks[t] = [i.mapTxLocks[t] EXCEPT !.expired = TRUE]
  PROVE  LocksInv(k)
<1>1. LocksKnown(k)
  <2>1. \A t \in Tx : i.mapTxLocks[t] # None => Advanced(i.mapTxLocks[t], k.mapTxLocks[t], 0)
    BY DEF Advanced
  <2> QED
    BY <2>1, ChangedLocks
<1>2. VotesOnce(k)
  <2>1. ASSUME NEW t \in Tx, k.mapTxLocks[t] # None
        PROVE  i.mapTxLocks[t] # None /\ k.mapTxLocks[t].votes = i.mapTxLocks[t].votes
    <3>1. CASE k.mapTxLocks[t] = i.mapTxLocks[t]
      BY <2>1, <3>1
    <3>2. CASE /\ i.mapTxLocks[t] # None
               /\ k.mapTxLocks[t] = [i.mapTxLocks[t] EXCEPT !.expired = TRUE]
      <4>1. i.mapTxLocks[t] \in Lock
        BY <3>2 DEF LocksInv, LockMaps
      <4> QED
        BY <3>2, <4>1 DEF Lock
    <3> QED
      BY <3>1, <3>2
  <2>2. ASSUME NEW t \in Tx, k.mapTxLocks[t] # None
        PROVE  LET votes == k.mapTxLocks[t].votes
               IN  /\ \A j \in 1..Len(votes) : <<votes[j][1], t>> \in k.mapTxLockVote
                   /\ \A j, l \in 1..Len(votes) : votes[j][1] = votes[l][1] => j = l
    <3>1. i.mapTxLocks[t] # None /\ k.mapTxLocks[t].votes = i.mapTxLocks[t].votes
      BY <2>1, <2>2
    <3> QED
      BY <3>1 DEF LocksInv, VotesOnce
  <2> QED
    BY <2>2 DEF VotesOnce
<1> QED
  BY <1>1, <1>2 DEF LocksInv

(* Two complete locks that conflict cancel each other out. *)
LEMMA CancelLocks ==
  ASSUME NEW i, LocksInv(i), NEW t, NEW o
  PROVE  /\ LocksInv(CancelBoth(i, t, o))
         /\ CancelBoth(i, t, o).mapTxLockReq = i.mapTxLockReq
<1> DEFINE new == CancelBoth(i, t, o)
           cancelled(u) == [i.mapTxLocks[u] EXCEPT !.expired = TRUE]
           gone(u) == u \in {t, i.mapLockedInputs[o]} /\ i.mapTxLocks[u] # None
           locks == [u \in Tx |-> IF gone(u) THEN cancelled(u) ELSE i.mapTxLocks[u]]
<1>1. new = [i EXCEPT !.mapTxLocks = locks]
  BY DEF CancelBoth
<1>2. i \in LockMaps
  BY DEF LocksInv
<1>3. ASSUME NEW u \in Tx PROVE locks[u] \in Lock \cup {None}
  <2>1. i.mapTxLocks[u] \in Lock \cup {None}
    BY <1>2 DEF LockMaps
  <2>2. i.mapTxLocks[u] # None => cancelled(u) \in Lock
    BY <2>1 DEF Lock
  <2> QED
    BY <2>1, <2>2
<1>4. ASSUME NEW u \in Tx
      PROVE  \/ locks[u] = i.mapTxLocks[u]
             \/ i.mapTxLocks[u] # None /\ locks[u] = cancelled(u)
  <2>1. CASE gone(u)
    BY <2>1, Zenon
  <2>2. CASE ~ gone(u)
    BY <2>2, Zenon
  <2> QED
    BY <2>1, <2>2
<1>5. locks \in [Tx -> Lock \cup {None}]
  BY <1>3
<1> HIDE DEF locks, new
<1>6. /\ new \in LockMaps
      /\ new.mapTxLockReq = i.mapTxLockReq
      /\ new.mapTxLockReqRejected = i.mapTxLockReqRejected
      /\ new.mapTxLockVote = i.mapTxLockVote
      /\ new.mapLockedInputs = i.mapLockedInputs
      /\ new.mapTxLocks = locks
  BY <1>1, <1>2, <1>5 DEF LockMaps
<1>7. LocksInv(new)
  BY <1>4, <1>6, ExpiredLocks
<1> QED
  BY <1>6, <1>7 DEF new

(* A lock whose time is over. *)
LEMMA ExpireLocks ==
  ASSUME NEW i, LocksInv(i), NEW t \in Tx, i.mapTxLocks[t] # None
  PROVE  LET new == [i EXCEPT !.mapTxLocks[t].expired = TRUE]
         IN  LocksInv(new) /\ new.mapTxLockReq = i.mapTxLockReq
<1> DEFINE lock == [i.mapTxLocks[t] EXCEPT !.expired = TRUE]
           new == [i EXCEPT !.mapTxLocks[t].expired = TRUE]
<1>1. new = [i EXCEPT !.mapTxLocks = [i.mapTxLocks EXCEPT ![t] = lock]]
  BY Zenon
<1>2. i \in LockMaps
  BY DEF LocksInv
<1>3. lock \in Lock
  <2>1. i.mapTxLocks[t] \in Lock
    BY <1>2 DEF LockMaps
  <2> QED
    BY <2>1 DEF Lock
<1>4. lock = [i.mapTxLocks[t] EXCEPT !.expired = TRUE]
  OBVIOUS
<1> HIDE DEF lock, new
<1>5. /\ new \in LockMaps
      /\ new.mapTxLockReq = i.mapTxLockReq
      /\ new.mapTxLockReqRejected = i.mapTxLockReqRejected
      /\ new.mapTxLockVote = i.mapTxLockVote
      /\ new.mapLockedInputs = i.mapLockedInputs
      /\ \A u \in Tx : new.mapTxLocks[u] = IF u = t THEN lock ELSE i.mapTxLocks[u]
  BY <1>1, <1>2, <1>3 DEF LockMaps
<1>6. ASSUME NEW u \in Tx
      PROVE  \/ new.mapTxLocks[u] = i.mapTxLocks[u]
             \/ /\ i.mapTxLocks[u] # None
                /\ new.mapTxLocks[u] = [i.mapTxLocks[u] EXCEPT !.expired = TRUE]
  BY <1>4, <1>5
<1>7. LocksInv(new)
  BY <1>5, <1>6, ExpiredLocks
<1> QED
  BY <1>5, <1>7 DEF new

(* CleanTransactionLocksList: an accepted request whose lock goes is in     *)
(* mapTxLockReq, so that its inputs are released with it.                   *)
LEMMA CleanKeepsLocks ==
  ASSUME NEW i, LocksInv(i)
  PROVE  /\ LocksInv(CleanTransactionLocksList(i))
         /\ CleanTransactionLocksList(i).mapTxLockReq \subseteq i.mapTxLockReq
<1> DEFINE new == CleanTransactionLocksList(i)
           known == Expired(i) \cap i.mapTxLockReq
<1>1. i \in LockMaps
  BY DEF LocksInv
<1>2. /\ new.mapTxLockReq = i.mapTxLockReq \ known
      /\ new.mapTxLockReqRejected = i.mapTxLockReqRejected \ known
      /\ new.mapTxLockVote \subseteq i.mapTxLockVote
      /\ \A v \in i.mapTxLockVote : v[2] \notin known => v \in new.mapTxLockVote
      /\ new.mapTxLocks = [t \in Tx |-> IF t \in Expired(i) THEN None ELSE i.mapTxLocks[t]]
      /\ new.mapLockedInputs = Released(i, known)
      /\ new = [mapTxLockReq |-> new.mapTxLockReq, mapTxLockReqRejected |-> new.mapTxLockReqRejected,
                mapTxLockVote |-> new.mapTxLockVote, mapTxLocks |-> new.mapTxLocks,
                mapLockedInputs |-> new.mapLockedInputs]
  BY DEF CleanTransactionLocksList
<1> HIDE DEF new, known
<1>3. /\ new.mapTxLocks \in [Tx -> Lock \cup {None}]
      /\ new.mapLockedInputs \in [OutPoint -> Tx \cup {None}]
  BY <1>1, <1>2 DEF LockMaps, Released
<1>4. new \in LockMaps
  BY <1>1, <1>2, <1>3 DEF LockMaps
<1>5. VotesOnce(new)
  <2> SUFFICES ASSUME NEW t \in Tx, new.mapTxLocks[t] # None
               PROVE  LET votes == new.mapTxLocks[t].votes
                      IN  /\ \A j \in 1..Len(votes) : <<votes[j][1], t>> \in new.mapTxLockVote
                          /\ \A j, k \in 1..Len(votes) : votes[j][1] = votes[k][1] => j = k
    BY DEF VotesOnce
  <2>1. new.mapTxLocks[t] = i.mapTxLocks[t] /\ t \notin known
    BY <1>2 DEF known
  <2> QED
    BY <1>2, <2>1 DEF LocksInv, VotesOnce
<1>6. LocksKnown(new)
  <2> SUFFICES ASSUME NEW o \in OutPoint, NEW u, u = new.mapLockedInputs[o], u # None
               PROVE  /\ o \in Inputs[u]
                      /\ u \in new.mapTxLockReq \cup new.mapTxLockReqRejected
                      /\ u \notin new.mapTxLockReqRejected => Complete(new, u)
    BY DEF LocksKnown
  <2>1. u = i.mapLockedInputs[o] /\ u \in Tx /\ \A t \in known : o \notin Inputs[t]
    BY <1>2, <1>3 DEF Released
  <2>2. /\ o \in Inputs[u]
        /\ u \in i.mapTxLockReq \cup i.mapTxLockReqRejected
        /\ u \notin i.mapTxLockReqRejected => Complete(i, u)
    BY <2>1 DEF LocksInv, LocksKnown
  <2>3. u \notin known
    BY <2>1, <2>2
  <2>4. u \notin i.mapTxLockReqRejected => new.mapTxLocks[u] = i.mapTxLocks[u]
    BY <1>2, <2>1, <2>2, <2>3 DEF known
  <2> QED
    BY <1>2, <2>2, <2>3, <2>4 DEF Complete
<1> QED
  BY <1>2, <1>4, <1>5, <1>6 DEF LocksInv, new

-----------------------------------------------------------------------------
(* The pool and the chain. *)

(* The index that belongs to the chain has a place for every transaction of *)
(* the chain, and its inputs are spent.                                     *)
LEMMA IndexOfChain ==
  ASSUME NEW b \in Block
  PROVE  /\ PosAt[b] \in [Tx -> Block \cup {None}]
         /\ \A t \in Tx : t \in ChainTxs(b) => PosAt[b][t] # None
         /\ \A t \in Tx : \A o \in Inputs[t] : t \in ChainTxs(b) => SpentAt[b][o] # None
<1>1. ConnectedBlocks(b) \subseteq Block
  BY TreeAssumption DEF ConnectedBlocks
<1>2. \A a \in Block : TxsOf(a) \subseteq Tx
  BY TxAssumption DEF TxsOf
<1>3. ChainTxs(b) \subseteq Tx
  BY <1>1, <1>2 DEF ChainTxs
<1>4. ASSUME NEW t \in Tx
      PROVE  /\ PosAt[b][t] \in Block \cup {None}
             /\ t \in ChainTxs(b) => PosAt[b][t] # None
  <2> DEFINE a == CHOOSE c \in ConnectedBlocks(b) : t \in TxsOf(c)
  <2>1. PosAt[b][t] = IF t \in ChainTxs(b) THEN a ELSE None
    BY DEF PosAt
  <2>2. t \in ChainTxs(b) => a \in Block
    <3>1. t \in ChainTxs(b) => \E c \in ConnectedBlocks(b) : t \in TxsOf(c)
      BY DEF ChainTxs
    <3>2. t \in ChainTxs(b) => a \in ConnectedBlocks(b)
      BY <3>1
    <3> QED
      BY <1>1, <3>2
  <2> HIDE DEF a
  <2> QED
    BY <2>1, <2>2, TxAssumption
<1>5. ASSUME NEW t \in Tx, NEW o \in Inputs[t], t \in ChainTxs(b)
      PROVE  SpentAt[b][o] # None
  <2> DEFINE spenders == { x \in ChainTxs(b) : o \in Inputs[x] }
             y == CHOOSE x \in spenders : TRUE
  <2>1. t \in spenders
    BY <1>5
  <2>2. y \in spenders
    BY <2>1
  <2>3. y \in Tx
    BY <1>3, <2>2
  <2>4. o \in OutPoint
    BY TxAssumption
  <2>5. SpentAt[b][o] = y
    BY <2>1, <2>4 DEF SpentAt
  <2> QED
    BY <2>3, <2>5, TxAssumption
<1>6. PosAt[b] = [t \in Tx |-> PosAt[b][t]]
  BY DEF PosAt
<1> QED
  BY <1>4, <1>5, <1>6

(* A new process has an empty pool and no requests. *)
LEMMA EmptyPoolInv ==
  ASSUME NEW b \in Block
  PROVE  PoolInv(NoLocks, EmptyPool, b)
  BY DEF PoolInv, NoLocks, EmptyPool, NextTxMatches, RequestsHeld

(* A transaction that AcceptToMemoryPool accepts spends nothing that a      *)
(* requested one spends, be that still in the pool or confirmed, and is     *)
(* not a requested one itself.  Its request may follow.                     *)
LEMMA AcceptedPool ==
  ASSUME RelayInv, NEW t \in Tx, Accepts(t)
  PROVE  /\ t \notin ix.mapTxLockReq
         /\ \A i : i.mapTxLockReq \subseteq ix.mapTxLockReq \cup {t} =>
                  PoolInv(i, addUnchecked(mempool, t), best)
<1> DEFINE new == addUnchecked(mempool, t)
<1>1. /\ best \in Block
      /\ mempool \in [mapTx : SUBSET Tx, mapNextTx : SUBSET (OutPoint \X Tx)]
      /\ NextTxMatches(mempool)
      /\ RequestsHeld(ix, mempool, best)
      /\ ix \in LockMaps
  BY DEF RelayInv, PoolInv, LocksInv
<1>2. /\ t \notin mempool.mapTx
      /\ Spending(mempool, Inputs[t]) = {}
      /\ PosAt[best][t] = None
      /\ \A o \in Inputs[t] : SpentAt[best][o] = None
  BY DEF Accepts, Acceptable, InputsConnect, pos, spent
<1>3. /\ new.mapTx = mempool.mapTx \cup {t}
      /\ new.mapNextTx = mempool.mapNextTx \cup (Inputs[t] \X {t})
      /\ new = [mapTx |-> new.mapTx, mapNextTx |-> new.mapNextTx]
  BY <1>2 DEF addUnchecked
<1>4. NextTxMatches(new)
  BY <1>1, <1>2, AddKeepsNext
<1> HIDE DEF new
<1>5. new \in [mapTx : SUBSET Tx, mapNextTx : SUBSET (OutPoint \X Tx)]
  <2>1. Inputs[t] \X {t} \subseteq OutPoint \X Tx
    BY TxAssumption
  <2> QED
    BY <1>1, <1>3, <2>1
<1>6. t \notin ChainTxs(best)
  BY <1>1, <1>2, IndexOfChain
<1>7. t \notin ix.mapTxLockReq
  BY <1>1, <1>2, <1>6 DEF RequestsHeld
<1>8. ASSUME NEW u \in ix.mapTxLockReq PROVE Inputs[u] \cap Inputs[t] = {}
  <2> SUFFICES ASSUME NEW o \in Inputs[u], o \in Inputs[t] PROVE FALSE
    OBVIOUS
  <2>1. u \in Tx
    BY <1>1 DEF LockMaps
  <2>2. CASE u \in ChainTxs(best)
    BY <1>1, <1>2, <2>1, <2>2, IndexOfChain
  <2>3. CASE u \in mempool.mapTx
    <3>1. <<o, u>> \in mempool.mapNextTx /\ <<o, u>>[1] = o
      BY <1>1, <2>3 DEF NextTxMatches
    <3> QED
      BY <1>2, <3>1 DEF Spending
  <2> QED
    BY <1>1, <2>2, <2>3 DEF RequestsHeld
<1>9. ASSUME NEW i, i.mapTxLockReq \subseteq ix.mapTxLockReq \cup {t}
      PROVE  RequestsHeld(i, new, best)
  <2> SUFFICES ASSUME NEW u \in i.mapTxLockReq
               PROVE  /\ u \in new.mapTx \cup ChainTxs(best)
                      /\ \A e \in new.mapNextTx : e[1] \in Inputs[u] => e[2] = u
    BY DEF RequestsHeld
  <2>1. \A e \in Inputs[t] \X {t} : e[1] \in Inputs[t] /\ e[2] = t
    OBVIOUS
  <2>2. CASE u = t
    <3>1. \A e \in mempool.mapNextTx : e[1] \notin Inputs[t]
      BY <1>2 DEF Spending
    <3> QED
      BY <1>3, <2>1, <2>2, <3>1
  <2>3. CASE u \in ix.mapTxLockReq
    <3>1. /\ u \in mempool.mapTx \cup ChainTxs(best)
          /\ \A e \in mempool.mapNextTx : e[1] \in Inputs[u] => e[2] = u
      BY <1>1, <2>3 DEF RequestsHeld
    <3>2. \A e \in Inputs[t] \X {t} : e[1] \notin Inputs[u]
      BY <1>8, <2>1, <2>3
    <3> QED
      BY <1>3, <3>1, <3>2
  <2> QED
    BY <1>9, <2>2, <2>3
<1> QED
  BY <1>1, <1>4, <1>5, <1>7, <1>9 DEF PoolInv, new

(* Fewer requests ask for less. *)
LEMMA FewerRequests ==
  ASSUME NEW i, NEW k, NEW pool, NEW b, PoolInv(i, pool, b),
         k.mapTxLockReq \subseteq i.mapTxLockReq
  PROVE  PoolInv(k, pool, b)
  BY DEF PoolInv, RequestsHeld

(* A block takes its transactions from the pool into the chain. *)
LEMMA ConnectedPool ==
  ASSUME NEW i, NEW pool, NEW b \in Block \ {Genesis}, PoolInv(i, pool, Parent[b])
  PROVE  PoolInv(i, Without(pool, pool.mapTx \cap TxsOf(b)), b)
<1> DEFINE D == pool.mapTx \cap TxsOf(b)
           new == Without(pool, D)
<1>1. /\ new.mapTx = pool.mapTx \ D
      /\ new.mapNextTx \subseteq pool.mapNextTx
      /\ new = [mapTx |-> new.mapTx, mapNextTx |-> new.mapNextTx]
  BY DEF Without
<1>2. D \in SUBSET pool.mapTx
  OBVIOUS
<1>3. NextTxMatches(new)
  BY <1>2, WithoutKeepsNext DEF PoolInv
<1> HIDE DEF new
<1>4. new \in [mapTx : SUBSET Tx, mapNextTx : SUBSET (OutPoint \X Tx)]
  BY <1>1 DEF PoolInv
<1>5. ChainTxs(b) = ChainTxs(Parent[b]) \cup TxsOf(b)
  <2>1. ConnectedBlocks(b) = ConnectedBlocks(Parent[b]) \cup {b}
    BY TreeAssumption DEF ConnectedBlocks
  <2> QED
    BY <2>1 DEF ChainTxs
<1>6. RequestsHeld(i, new, b)
  BY <1>1, <1>5 DEF PoolInv, RequestsHeld
<1> QED
  BY <1>3, <1>4, <1>6 DEF PoolInv, new

-----------------------------------------------------------------------------
(* The steps of the node. *)

(* The txlreq handler.  No input is locked yet for a request that is new. *)
LEMMA TxLockRequestKeeps ==
  ASSUME RelayInv, NEW t \in Tx \ CoinBase, TxLockRequest(t)
  PROVE  LocksInv(ix') /\ PoolInv(ix', mempool', best')
<1> DEFINE made == CreateNewLock(ix, t, pos, best)
           rejected == ReqRejected(made, t)
<1>1. /\ best \in Block /\ PoolInv(ix, mempool, best) /\ LocksInv(ix)
      /\ best' = best
      /\ t \notin ix.mapTxLockReq \cup ix.mapTxLockReqRejected
  BY DEF RelayInv, PoolInv, TxLockRequest
<1>2. pos \in [Tx -> Block \cup {None}]
  BY <1>1, IndexOfChain DEF pos
<1>3. \A o \in OutPoint : ix.mapLockedInputs[o] # t
  BY <1>1, TxAssumption DEF LocksInv, LocksKnown
<1>4. LocksInv(made) /\ made.mapTxLockReq = ix.mapTxLockReq
  BY <1>1, <1>2, <1>3, CreateLocks
<1> HIDE DEF made
<1>5. LocksInv(rejected) /\ rejected.mapTxLockReq = ix.mapTxLockReq
  BY <1>4, RejectedLocks
<1> HIDE DEF rejected
<1>6. ASSUME NEW voted \in DoConsensusVote(made, t), Accepts(t),
             ix' = ReqAccepted(voted, t), mempool' = addUnchecked(mempool, t)
      PROVE  LocksInv(ix') /\ PoolInv(ix', mempool', best')
  <2>1. LocksInv(voted) /\ voted.mapTxLockReq = ix.mapTxLockReq
    <3>1. CASE voted = made
      BY <1>4, <3>1
    <3>2. CASE Self # None /\ voted = SeenVote(made, <<Self, t>>)
      <4>1. Self \in FloatingCity
        BY <3>2, RelayAssumption
      <4> DEFINE v == <<Self, t>>
      <4>2. <<v[1], v[2]>> \in FloatingCity \X Tx
        BY <4>1
      <4> HIDE DEF v
      <4>3. LocksInv(SeenVote(made, v)) /\ SeenVote(made, v).mapTxLockReq = made.mapTxLockReq
        BY <1>4, <4>2, SeenLocks
      <4> QED
        BY <1>4, <3>2, <4>3 DEF v
    <3> QED
      BY <3>1, <3>2 DEF DoConsensusVote
  <2>2. LocksInv(ix') /\ ix'.mapTxLockReq = ix.mapTxLockReq \cup {t}
    BY <1>6, <2>1, AcceptedLocks
  <2> QED
    BY <1>1, <1>6, <2>2, AcceptedPool
<1>7. ASSUME ix' = rejected, mempool' = mempool
      PROVE  LocksInv(ix') /\ PoolInv(ix', mempool', best')
  BY <1>1, <1>5, <1>7, FewerRequests
<1>8. ASSUME NEW o, ix' = CancelBoth(rejected, t, o), mempool' = mempool
      PROVE  LocksInv(ix') /\ PoolInv(ix', mempool', best')
  <2>1. LocksInv(ix') /\ ix'.mapTxLockReq = ix.mapTxLockReq
    BY <1>5, <1>8, CancelLocks
  <2> QED
    BY <1>1, <1>8, <2>1, FewerRequests
<1>9. ASSUME ProcessEnds PROVE LocksInv(ix') /\ PoolInv(ix', mempool', best')
  BY <1>1, <1>9, NoLocksInv, EmptyPoolInv DEF ProcessEnds
<1>10. \/ /\ Accepts(t) /\ mempool' = addUnchecked(mempool, t)
          /\ \E voted \in DoConsensusVote(made, t) : ix' = ReqAccepted(voted, t)
       \/ ix' = rejected /\ mempool' = mempool
       \/ (\E o : ix' = CancelBoth(rejected, t, o)) /\ mempool' = mempool
       \/ ProcessEnds
  BY DEF TxLockRequest, made, rejected
<1> QED
  BY <1>6, <1>7, <1>8, <1>9, <1>10

(* The wallet's own request.  The pool has just accepted the transaction,   *)
(* so that it was not a requested one, and what is locked for it is locked  *)
(* because its request was rejected before.                                 *)
LEMMA WalletRequestKeeps ==
  ASSUME RelayInv, NEW t \in Tx \ CoinBase, WalletLockRequest(t)
  PROVE  LocksInv(ix') /\ PoolInv(ix', mempool', best')
<1> DEFINE asked == ReqAccepted(ix, t)
<1>1. /\ best \in Block /\ LocksInv(ix) /\ Accepts(t)
      /\ best' = best /\ mempool' = addUnchecked(mempool, t)
      /\ ix' = CreateNewLock(asked, t, pos, best)
  BY DEF RelayInv, PoolInv, WalletLockRequest
<1>2. pos \in [Tx -> Block \cup {None}]
  BY <1>1, IndexOfChain DEF pos
<1>3. /\ LocksInv(asked)
      /\ asked.mapTxLockReq = ix.mapTxLockReq \cup {t}
      /\ asked.mapTxLockReqRejected = ix.mapTxLockReqRejected
      /\ asked.mapLockedInputs = ix.mapLockedInputs
  BY <1>1, AcceptedLocks
<1> HIDE DEF asked
<1>4. t \notin ix.mapTxLockReq
  BY <1>1, AcceptedPool
<1>5. ASSUME NEW o \in OutPoint, asked.mapLockedInputs[o] = t
      PROVE  t \in asked.mapTxLockReqRejected
  BY <1>1, <1>3, <1>4, <1>5, TxAssumption DEF LocksInv, LocksKnown
<1>6. LocksInv(ix') /\ ix'.mapTxLockReq = asked.mapTxLockReq
  BY <1>1, <1>2, <1>3, <1>5, CreateLocks
<1> QED
  BY <1>1, <1>3, <1>6, AcceptedPool

(* The txlvote handler.  A lock that completes is that of a known request,  *)
(* and if this was not rejected, it was accepted.                           *)
LEMMA TxLockVoteKeeps ==
  ASSUME RelayInv, NEW v \in FloatingCity \X Tx \X Nat, TxLockVote(v)
  PROVE  LocksInv(ix') /\ PoolInv(ix', mempool', best')
<1> DEFINE t == v[2]
           seen == SeenVote(ix, v)
           counted == AddSignature(seen, v)
<1>1. /\ best \in Block /\ PoolInv(ix, mempool, best) /\ LocksInv(ix)
      /\ HeightsRequested(ix, {})
      /\ best' = best
      /\ <<v[1], v[2]>> \notin ix.mapTxLockVote
  BY DEF RelayInv, PoolInv, TxLockVote, IsNewVote
<1>2. t \in Tx /\ <<v[1], v[2]>> \in FloatingCity \X Tx
  OBVIOUS
<1>3. LocksInv(seen) /\ seen.mapTxLockReq = ix.mapTxLockReq
  BY <1>1, <1>2, SeenLocks
<1>4. /\ LocksInv(counted)
      /\ counted.mapTxLockReq = ix.mapTxLockReq
      /\ counted.mapTxLockReqRejected = ix.mapTxLockReqRejected
  BY <1>1, CountedLocks
<1>5. HeightsRequested(counted, {})
  BY <1>1, SeenHeights, AddHeights
<1> HIDE DEF seen, counted
<1>6. ASSUME ix' = seen \/ ix' = counted, mempool' = mempool
      PROVE  LocksInv(ix') /\ PoolInv(ix', mempool', best')
  BY <1>1, <1>3, <1>4, <1>6, FewerRequests
<1>7. ASSUME NEW o, ix' = CancelBoth(counted, t, o), mempool' = mempool
      PROVE  LocksInv(ix') /\ PoolInv(ix', mempool', best')
  <2>1. LocksInv(ix') /\ ix'.mapTxLockReq = ix.mapTxLockReq
    BY <1>4, <1>7, CancelLocks
  <2> QED
    BY <1>1, <1>7, <2>1, FewerRequests
<1>8. ASSUME Complete(counted, t), t \notin ix.mapTxLockReqRejected,
             ix' = LockInputs(counted, t), mempool' = mempool
      PROVE  LocksInv(ix') /\ PoolInv(ix', mempool', best')
  <2>1. t \in counted.mapTxLockReq
    BY <1>2, <1>4, <1>5, <1>8 DEF HeightsRequested, Complete
  <2>2. LocksInv(ix') /\ ix'.mapTxLockReq = ix.mapTxLockReq
    BY <1>2, <1>4, <1>8, <2>1, LockInputsLocks
  <2> QED
    BY <1>1, <1>8, <2>2, FewerRequests
<1>9. ASSUME ProcessEnds PROVE LocksInv(ix') /\ PoolInv(ix', mempool', best')
  BY <1>1, <1>9, NoLocksInv, EmptyPoolInv DEF ProcessEnds
<1>10. \/ (ix' = seen \/ ix' = counted) /\ mempool' = mempool
       \/ (\E o : ix' = CancelBoth(counted, t, o)) /\ mempool' = mempool
       \/ /\ Complete(counted, t) /\ t \notin ix.mapTxLockReqRejected
          /\ ix' = LockInputs(counted, t) /\ mempool' = mempool
       \/ ProcessEnds
  BY DEF TxLockVote, seen, counted
<1> QED
  BY <1>6, <1>7, <1>8, <1>9, <1>10

(* The invariant holds at the start, *)
LEMMA RelayInvInit == Init => RelayInv
<1> SUFFICES ASSUME Init PROVE RelayInv
  OBVIOUS
<1>1. best \in Block /\ mempool = EmptyPool /\ ix = NoLocks
  BY TreeAssumption DEF Init
<1> QED
  BY <1>1, NoHeights, NoLocksInv, EmptyPoolInv DEF RelayInv

(* and every step of the node keeps it. *)
LEMMA RelayInvNext == RelayInv /\ [Next]_vars => RelayInv'
<1> SUFFICES ASSUME RelayInv, [Next]_vars PROVE RelayInv'
  OBVIOUS
<1> USE DEF Loose
<1>1. HeightsRequested(ix', {})
  BY HeightsNext DEF RelayInv
<1>2. LocksInv(ix) /\ PoolInv(ix, mempool, best)
  BY DEF RelayInv
<1> DEFINE Kept == LocksInv(ix') /\ PoolInv(ix', mempool', best')
<1>3. ASSUME NEW t \in Tx, NEW strCommand, ReceiveTx(t, strCommand) PROVE Kept
  <2>1. /\ ix' = ix /\ best' = best
        /\ \/ mempool' = mempool
           \/ Accepts(t) /\ mempool' = addUnchecked(mempool, t)
    BY <1>3 DEF ReceiveTx
  <2> QED
    BY <1>2, <2>1, AcceptedPool
<1>4. ASSUME NEW t \in Tx, RetryOrphan(t) PROVE Kept
  <2>1. /\ ix' = ix /\ best' = best
        /\ \/ mempool' = mempool
           \/ Accepts(t) /\ mempool' = addUnchecked(mempool, t)
    BY <1>4 DEF RetryOrphan
  <2> QED
    BY <1>2, <2>1, AcceptedPool
<1>5. ASSUME NextWork PROVE Kept
  BY <1>2, <1>5 DEF NextWork
<1>6. ASSUME NEW t \in Request, TxLockRequest(t) \/ WalletLockRequest(t) PROVE Kept
  BY <1>6, RelayAssumption, TxLockRequestKeeps, WalletRequestKeeps
<1>7. ASSUME NEW t \in Tx, LockExpires(t) PROVE Kept
  <2>1. /\ best' = best /\ mempool' = mempool /\ ix.mapTxLocks[t] # None
        /\ ix' = [ix EXCEPT !.mapTxLocks[t].expired = TRUE]
    BY <1>7, Zenon DEF LockExpires
  <2>2. LocksInv(ix') /\ ix'.mapTxLockReq = ix.mapTxLockReq
    BY <1>2, <2>1, ExpireLocks, Zenon
  <2> QED
    BY <1>2, <2>1, <2>2, FewerRequests
<1>8. ASSUME NEW v \in Vote, TxLockVote(v) PROVE Kept
  BY <1>8, RelayAssumption, TxLockVoteKeeps
<1>9. ASSUME CleanLocks PROVE Kept
  <2>1. best' = best /\ mempool' = mempool /\ ix' = CleanTransactionLocksList(ix)
    BY <1>9 DEF CleanLocks
  <2>2. LocksInv(ix') /\ ix'.mapTxLockReq \subseteq ix.mapTxLockReq
    BY <1>2, <2>1, CleanKeepsLocks
  <2> QED
    BY <1>2, <2>1, <2>2, FewerRequests
<1>10. ASSUME NEW b \in Block, ConnectBlock(b) PROVE Kept
  <2>1. /\ b # Genesis /\ Parent[b] = best /\ best' = b /\ ix' = ix
        /\ mempool' = Without(mempool, mempool.mapTx \cap TxsOf(b))
    BY <1>10 DEF ConnectBlock
  <2> QED
    BY <1>2, <2>1, ConnectedPool
<1>11. ASSUME UNCHANGED vars PROVE Kept
  BY <1>2, <1>11 DEF vars
<1>12. Kept
  BY <1>3, <1>4, <1>5, <1>6, <1>7, <1>8, <1>9, <1>10, <1>11 DEF Next
<1> QED
  BY <1>1, <1>12 DEF RelayInv

(* Two complete locks may cancel each other out, requests may be refused,   *)
(* locks expire and the process may end: the inputs locked for a request    *)
(* the pool accepted have the votes of enough different floatingcities.     *)
THEOREM AcceptedLocksAlwaysAgreed == Spec => []AcceptedLocksAgreed
<1>1. RelayInv => AcceptedLocksAgreed
  <2> SUFFICES ASSUME RelayInv, NEW o \in OutPoint, NEW t, t = ix.mapLockedInputs[o],
                      t # None, t \notin ix.mapTxLockReqRejected
               PROVE  Consensus(ix, t)
    BY DEF AcceptedLocksAgreed
  <2>1. ix \in LockMaps /\ VotesOnce(ix) /\ Complete(ix, t)
    BY DEF RelayInv, LocksInv, LocksKnown
  <2>2. t \in Tx
    BY <2>1 DEF LockMaps
  <2> QED
    BY <2>1, <2>2, CompleteIsConsensus
<1> QED
  BY <1>1, RelayInvInit, RelayInvNext, PTL DEF Spec

(* Nothing in the pool contradicts an input that is locked for an accepted  *)
(* request, in whatever order transactions, requests, votes and blocks      *)
(* come.                                                                    *)
THEOREM PoolAlwaysRespectsLocks == Spec => []PoolRespectsLocks
<1>1. RelayInv => PoolRespectsLocks
  <2> SUFFICES ASSUME RelayInv, NEW e \in mempool.mapNextTx, NEW t,
                      t = ix.mapLockedInputs[e[1]],
                      t # None, t \notin ix.mapTxLockReqRejected
               PROVE  e[2] = t
    BY DEF PoolRespectsLocks
  <2>1. e[1] \in OutPoint
    BY DEF RelayInv, PoolInv
  <2>2. e[1] \in Inputs[t] /\ t \in ix.mapTxLockReq
    BY <2>1 DEF RelayInv, LocksInv, LocksKnown
  <2> QED
    BY <2>2 DEF RelayInv, PoolInv, RequestsHeld
<1> QED
  BY <1>1, RelayInvInit, RelayInvNext, PTL DEF Spec

-----------------------------------------------------------------------------
(* What the loop over the orphans holds. *)
RetryTyped ==
  /\ orphans.mapOrphanTransactions \subseteq Tx
  /\ vWorkQueue \in Seq(Tx)
  /\ tried \subseteq Tx /\ vEraseQueue \subseteq Tx

(* Each step keeps it to transactions. *)
LEMMA RetryTypedNext == RetryTyped /\ [Next]_vars => RetryTyped'
<1> SUFFICES ASSUME RetryTyped, [Next]_vars PROVE RetryTyped'
  OBVIOUS
<1> USE DEF Loose, retry
<1>1. NoOrphanTxs.mapOrphanTransactions \subseteq Tx
  BY DEF NoOrphanTxs
<1>2. ASSUME NEW t \in Tx, NEW strCommand, ReceiveTx(t, strCommand) PROVE RetryTyped'
  <2>1. CASE vWorkQueue' = <<t>> /\ orphans' = orphans
    BY <1>2, <2>1 DEF ReceiveTx, RetryTyped
  <2>2. CASE /\ orphans' \in LimitOrphanTxSize(AddOrphanTx(orphans, t))
             /\ vWorkQueue' = vWorkQueue
    <3> DEFINE more == AddOrphanTx(orphans, t)
    <3>1. more.mapOrphanTransactions \subseteq Tx
      BY DEF AddOrphanTx, RetryTyped
    <3> HIDE DEF more
    <3>2. PICK D : orphans' = EraseOrphanTxs(more, D)
      BY <2>2 DEF LimitOrphanTxSize, more
    <3>3. orphans'.mapOrphanTransactions = more.mapOrphanTransactions \ D
      BY <3>2 DEF EraseOrphanTxs
    <3> QED
      BY <1>2, <2>2, <3>1, <3>3 DEF ReceiveTx, RetryTyped
  <2> QED
    BY <1>2, <2>1, <2>2 DEF ReceiveTx
<1>3. ASSUME NEW t \in Tx, RetryOrphan(t) PROVE RetryTyped'
  BY <1>3 DEF RetryOrphan, RetryTyped
<1>4. CASE NextWork
  <2>1. vWorkQueue' \in Seq(Tx) /\ tried' = {} /\ vEraseQueue' \subseteq Tx
    BY <1>4 DEF NextWork, Idle, RetryTyped
  <2>2. orphans' = orphans \/ orphans' = EraseOrphanTxs(orphans, vEraseQueue)
    BY <1>4 DEF NextWork
  <2>3. orphans'.mapOrphanTransactions \subseteq Tx
    BY <2>2 DEF EraseOrphanTxs, RetryTyped
  <2> QED
    BY <2>1, <2>3 DEF RetryTyped
<1>5. ASSUME UNCHANGED retry, orphans' = orphans \/ orphans' = NoOrphanTxs
      PROVE  RetryTyped'
  BY <1>1, <1>5 DEF RetryTyped
<1>6. ASSUME NEW t, TxLockRequest(t) \/ WalletLockRequest(t) \/ LockExpires(t)
      PROVE  UNCHANGED retry /\ (orphans' = orphans \/ orphans' = NoOrphanTxs)
  <2>1. CASE TxLockRequest(t)
    BY <2>1 DEF TxLockRequest, ProcessEnds
  <2>2. CASE WalletLockRequest(t)
    BY <2>2 DEF WalletLockRequest
  <2>3. CASE LockExpires(t)
    BY <2>3 DEF LockExpires
  <2> QED
    BY <1>6, <2>1, <2>2, <2>3
<1>7. ASSUME NEW v, TxLockVote(v)
      PROVE  UNCHANGED retry /\ (orphans' = orphans \/ orphans' = NoOrphanTxs)
  BY <1>7 DEF TxLockVote, ProcessEnds
<1>8. ASSUME CleanLocks \/ (\E b \in Block : ConnectBlock(b)) \/ UNCHANGED vars
      PROVE  UNCHANGED retry /\ orphans' = orphans
  BY <1>8 DEF CleanLocks, ConnectBlock, vars
<1> QED
  BY <1>2, <1>3, <1>4, <1>5, <1>6, <1>7, <1>8 DEF Next

(* Every variable keeps its type, the records of the locks included. *)
THEOREM RelayTyped == Spec => []TypeOK
<1>1. Init => RetryTyped
  BY DEF Init, RetryTyped, NoOrphanTxs
<1>2. RelayInv /\ RetryInv /\ RetryTyped => TypeOK
  <2> SUFFICES ASSUME RelayInv, RetryInv, RetryTyped PROVE TypeOK
    OBVIOUS
  <2>1. /\ best \in Block /\ ix \in LockMaps
        /\ mempool \in [mapTx : SUBSET Tx, mapNextTx : SUBSET (OutPoint \X Tx)]
    BY DEF RelayInv, PoolInv, LocksInv
  <2>2. \A t \in Tx : PrevEntries(t) \subseteq Tx \X Tx
    BY TxAssumption DEF PrevEntries
  <2>3. orphans.mapOrphanTransactionsByPrev \subseteq Tx \X Tx
    BY <2>2 DEF RetryInv, OrphansOK, OrphanIndexMatches, RetryTyped
  <2>4. orphans \in [mapOrphanTransactions : SUBSET Tx,
                     mapOrphanTransactionsByPrev : SUBSET (Tx \X Tx)]
    BY <2>3 DEF RetryInv, OrphansOK, RetryTyped
  <2> QED
    BY <2>1, <2>4 DEF TypeOK, RetryTyped
<1> QED
  BY <1>1, <1>2, RelayInvInit, RelayInvNext, RetryInvInit, RetryInvNext, RetryTypedNext,
     PTL DEF Spec

====
