---- MODULE InstantX ----
(***************************************************************************)
(* Transaction locks (instantx.cpp), as a value: a record ix of the maps   *)
(*   mapTxLockReq          set of requested transactions                   *)
(*   mapTxLockReqRejected  set of requests the pool did not accept         *)
(*   mapTxLockVote         set of <<floatingcity, transaction>>: the hash  *)
(*                         of a vote leaves its block height out           *)
(*   mapTxLocks            transaction -> lock, or None                    *)
(*   mapLockedInputs       outpoint -> transaction, or None                *)
(* A lock has its height (0 as long as only votes have come), its votes    *)
(* <<floatingcity, height>> in their order, and whether its time is over.  *)
(* Signatures, ranks and the rate of unknown votes (which only decides     *)
(* what is relayed) are left open.                                         *)
(***************************************************************************)
EXTENDS MemPool, FiniteSets

CONSTANTS
  FloatingCity,                  \* the floatingcities that vote
  FirstInput,                    \* vin[0].prevout of each loose transaction
  MinInputAge,                   \* age of the inputs in CreateNewLock
  INSTANTX_SIGNATURES_REQUIRED

(* CTransactionLock, and the type of ix. *)
Lock == [nBlockHeight : Nat, votes : Seq(FloatingCity \X Nat), expired : BOOLEAN]
LockMaps ==
  [mapTxLockReq : SUBSET Tx, mapTxLockReqRejected : SUBSET Tx,
   mapTxLockVote : SUBSET (FloatingCity \X Tx),
   mapTxLocks : [Tx -> Lock \cup {None}],
   mapLockedInputs : [OutPoint -> Tx \cup {None}]]

ASSUME InstantXAssumption ==
  /\ None \notin Lock
  /\ MinInputAge \in Nat \ {0}
  /\ INSTANTX_SIGNATURES_REQUIRED \in Nat \ {0}
  /\ \A t \in Tx \ CoinBase : FirstInput[t] \in Inputs[t]

NoLocks ==
  [mapTxLockReq |-> {}, mapTxLockReqRejected |-> {}, mapTxLockVote |-> {},
   mapTxLocks |-> [t \in Tx |-> None], mapLockedInputs |-> [o \in OutPoint |-> None]]

NewLock(nBlockHeight) == [nBlockHeight |-> nBlockHeight, votes |-> <<>>, expired |-> FALSE]

(* GetInputAge is at least MinInputAge for every input. *)
OldEnough(t, pos, best) ==
  \A o \in Inputs[t] : /\ pos[OutTx[o]] # None
                       /\ Height[best] >= Height[pos[OutTx[o]]] + MinInputAge

(* "Use a blockheight newer than the input." *)
LockHeight(t, pos) == Height[pos[OutTx[FirstInput[t]]]] + 4

CreateNewLock(ix, t, pos, best) ==
  IF ~ OldEnough(t, pos, best)
    THEN ix
    ELSE [ix EXCEPT !.mapTxLocks[t] =
            IF @ = None THEN NewLock(LockHeight(t, pos))
                        ELSE [@ EXCEPT !.nBlockHeight = LockHeight(t, pos)]]

(* CountSignatures reaches the required number: votes for another height    *)
(* do not count, and none does while the height is not known.  The fault:   *)
(* all votes count.                                                         *)
CompleteFault(ix, t) ==
  LET lock == ix.mapTxLocks[t]
  IN  /\ lock # None
      /\ lock.nBlockHeight # 0
      /\ Len(lock.votes) >= INSTANTX_SIGNATURES_REQUIRED
Complete(ix, t) ==
  LET lock == ix.mapTxLocks[t]
  IN  /\ lock # None
      /\ lock.nBlockHeight # 0
      /\ Cardinality({ i \in 1..Len(lock.votes) : lock.votes[i][2] = lock.nBlockHeight })
           >= INSTANTX_SIGNATURES_REQUIRED

(* The inputs of t that are locked for another transaction: the test of     *)
(* AcceptToMemoryPool, CheckBlock and CheckForConflictingLocks.             *)
LockedForOthers(ix, t) == { o \in Inputs[t] : ix.mapLockedInputs[o] \notin {None, t} }

(* CheckForConflictingLocks found o: "they will cancel each other out".     *)
CancelBoth(ix, t, o) ==
  [ix EXCEPT !.mapTxLocks =
     [u \in Tx |->
        LET lock == ix.mapTxLocks[u]
        IN  IF u \in {t, ix.mapLockedInputs[o]} /\ lock # None
              THEN [lock EXCEPT !.expired = TRUE] ELSE lock]]

LockInputs(ix, t) ==
  [ix EXCEPT !.mapLockedInputs =
     [o \in OutPoint |-> IF o \in Inputs[t] /\ ix.mapLockedInputs[o] = None
                           THEN t ELSE ix.mapLockedInputs[o]]]

(* A vote <<f, t, h>> that is new and valid: ProcessConsensusVote up to     *)
(* AddSignature.  The fault: the hash of the vote has the height in it.     *)
SeenVoteFault(ix, v) == [ix EXCEPT !.mapTxLockVote = @ \cup {v}]
SeenVote(ix, v) == [ix EXCEPT !.mapTxLockVote = @ \cup {<<v[1], v[2]>>}]
AddSignature(ix, v) ==
  [ix EXCEPT !.mapTxLocks[v[2]] =
     LET lock == IF @ = None THEN NewLock(0) ELSE @
     IN  [lock EXCEPT !.votes = Append(@, <<v[1], v[3]>>)]]

(* CleanTransactionLocksList.  A lock that only votes know of goes alone:   *)
(* its votes stay in mapTxLockVote.  The fault: inputs stay locked.         *)
Expired(ix) == { t \in Tx : ix.mapTxLocks[t] # None /\ ix.mapTxLocks[t].expired }
ReleasedFault(ix, D) == ix.mapLockedInputs
Released(ix, D) ==
  [o \in OutPoint |-> IF \E t \in D : o \in Inputs[t] THEN None ELSE ix.mapLockedInputs[o]]
CleanTransactionLocksList(ix) ==
  LET known == Expired(ix) \cap ix.mapTxLockReq
  IN  [mapTxLockReq |-> ix.mapTxLockReq \ known,
       mapTxLockReqRejected |-> ix.mapTxLockReqRejected \ known,
       mapTxLockVote |->
         { v \in ix.mapTxLockVote :
             v[2] \in known => \A i \in 1..Len(ix.mapTxLocks[v[2]].votes) :
                                 ix.mapTxLocks[v[2]].votes[i][1] # v[1] },
       mapTxLocks |-> [t \in Tx |-> IF t \in Expired(ix) THEN None ELSE ix.mapTxLocks[t]],
       mapLockedInputs |-> Released(ix, known)]

(* So many different floatingcities voted for t at the height of its lock.  *)
Consensus(ix, t) ==
  /\ ix.mapTxLocks[t] # None
  /\ LET lock == ix.mapTxLocks[t]
     IN  Cardinality({ f \in FloatingCity : \E i \in 1..Len(lock.votes) :
                         lock.votes[i] = <<f, lock.nBlockHeight>> })
           >= INSTANTX_SIGNATURES_REQUIRED

====
