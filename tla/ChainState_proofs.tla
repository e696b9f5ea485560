--------------------------- MODULE ChainState_proofs ---------------------------
(***************************************************************************)
(* The chain state of a node whose process never ends is correct, for      *)
(* every block tree, every set of transactions and every value of the      *)
(* other constants.                                                        *)
(***************************************************************************)
EXTENDS ChainState, TxIndex_proofs, MemPool_proofs

(* SetBestChain has been called and has not committed: it works for         *)
(* pindexNew, and (Batching) holds an open transaction.                     *)
Choosing == pc \in {"setbest", "disconnect", "connect"}
Batching == pc \in {"disconnect", "connect"}

(* What the open transaction has applied: the chain up to cursor and the    *)
(* first transactions of the block after it.                                *)
Applied ==
  Occurrences(cursor) \cup
    (IF nTx = 0 THEN {} ELSE OccurrencesIn(ChildToward(cursor, target), nTx))

(* The committed state. *)
DbInv ==
  /\ TxIndexMatchesChain
  /\ BestChainValid
  /\ LinksFollow(dbNext, dbBest)
  /\ LinksFollow(pnext, dbBest)

(* Which block is the best one where. *)
BestInv ==
  /\ pc # "down"
  /\ pc \in {"idle"} \/ Choosing => pindexBest = dbBest
  /\ pc \in {"pool", "newbest"} => target = dbBest /\ pindexNew = dbBest

(* The batch: a valid ledger and its index, or a copy of the database. *)
BatchInv ==
  /\ Batching => /\ IndexMatches(batchPos, batchSpent, Applied)
                 /\ ValidLedger(Applied)
                 /\ Branch[cursor] \cap BadBlock = {}
                 /\ LinksFollow(batchNext, cursor)
  /\ ~ Batching => /\ batchPos = dbPos /\ batchSpent = dbSpent
                   /\ batchNext = dbNext
                   /\ nTx = 0

(* Where the open transaction leads, and over which blocks. *)
TargetInv ==
  /\ Choosing => ChainTrust[pindexNew] > ChainTrust[dbBest]
  /\ Batching => /\ target \in Branch[pindexNew]
                 /\ ChainTrust[target] > ChainTrust[dbBest]
                 /\ Branch[target] \cap Branch[dbBest] \subseteq Branch[cursor]
                 /\ mode # "further"
                 /\ mode = "inner" => Parent[target] = dbBest
  /\ pc = "disconnect" => /\ cursor \in Branch[dbBest]
                          /\ cursor \notin Branch[target]
                          /\ nTx = 0
  /\ pc = "connect" => /\ cursor \in Branch[target]
                       /\ cursor = target => nTx = 0
                       /\ cursor # target =>
                            nTx =< Len(Vtx[ChildToward(cursor, target)])

(* A block of the index with more trust than the best chain does not end a  *)
(* valid chain, unless it is the one SetBestChain is working for.  This is  *)
(* why a commit always reaches pindexNew itself: a postponed block would    *)
(* lie above such a block.                                                  *)
RejectInv ==
  \A b \in mapBlockIndex :
    ChainTrust[b] > ChainTrust[dbBest] /\ ValidChain(b) =>
      Choosing /\ b = pindexNew

IInv == TypeOK /\ DbInv /\ BestInv /\ BatchInv /\ TargetInv /\ RejectInv

-----------------------------------------------------------------------------
(* Facts about the operators. *)

PoolType == [mapTx : SUBSET Tx, mapNextTx : SUBSET (OutPoint \X Tx)]

(* addUnchecked keeps the type of the pool. *)
LEMMA AddType ==
  ASSUME NEW pool \in PoolType, NEW t \in Tx
  PROVE  addUnchecked(pool, t) \in PoolType
<1>1. Inputs[t] \X {t} \in SUBSET (OutPoint \X Tx)
  BY TxAssumption
<1> QED
  BY <1>1 DEF PoolType, addUnchecked

(* So does AcceptToMemoryPool, *)
LEMMA AcceptType ==
  ASSUME NEW pool \in PoolType, NEW t \in Tx, NEW pos, NEW spent, NEW best
  PROVE  AcceptToMemoryPool(pool, t, pos, spent, best) \in PoolType
BY AddType DEF AcceptToMemoryPool

(* and so do remove and removeConflicts. *)
LEMMA RemoveType ==
  ASSUME NEW pool \in PoolType, NEW t
  PROVE  remove(pool, t) \in PoolType /\ removeConflicts(pool, t) \in PoolType
<1>1. \A D : Without(pool, D) \in PoolType
  BY DEF Without, PoolType
<1> QED
  BY <1>1 DEF remove, removeConflicts

(* pindexIntermediate is on the way to the new block. *)
LEMMA IntermediateExists ==
  ASSUME NEW b \in Block, pindexBest \in Block
  PROVE  Intermediate(b) \in Branch[b]
<1> DEFINE ok(x) == /\ x = b \/ ChainTrust[x] > ChainTrust[pindexBest]
                    /\ x = Genesis \/ ChainTrust[Parent[x]] =< ChainTrust[pindexBest]
           T == { n \in Nat : \E x \in Branch[b] :
                    Height[x] = n /\ (x = b \/ ChainTrust[x] > ChainTrust[pindexBest]) }
<1>1. Height[b] \in T
  BY BranchBasics
<1>2. PICK n \in T : \A m \in T : n =< m
  <2>1. T \in SUBSET Nat /\ T # {}
    BY <1>1
  <2> HIDE DEF T
  <2> QED
    BY <2>1, LeastNatural
<1>3. PICK x \in Branch[b] : /\ Height[x] = n
                             /\ x = b \/ ChainTrust[x] > ChainTrust[pindexBest]
  BY <1>2
<1>4. x = Genesis \/ ChainTrust[Parent[x]] =< ChainTrust[pindexBest]
  <2> SUFFICES ASSUME x # Genesis PROVE ChainTrust[Parent[x]] =< ChainTrust[pindexBest]
    OBVIOUS
  <2>1. x \in Block
    BY BranchBasics
  <2>2. /\ Parent[x] \in Branch[b] /\ Height[Parent[x]] \in Nat
        /\ Height[x] = Height[Parent[x]] + 1
        /\ ChainTrust[Parent[x]] \in Nat /\ ChainTrust[pindexBest] \in Nat
    BY <2>1, BranchBasics, BranchOrder
  <2>3. Height[Parent[x]] \notin T
    BY <1>2, <1>3, <2>2
  <2> QED
    BY <2>2, <2>3
<1>5. \E y \in Branch[b] : ok(y)
  BY <1>3, <1>4
<1> QED
  BY <1>5 DEF Intermediate

(* The chain of pindexIntermediate has more trust than the best one. *)
LEMMA IntermediateFacts ==
  ASSUME NEW b \in Block, pindexBest \in Block,
         ChainTrust[b] > ChainTrust[pindexBest]
  PROVE  /\ Intermediate(b) \in Branch[b]
         /\ ChainTrust[Intermediate(b)] > ChainTrust[pindexBest]
<1> DEFINE T == ChainTrust[pindexBest]
           H == { n \in Nat : \E x \in Branch[b] : Height[x] = n /\ ChainTrust[x] > T }
<1>1. /\ T \in Nat
      /\ \A x \in Branch[b] : x \in Block /\ Height[x] \in Nat /\ ChainTrust[x] \in Nat
  BY BranchBasics
<1>2. Height[b] \in H
  BY <1>1, BranchBasics
<1>3. PICK n \in H : \A m \in H : n =< m
  <2>1. H \in SUBSET Nat /\ H # {}
    BY <1>2
  <2> HIDE DEF H
  <2> QED
    BY <2>1, LeastNatural
<1>4. PICK x \in Branch[b] : Height[x] = n /\ ChainTrust[x] > T
  BY <1>3
<1>5. x # Genesis => ChainTrust[Parent[x]] =< T
  <2>1. SUFFICES ASSUME x # Genesis, ChainTrust[Parent[x]] > T PROVE FALSE
    BY <1>1, <1>4, BranchBasics
  <2>2. /\ Parent[x] \in Branch[b]
        /\ Height[x] = Height[Parent[x]] + 1 /\ Height[Parent[x]] \in Nat
    BY <1>1, <1>4, <2>1, BranchBasics, BranchOrder
  <2>3. Height[Parent[x]] \in H
    BY <2>1, <2>2
  <2> QED
    BY <1>3, <1>4, <2>2, <2>3
<1>6. \E y \in Branch[b] : /\ y = b \/ ChainTrust[y] > ChainTrust[pindexBest]
                           /\ y = Genesis \/ ChainTrust[Parent[y]] =< ChainTrust[pindexBest]
  BY <1>4, <1>5
<1> QED
  BY <1>6 DEF Intermediate

(* Where the open transaction stands while it connects blocks. *)
Connecting ==
  /\ {cursor, target, pindexNew, dbBest} \subseteq Block
  /\ cursor \in Branch[target] /\ target \in Branch[pindexNew]
  /\ nTx \in Nat
  /\ cursor # target => nTx =< Len(Vtx[ChildToward(cursor, target)])
  /\ Branch[target] \cap Branch[dbBest] \subseteq Branch[cursor]

(* What the open transaction has applied, seen from the next transaction. *)
LEMMA AppliedFacts ==
  ASSUME Connecting, cursor # target
  PROVE  LET b == ChildToward(cursor, target)
         IN  /\ b \in Block \ {Genesis} /\ b \in Branch[target]
             /\ b \in Branch[pindexNew]
             /\ Parent[b] = cursor
             /\ Branch[b] = Branch[cursor] \cup {b}
             /\ b \notin Branch[cursor] /\ b \notin Branch[dbBest]
             /\ nTx \in Nat /\ Len(Vtx[b]) \in Nat /\ nTx =< Len(Vtx[b])
             /\ Applied = Occurrences(cursor) \cup OccurrencesIn(b, nTx)
             /\ Applied \subseteq Occurrence
             /\ \A p \in Applied : p[1] \in Branch[b] /\ p[1] # Genesis
             /\ nTx < Len(Vtx[b]) =>
                  /\ <<b, nTx + 1>> \in Occurrence
                  /\ \A p \in Applied : Earlier(p, <<b, nTx + 1>>)
                  /\ ~ Earlier(<<b, nTx + 1>>, <<b, nTx + 1>>)
                  /\ Applied \cup {<<b, nTx + 1>>} =
                       Occurrences(cursor) \cup OccurrencesIn(b, nTx + 1)
<1> DEFINE b == ChildToward(cursor, target)
<1>1. /\ {cursor, target, pindexNew, dbBest} \subseteq Block
      /\ cursor \in Branch[target] /\ target \in Branch[pindexNew]
      /\ nTx \in Nat /\ nTx =< Len(Vtx[b])
      /\ Branch[target] \cap Branch[dbBest] \subseteq Branch[cursor]
  BY DEF Connecting
<1>2. b \in Block \ {Genesis} /\ b \in Branch[target] /\ Parent[b] = cursor
  BY <1>1, ChildTowardFacts
<1>3. Branch[b] = Branch[cursor] \cup {b} /\ b \notin Branch[cursor]
  BY <1>2, BranchBasics
<1>4. b \notin Branch[dbBest] /\ b \in Branch[pindexNew]
  BY <1>1, <1>2, <1>3, BranchOrder
<1>5. Len(Vtx[b]) \in Nat
  BY <1>2, TxAssumption
<1>6. Applied = Occurrences(cursor) \cup OccurrencesIn(b, nTx)
  <2>1. OccurrencesIn(b, 0) = {}
    BY DEF OccurrencesIn
  <2> QED
    BY <2>1 DEF Applied
<1>7. /\ \A p \in Occurrences(cursor) : /\ p \in Occurrence
                                        /\ p[1] \in Branch[cursor] /\ p[1] # Genesis
      /\ \A n \in Nat : \A p \in OccurrencesIn(b, n) :
           p[1] = b /\ p[2] \in 1..n /\ p = <<b, p[2]>>
  BY <1>1, OccurrencesFacts DEF ConnectedBlocks, OccurrencesIn
<1>8. ASSUME NEW n \in Nat, n =< Len(Vtx[b]), NEW p \in OccurrencesIn(b, n)
      PROVE  p \in Occurrence
  BY <1>2, <1>5, <1>7, <1>8 DEF Occurrence
<1>9. Applied \subseteq Occurrence /\ \A p \in Applied : p[1] \in Branch[b] /\ p[1] # Genesis
  BY <1>1, <1>2, <1>3, <1>6, <1>7, <1>8
<1>10. ASSUME nTx < Len(Vtx[b])
       PROVE  /\ <<b, nTx + 1>> \in Occurrence
              /\ \A p \in Applied : Earlier(p, <<b, nTx + 1>>)
              /\ ~ Earlier(<<b, nTx + 1>>, <<b, nTx + 1>>)
              /\ Applied \cup {<<b, nTx + 1>>} =
                   Occurrences(cursor) \cup OccurrencesIn(b, nTx + 1)
  <2>1. <<b, nTx + 1>> \in Occurrence
    BY <1>1, <1>2, <1>5, <1>10 DEF Occurrence
  <2>2. \A x \in Branch[cursor] : Height[x] < Height[b]
    BY <1>1, <1>2, BranchBasics, BranchOrder
  <2>3. \A p \in Applied : Earlier(p, <<b, nTx + 1>>)
    BY <1>1, <1>6, <1>7, <2>2 DEF Earlier
  <2>4. ~ Earlier(<<b, nTx + 1>>, <<b, nTx + 1>>)
    BY <1>1, <1>2, BranchBasics DEF Earlier
  <2>5. OccurrencesIn(b, nTx + 1) = OccurrencesIn(b, nTx) \cup {<<b, nTx + 1>>}
    <3>1. 1..(nTx + 1) = (1..nTx) \cup {nTx + 1}
      BY <1>1
    <3> QED
      BY <3>1 DEF OccurrencesIn
  <2> QED
    BY <1>6, <2>1, <2>3, <2>4, <2>5
<1> QED
  BY <1>1, <1>2, <1>3, <1>4, <1>5, <1>6, <1>9, <1>10

(* The invariant says so. *)
LEMMA ConnectingInIInv ==
  ASSUME IInv, pc = "connect"
  PROVE  Connecting
  BY DEF IInv, TypeOK, TargetInv, Batching, Connecting

-----------------------------------------------------------------------------
(* The initial state. *)

(* The state after the first LoadBlockIndex satisfies the invariant. *)
LEMMA InitIInv == Init => IInv
<1> SUFFICES ASSUME Init PROVE IInv
  OBVIOUS
<1> USE DEF Init
<1>1. Genesis \in Block /\ Branch[Genesis] = {Genesis} /\ None \notin Block /\ None \notin Tx
  BY TreeAssumption, TxAssumption
<1>2. ConnectedBlocks(Genesis) = {}
  BY <1>1 DEF ConnectedBlocks
<1>3. Occurrences(Genesis) = {}
  BY <1>2 DEF Occurrences
<1>4. TypeOK
  <2>1. mempool \in PoolType
    BY DEF EmptyPool, PoolType
  <2>2. crashes \in 0..MaxCrash
    BY ChainAssumption
  <2> QED
    BY <1>1, <2>1, <2>2 DEF TypeOK, NoNext, NoTxIndexed, NothingSpent, PoolType
<1>5. DbInv
  <2>1. TxIndexMatchesChain
    BY <1>3 DEF TxIndexMatchesChain, IndexMatches, PosMatches, SpentMatches,
                NoTxIndexed, NothingSpent
  <2>2. BestChainValid
    <3>1. Branch[Genesis] \cap BadBlock = {}
      BY <1>1, TxAssumption
    <3>2. ValidLedger({})
      BY DEF ValidLedger, NoDoubleSpend, InputsCreated
    <3> QED
      BY <1>3, <3>1, <3>2 DEF BestChainValid, ValidChain
  <2>3. LinksFollow(NoNext, Genesis)
    BY <1>1, <1>2 DEF LinksFollow, NoNext
  <2> QED
    BY <2>1, <2>2, <2>3 DEF DbInv
<1>6. BestInv /\ BatchInv /\ TargetInv
  BY DEF BestInv, BatchInv, TargetInv, Choosing, Batching
<1>7. RejectInv
  BY <1>1, TreeAssumption DEF RejectInv
<1> QED
  BY <1>4, <1>5, <1>6, <1>7 DEF IInv

-----------------------------------------------------------------------------
(* The steps, one lemma each. *)

(* A new index entry: it is no part of the best chain, and if it has more   *)
(* trust SetBestChain is called for it.                                     *)
LEMMA AcceptBlockStep ==
  ASSUME IInv, NEW b \in Block \ {Genesis}, AcceptBlock(b)
  PROVE  IInv'
<1> USE DEF AcceptBlock, AcceptTests, MoreTrust
<1>1. TypeOK'
  <2>1. Branch[b] = Branch[Parent[b]] \cup {b}
    BY BranchBasics
  <2>2. \A x \in mapBlockIndex' : Branch[x] \subseteq mapBlockIndex'
    BY <2>1 DEF IInv, TypeOK
  <2> QED
    BY <2>2 DEF IInv, TypeOK, queues
<1>2. DbInv'
  <2>1. \A c \in ConnectedBlocks(dbBest) : Parent[c] # b
    <3>1. dbBest \in mapBlockIndex /\ dbBest \in Block /\ Branch[dbBest] \subseteq mapBlockIndex
      BY DEF IInv, TypeOK
    <3>2. \A c \in ConnectedBlocks(dbBest) : Parent[c] \in Branch[dbBest]
      BY <3>1, BranchBasics, BranchOrder DEF ConnectedBlocks
    <3> QED
      BY <3>1, <3>2
  <2>2. dbNext \in [Block -> Block \cup {None}] /\ None \notin Block
    BY TxAssumption DEF IInv, TypeOK
  <2>3. LinksFollow(dbNext', dbBest')
    BY <2>1, <2>2 DEF IInv, DbInv, LinksFollow
  <2> QED
    BY <2>3 DEF IInv, DbInv, TxIndexMatchesChain, BestChainValid
<1>3. BestInv' /\ BatchInv'
  BY DEF IInv, BestInv, BatchInv, Choosing, Batching
<1>4. TargetInv'
  BY DEF IInv, BestInv, TargetInv, Choosing, Batching
<1>5. RejectInv'
  BY DEF IInv, BestInv, RejectInv, Choosing
<1> QED
  BY <1>1, <1>2, <1>3, <1>4, <1>5 DEF IInv

(* The first transaction starts from the committed chain and leads to more  *)
(* trust.                                                                   *)
LEMMA SetBestChainStep ==
  ASSUME IInv, SetBestChain
  PROVE  IInv'
<1> USE DEF SetBestChain, memory, db, batch, queues
<1>1. /\ pindexBest = dbBest
      /\ {pindexNew, dbBest} \subseteq mapBlockIndex /\ mapBlockIndex \subseteq Block
      /\ Branch[pindexNew] \subseteq mapBlockIndex
      /\ ChainTrust[pindexNew] > ChainTrust[dbBest]
  BY DEF IInv, TypeOK, BestInv, TargetInv, Choosing
<1>2. /\ target' \in Branch[pindexNew]
      /\ ChainTrust[target'] > ChainTrust[dbBest]
      /\ mode' \in {"inner", "reorg"}
      /\ mode' = "inner" => Parent[target'] = dbBest
  BY <1>1, BranchBasics, IntermediateFacts
<1>3. TypeOK'
  BY <1>1, <1>2 DEF IInv, TypeOK
<1>4. DbInv'
  BY DEF IInv, DbInv, TxIndexMatchesChain, BestChainValid, LinksFollow
<1>5. BestInv'
  BY <1>1 DEF BestInv, Choosing
<1>6. BatchInv'
  <2>1. Applied' = Occurrences(dbBest)
    BY <1>1 DEF IInv, BatchInv, Batching, Applied
  <2>2. batchPos' = dbPos /\ batchSpent' = dbSpent /\ batchNext' = dbNext
    BY DEF IInv, BatchInv, Batching
  <2>3. /\ IndexMatches(dbPos, dbSpent, Occurrences(dbBest))
        /\ ValidLedger(Occurrences(dbBest))
        /\ Branch[dbBest] \cap BadBlock = {}
        /\ LinksFollow(dbNext, dbBest)
    BY DEF IInv, DbInv, TxIndexMatchesChain, BestChainValid, ValidChain
  <2> QED
    BY <1>1, <2>1, <2>2, <2>3 DEF BatchInv, Batching, LinksFollow
<1>7. TargetInv'
  <2>1. nTx' = 0 /\ cursor' = dbBest /\ dbBest \in Branch[dbBest]
    BY <1>1, BranchBasics DEF IInv, BatchInv, Batching
  <2>2. \A x : x \in Block => 0 =< Len(Vtx[x])
    BY TxAssumption
  <2>3. cursor' \in Branch[target'] /\ cursor' # target' =>
          ChildToward(cursor', target') \in Block
    BY <1>1, <1>2, ChildTowardFacts
  <2> QED
    BY <1>1, <1>2, <2>1, <2>2, <2>3 DEF TargetInv, Choosing, Batching
<1>8. RejectInv'
  BY DEF IInv, RejectInv, Choosing
<1> QED
  BY <1>3, <1>4, <1>5, <1>6, <1>7, <1>8 DEF IInv

(* Unlinking the end of a chain leaves the links of its parent's. *)
LEMMA UnlinkEnd ==
  ASSUME NEW b \in Block \ {Genesis},
         NEW next \in [Block -> Block \cup {None}], LinksFollow(next, b)
  PROVE  LinksFollow([next EXCEPT ![Parent[b]] = None], Parent[b])
<1>1. Parent[b] \in Block /\ Branch[b] = Branch[Parent[b]] \cup {b} /\ b \notin Branch[Parent[b]]
  BY BranchBasics
<1>2. \A c : c \in ConnectedBlocks(b) <=> c \in ConnectedBlocks(Parent[b]) \/ c = b
  BY <1>1 DEF ConnectedBlocks
<1>3. \A c \in ConnectedBlocks(Parent[b]) : c \in Block /\ Parent[c] # Parent[b]
  <2>1. \A c \in ConnectedBlocks(Parent[b]) :
          /\ c \in Block \ {Genesis} /\ c \in Branch[Parent[b]]
          /\ c \in ConnectedBlocks(b)
    BY <1>1, <1>2, BranchBasics DEF ConnectedBlocks
  <2>2. Parent[b] # b /\ Parent[b] \in Branch[b]
    BY <1>1, BranchBasics
  <2>3. \A c \in ConnectedBlocks(b) :
          Parent[c] = Parent[b] => c = ChildToward(Parent[b], b)
    BY <2>2, ChildTowardFacts
  <2> QED
    BY <1>1, <1>2, <2>1, <2>3
<1>4. None \notin Block
  BY TxAssumption
<1> QED
  BY <1>1, <1>2, <1>3, <1>4 DEF LinksFollow

(* DisconnectBlock never fails, and takes the batch back by one block. *)
LEMMA DisconnectBlockStep ==
  ASSUME IInv, DisconnectBlock
  PROVE  IInv'
<1> USE DEF DisconnectBlock, memory, db
<1>1. /\ pc = "disconnect" /\ nTx = 0
      /\ cursor \in Branch[dbBest] /\ cursor \notin Branch[target]
      /\ {cursor, target, dbBest} \subseteq mapBlockIndex /\ mapBlockIndex \subseteq Block
      /\ Branch[cursor] \subseteq mapBlockIndex
      /\ Branch[target] \cap Branch[dbBest] \subseteq Branch[cursor]
      /\ batchPos \in [Tx -> Block \cup {None}]
      /\ batchSpent \in [OutPoint -> Tx \cup {None}]
      /\ batchNext \in [Block -> Block \cup {None}]
  BY DEF IInv, TypeOK, TargetInv, Batching
<1>2. cursor \in Block \ {Genesis}
  BY <1>1, BranchBasics
<1>3. /\ Parent[cursor] \in Block /\ Parent[cursor] \in mapBlockIndex
      /\ Branch[cursor] = Branch[Parent[cursor]] \cup {cursor}
      /\ Parent[cursor] \in Branch[cursor]
      /\ cursor \notin Branch[Parent[cursor]]
  BY <1>1, <1>2, BranchBasics
<1>4. /\ IndexMatches(batchPos, batchSpent, Occurrences(cursor))
      /\ ValidLedger(Occurrences(cursor))
      /\ Branch[cursor] \cap BadBlock = {}
      /\ LinksFollow(batchNext, cursor)
  <2>1. Applied = Occurrences(cursor)
    BY <1>1 DEF Applied
  <2> QED
    BY <1>1, <2>1 DEF IInv, BatchInv, Batching
<1>5. /\ CanDisconnect(cursor, batchPos)
      /\ IndexMatches(DisconnectPos(cursor, batchPos),
                      DisconnectSpent(cursor, batchSpent),
                      Occurrences(Parent[cursor]))
  BY <1>1, <1>2, <1>4, DisconnectedIndexMatches
<1>6. /\ batchPos' = DisconnectPos(cursor, batchPos)
      /\ batchSpent' = DisconnectSpent(cursor, batchSpent)
      /\ batchNext' = [batchNext EXCEPT ![Parent[cursor]] = None]
      /\ cursor' = Parent[cursor]
      /\ vResurrect' = ToResurrect(cursor) \o vResurrect
      /\ UNCHANGED <<nTx, vDelete>>
      /\ pc' = IF Parent[cursor] \in Branch[target] THEN "connect" ELSE "disconnect"
  BY <1>5
<1>7. TypeOK'
  <2>1. batchPos' \in [Tx -> Block \cup {None}] /\ batchSpent' \in [OutPoint -> Tx \cup {None}]
    BY <1>1, <1>6 DEF DisconnectPos, DisconnectSpent
  <2>2. vResurrect' \in Seq(Tx)
    <3>1. ToResurrect(cursor) \in Seq(Tx)
      BY <1>2, TxAssumption DEF ToResurrect
    <3>2. vResurrect \in Seq(Tx)
      BY DEF IInv, TypeOK
    <3> QED
      BY <1>6, <3>1, <3>2
  <2>3. batchNext' \in [Block -> Block \cup {None}]
    BY <1>1, <1>6
  <2> QED
    BY <1>3, <1>6, <2>1, <2>2, <2>3 DEF IInv, TypeOK
<1>8. DbInv'
  BY DEF IInv, DbInv, TxIndexMatchesChain, BestChainValid, LinksFollow
<1>9. BestInv'
  BY <1>1, <1>6 DEF IInv, BestInv, Choosing
<1>10. BatchInv'
  <2>1. Applied' = Occurrences(Parent[cursor])
    BY <1>1, <1>6 DEF Applied
  <2>2. ValidLedger(Occurrences(Parent[cursor]))
    BY <1>2, <1>3, <1>4, AncestorValid DEF ValidChain
  <2>3. LinksFollow(batchNext', Parent[cursor])
    BY <1>1, <1>2, <1>4, <1>6, UnlinkEnd
  <2> QED
    BY <1>3, <1>4, <1>5, <1>6, <2>1, <2>2, <2>3 DEF BatchInv, Batching
<1>11. TargetInv'
  <2>1. Parent[cursor] \in Branch[dbBest]
    BY <1>1, <1>2, <1>3, BranchOrder
  <2>2. \A x \in Block : 0 =< Len(Vtx[x])
    BY TxAssumption
  <2>3. Parent[cursor] \in Branch[target] /\ Parent[cursor] # target =>
          ChildToward(Parent[cursor], target) \in Block
    BY <1>1, ChildTowardFacts
  <2>4. Branch[target] \cap Branch[dbBest] \subseteq Branch[Parent[cursor]]
    BY <1>1, <1>3
  <2> QED
    BY <1>1, <1>6, <2>1, <2>2, <2>3, <2>4 DEF IInv, TargetInv, Choosing, Batching
<1>12. RejectInv'
  BY <1>1, <1>6 DEF IInv, RejectInv, Choosing
<1> QED
  BY <1>7, <1>8, <1>9, <1>10, <1>11, <1>12 DEF IInv

(* Giving up the open transaction is right once the chain of pindexNew is   *)
(* known to be invalid.                                                     *)
LEMMA AbortStep ==
  ASSUME IInv, Batching, ~ ValidChain(pindexNew), Abort,
         UNCHANGED <<memory, db, pindexNew, target, mode, crashes>>
  PROVE  IInv'
<1> USE DEF Abort, DiscardBatch, memory, db
<1>1. pc' = "idle"
  BY DEF IInv, TargetInv
<1>2. TypeOK'
  BY <1>1 DEF IInv, TypeOK
<1>3. DbInv'
  BY DEF IInv, DbInv, TxIndexMatchesChain, BestChainValid, LinksFollow
<1>4. BestInv' /\ BatchInv' /\ TargetInv'
  BY <1>1 DEF IInv, BestInv, BatchInv, TargetInv, Choosing, Batching
<1>5. RejectInv'
  BY DEF IInv, RejectInv
<1> QED
  BY <1>2, <1>3, <1>4, <1>5 DEF IInv

(* The next transaction: if its inputs connect, the batch is the index of a *)
(* longer piece of a valid chain; if not, the chain of pindexNew is not     *)
(* valid.                                                                   *)
LEMMA ConnectTxEffect ==
  ASSUME Connecting, cursor # target,
         nTx < Len(Vtx[ChildToward(cursor, target)]),
         IndexMatches(batchPos, batchSpent, Applied), ValidLedger(Applied),
         batchPos \in [Tx -> Block \cup {None}],
         batchSpent \in [OutPoint -> Tx \cup {None}]
  PROVE  LET b == ChildToward(cursor, target)
             t == Vtx[b][nTx + 1]
             O == Applied \cup {<<b, nTx + 1>>}
             pos == ConnectPos(t, b, batchPos)
             spent == ConnectSpent(t, batchSpent)
         IN  IF InputsConnect(t, batchPos, batchSpent, b)
               THEN /\ IndexMatches(pos, spent, O) /\ ValidLedger(O)
                    /\ pos \in [Tx -> Block \cup {None}]
                    /\ spent \in [OutPoint -> Tx \cup {None}]
               ELSE ~ ValidChain(pindexNew)
<1> DEFINE b == ChildToward(cursor, target)
           q == <<b, nTx + 1>>
           t == Vtx[b][nTx + 1]
<1>1. /\ b \in Block \ {Genesis} /\ b \in Branch[target]
      /\ b \in Branch[pindexNew]
      /\ Branch[b] = Branch[cursor] \cup {b}
      /\ nTx \in Nat /\ Len(Vtx[b]) \in Nat
      /\ Applied \subseteq Occurrence
      /\ \A p \in Applied : p[1] \in Branch[b] /\ p[1] # Genesis
      /\ q \in Occurrence
      /\ \A p \in Applied : Earlier(p, q)
      /\ ~ Earlier(q, q)
      /\ Applied \cup {q} = Occurrences(cursor) \cup OccurrencesIn(b, nTx + 1)
  BY AppliedFacts
<1>2. q[1] = b /\ TxAt(q) = t /\ t \in Tx
  BY <1>1, OccurrenceFacts DEF TxAt
<1>3. pindexNew \in Block
  BY DEF Connecting
<1>4. InputsConnect(t, batchPos, batchSpent, b) <=> ValidLedger(Applied \cup {q})
  <2>1. q \notin Applied
    BY <1>1
  <2> QED
    BY <1>1, <1>2, <2>1, InputsConnectIsValidity
<1>5. CASE ~ InputsConnect(t, batchPos, batchSpent, b)
  <2>1. SUFFICES ASSUME ValidChain(pindexNew) PROVE FALSE
    BY <1>5
  <2>2. Applied \cup {q} \subseteq Occurrences(pindexNew)
    <3>1. \A p \in Applied \cup {q} : p \in Occurrence /\ p[1] \in Branch[b] /\ p[1] # Genesis
      BY <1>1, <1>2, BranchBasics
    <3>2. Branch[b] \subseteq Branch[pindexNew]
      BY <1>1, <1>3, BranchOrder
    <3> QED
      BY <1>3, <3>1, <3>2, OccurrencesFacts DEF ConnectedBlocks
  <2>3. ASSUME NEW p \in Occurrences(pindexNew), NEW r \in Applied \cup {q}, Earlier(p, r)
        PROVE  p \in Applied \cup {q}
    <3>1. /\ p \in Occurrence /\ r \in Occurrence /\ cursor \in Block
          /\ p[1] \in ConnectedBlocks(r[1])
      BY <1>3, <2>2, <2>3, EarlierInChain, OccurrencesFacts DEF Connecting
    <3>2. CASE p[1] \in Branch[cursor]
      BY <3>1, <3>2, OccurrencesFacts, <1>1 DEF ConnectedBlocks
    <3>3. CASE p[1] \notin Branch[cursor]
      <4>1. r[1] \in Branch[b]
        BY <1>1, <1>2, BranchBasics
      <4>2. p[1] = b
        BY <1>1, <3>1, <3>3, <4>1, BranchOrder DEF ConnectedBlocks
      <4>3. r[1] = b
        <5>1. r[1] \in Branch[cursor] => Branch[r[1]] \subseteq Branch[cursor]
          BY <3>1, BranchOrder
        <5> QED
          BY <1>1, <3>1, <3>3, <4>1, <5>1 DEF ConnectedBlocks
      <4>4. p[2] < r[2]
        BY <1>1, <2>3, <4>2, <4>3, BranchBasics DEF Earlier
      <4>5. r[2] \in 1..(nTx + 1)
        BY <1>1, <3>1, <3>3, <4>3, OccurrencesFacts, BranchBasics
           DEF OccurrencesIn, ConnectedBlocks
      <4>6. p = <<b, p[2]>> /\ p[2] \in 1..(nTx + 1)
        BY <1>1, <3>1, <4>2, <4>4, <4>5, OccurrenceFacts
      <4> QED
        BY <1>1, <4>6 DEF OccurrencesIn
    <3> QED
      BY <3>2, <3>3
  <2>4. ValidLedger(Applied \cup {q})
    BY <2>1, <2>2, <2>3, PrefixValid DEF ValidChain
  <2> QED
    BY <1>4, <1>5, <2>4
<1>6. CASE InputsConnect(t, batchPos, batchSpent, b)
  <2>1. IndexMatches(ConnectPos(t, b, batchPos), ConnectSpent(t, batchSpent), Applied \cup {q})
    BY <1>1, <1>2, <1>6, ConnectedIndexMatches
  <2>2. /\ ConnectPos(t, b, batchPos) \in [Tx -> Block \cup {None}]
        /\ ConnectSpent(t, batchSpent) \in [OutPoint -> Tx \cup {None}]
    BY <1>1, <1>2 DEF ConnectPos, ConnectSpent
  <2> QED
    BY <1>4, <1>6, <2>1, <2>2
<1> QED
  BY <1>5, <1>6

(* The step of ConnectTx. *)
LEMMA ConnectTxStep ==
  ASSUME IInv, ConnectTx
  PROVE  IInv'
<1> USE DEF ConnectTx, memory, db, queues
<1> DEFINE b == ChildToward(cursor, target)
           q == <<b, nTx + 1>>
           t == Vtx[b][nTx + 1]
<1>1. /\ nTx \in Nat /\ Len(Vtx[b]) \in Nat
      /\ Applied \cup {q} = Occurrences(cursor) \cup OccurrencesIn(b, nTx + 1)
  BY AppliedFacts, ConnectingInIInv
<1>2. nTx < Len(Vtx[b]) /\ pc = "connect" /\ cursor # target
  OBVIOUS
<1>3. /\ IndexMatches(batchPos, batchSpent, Applied) /\ ValidLedger(Applied)
      /\ Branch[cursor] \cap BadBlock = {}
      /\ LinksFollow(batchNext, cursor)
      /\ batchPos \in [Tx -> Block \cup {None}]
      /\ batchSpent \in [OutPoint -> Tx \cup {None}]
  BY DEF IInv, BatchInv, Batching, TypeOK
<1>4. IF InputsConnect(t, batchPos, batchSpent, b)
        THEN /\ IndexMatches(ConnectPos(t, b, batchPos), ConnectSpent(t, batchSpent),
                             Applied \cup {q})
             /\ ValidLedger(Applied \cup {q})
             /\ ConnectPos(t, b, batchPos) \in [Tx -> Block \cup {None}]
             /\ ConnectSpent(t, batchSpent) \in [OutPoint -> Tx \cup {None}]
        ELSE ~ ValidChain(pindexNew)
  BY <1>2, <1>3, ConnectingInIInv, ConnectTxEffect
<1>5. CASE ~ InputsConnect(t, batchPos, batchSpent, b)
  BY <1>4, <1>5, AbortStep DEF Batching
<1>6. CASE InputsConnect(t, batchPos, batchSpent, b)
  <2>1. /\ batchPos' = ConnectPos(t, b, batchPos)
        /\ batchSpent' = ConnectSpent(t, batchSpent)
        /\ nTx' = nTx + 1
        /\ UNCHANGED <<batchNext, pc, cursor, vResurrect, vDelete>>
    BY <1>6
  <2>2. TypeOK'
    <3>1. /\ batchPos' \in [Tx -> Block \cup {None}]
          /\ batchSpent' \in [OutPoint -> Tx \cup {None}]
      BY <1>4, <1>6, <2>1
    <3> QED
      BY <2>1, <3>1 DEF IInv, TypeOK
  <2>3. DbInv'
    BY DEF IInv, DbInv, TxIndexMatchesChain, BestChainValid, LinksFollow
  <2>4. BestInv'
    BY <2>1 DEF IInv, BestInv, Choosing
  <2>5. Applied' = Applied \cup {q}
    BY <1>1, <2>1 DEF Applied
  <2>6. IndexMatches(batchPos', batchSpent', Applied')
    BY <1>4, <1>6, <2>1, <2>5
  <2>7. BatchInv'
    BY <1>3, <1>4, <1>6, <2>1, <2>5, <2>6 DEF BatchInv, Batching, LinksFollow
  <2>8. TargetInv'
    BY <1>1, <1>2, <2>1 DEF IInv, TargetInv, Choosing, Batching
  <2>9. RejectInv'
    BY <2>1 DEF IInv, RejectInv, Choosing
  <2> QED
    BY <2>2, <2>3, <2>4, <2>7, <2>8, <2>9 DEF IInv
<1> QED
  BY <1>5, <1>6


(* A block off the chain has no successor in its links. *)
LEMMA NoLinkOff ==
  ASSUME NEW a \in Block, NEW b \in Block, b \notin Branch[a],
         NEW next \in [Block -> Block \cup {None}], LinksFollow(next, a)
  PROVE  next[b] = None
<1>1. SUFFICES ASSUME NEW c \in ConnectedBlocks(a), Parent[c] = b PROVE FALSE
  BY DEF LinksFollow
<1>2. c \in Branch[a] /\ c \in Block \ {Genesis}
  BY BranchBasics DEF ConnectedBlocks
<1>3. Branch[c] \subseteq Branch[a] /\ Parent[c] \in Branch[c]
  BY <1>2, BranchOrder, BranchBasics
<1> QED
  BY <1>1, <1>3

(* Linking a block to its parent, the end of the chain so far. *)
LEMMA LinkChild ==
  ASSUME NEW b \in Block \ {Genesis},
         NEW next \in [Block -> Block \cup {None}], LinksFollow(next, Parent[b]),
         NEW new \in [Block -> Block \cup {None}],
         new[Parent[b]] = b, new[b] = None,
         \A a \in Block \ {b, Parent[b]} : new[a] = next[a]
  PROVE  LinksFollow(new, b)
<1>1. /\ Parent[b] \in Block /\ Parent[b] # b /\ None \notin Block
      /\ ConnectedBlocks(b) = ConnectedBlocks(Parent[b]) \cup {b}
      /\ b \notin Branch[Parent[b]]
  BY BranchBasics, TxAssumption DEF ConnectedBlocks
<1>2. ASSUME NEW c \in ConnectedBlocks(b)
      PROVE  /\ c \in Block /\ Parent[c] # b
             /\ Parent[c] = Parent[b] => c = b
  <2>1. c \in Block \ {Genesis} /\ c \in Branch[b]
    BY BranchBasics DEF ConnectedBlocks
  <2>2. /\ Height[c] =< Height[b] /\ Height[c] = Height[Parent[c]] + 1
        /\ Height[b] = Height[Parent[b]] + 1
        /\ Height[b] \in Nat /\ Height[c] \in Nat
        /\ Height[Parent[c]] \in Nat /\ Height[Parent[b]] \in Nat
    BY <2>1, BranchOrder, BranchBasics
  <2>3. Parent[c] = Parent[b] => c = b
    BY <2>1, <2>2, BranchOrder, BranchBasics
  <2> QED
    BY <2>1, <2>2, <2>3
<1>3. ASSUME NEW a \in Block, NEW c \in Block
      PROVE  new[a] = c <=> c \in ConnectedBlocks(b) /\ Parent[c] = a
  <2>1. CASE a = b
    BY <1>1, <1>2, <2>1
  <2>2. CASE a = Parent[b]
    BY <1>1, <1>2, <2>2
  <2>3. CASE a # b /\ a # Parent[b]
    BY <1>1, <1>2, <2>3 DEF LinksFollow
  <2> QED
    BY <2>1, <2>2, <2>3
<1> QED
  BY <1>3 DEF LinksFollow

(* The end of a block: the batch has reached its chain, or the block is bad *)
(* and the chain of pindexNew with it.                                      *)
LEMMA ConnectBlockStep ==
  ASSUME IInv, ConnectBlock
  PROVE  IInv'
<1> USE DEF ConnectBlock, memory, db
<1> DEFINE b == ChildToward(cursor, target)
<1>1. /\ b \in Block \ {Genesis} /\ b \in Branch[target]
      /\ b \in Branch[pindexNew]
      /\ Parent[b] = cursor
      /\ Branch[b] = Branch[cursor] \cup {b}
      /\ b \notin Branch[cursor] /\ b \notin Branch[dbBest]
      /\ Applied = Occurrences(cursor) \cup OccurrencesIn(b, nTx)
  BY AppliedFacts, ConnectingInIInv
<1>2. /\ IndexMatches(batchPos, batchSpent, Applied) /\ ValidLedger(Applied)
      /\ Branch[cursor] \cap BadBlock = {}
      /\ LinksFollow(batchNext, cursor)
      /\ LinksFollow(pnext, dbBest)
      /\ {batchNext, pnext} \subseteq [Block -> Block \cup {None}]
      /\ {cursor, target, dbBest} \subseteq Block
      /\ Branch[target] \subseteq mapBlockIndex
      /\ vDelete \in Seq(Tx)
  BY DEF IInv, DbInv, BatchInv, Batching, TypeOK
<1>3. CASE b \in BadBlock
  BY <1>1, <1>3, AbortStep DEF Batching, ValidChain
<1>4. CASE b \notin BadBlock
  <2>1. /\ batchNext' = [batchNext EXCEPT ![b] = pnext[b], ![cursor] = b]
        /\ cursor' = b /\ nTx' = 0
        /\ vDelete' = vDelete \o Vtx[b]
        /\ UNCHANGED <<batchPos, batchSpent, pc, vResurrect>>
    BY <1>4
  <2>2. TypeOK'
    <3>1. b \in mapBlockIndex
      BY <1>1, <1>2
    <3>2. vDelete' \in Seq(Tx)
      <4>1. Vtx[b] \in Seq(Tx)
        BY <1>1, TxAssumption
      <4> HIDE DEF b, ConnectBlock
      <4> QED
        BY <1>2, <2>1, <4>1
    <3>3. batchNext' \in [Block -> Block \cup {None}]
      BY <1>1, <1>2, <2>1
    <3>4. /\ UNCHANGED <<mapBlockIndex, pnext, pindexBest, mempool, dbIndex, dbNext,
                         dbBest, dbPos, dbSpent, pindexNew, target, mode, crashes,
                         batchPos, batchSpent, pc, vResurrect>>
          /\ cursor' \in mapBlockIndex /\ nTx' = 0
      BY <2>1, <3>1
    <3> HIDE DEF b, ConnectBlock
    <3> QED
      BY <3>2, <3>3, <3>4 DEF IInv, TypeOK
  <2>3. DbInv'
    BY DEF IInv, DbInv, TxIndexMatchesChain, BestChainValid, LinksFollow
  <2>4. BestInv'
    BY <2>1 DEF IInv, BestInv, Choosing
  <2>5. BatchInv'
    <3>1. Applied' = Applied
      BY <1>1, <2>1, OccurrencesOfChild DEF Applied
    <3>2. LinksFollow(batchNext', b)
      <4>1. pnext[b] = None
        BY <1>1, <1>2, NoLinkOff
      <4> QED
        BY <1>1, <1>2, <2>1, <4>1, LinkChild
    <3> QED
      BY <1>1, <1>2, <1>4, <2>1, <3>1, <3>2 DEF BatchInv, Batching
  <2>6. TargetInv'
    <3>1. \A x \in Block : 0 =< Len(Vtx[x])
      BY TxAssumption
    <3>2. b # target => ChildToward(b, target) \in Block
      BY <1>1, <1>2, ChildTowardFacts
    <3> QED
      BY <1>1, <1>2, <2>1, <3>1, <3>2 DEF IInv, TargetInv, Choosing, Batching
  <2>7. RejectInv'
    BY <2>1 DEF IInv, RejectInv, Choosing
  <2> QED
    BY <2>2, <2>3, <2>4, <2>5, <2>6, <2>7 DEF IInv
<1> QED
  BY <1>3, <1>4

(* The links in memory after a reorganisation. *)
LEMMA ReorganizedLinks ==
  ASSUME NEW old \in Block, NEW new \in Block,
         NEW next \in [Block -> Block \cup {None}], LinksFollow(next, old)
  PROVE  LinksFollow([b \in Block |->
            IF \E c \in Branch[new] \ Branch[old] : Parent[c] = b
              THEN ChildToward(b, new)
              ELSE IF \E d \in Branch[old] \ Branch[new] : Parent[d] = b
                     THEN None ELSE next[b]], new)
<1> DEFINE next2 == [b \in Block |->
            IF \E c \in Branch[new] \ Branch[old] : Parent[c] = b
              THEN ChildToward(b, new)
              ELSE IF \E d \in Branch[old] \ Branch[new] : Parent[d] = b
                     THEN None ELSE next[b]]
<1>1. /\ Genesis \in Branch[old] /\ Genesis \in Branch[new] /\ None \notin Block
      /\ Branch[old] \subseteq Block /\ Branch[new] \subseteq Block
  BY BranchBasics, TxAssumption
<1>2. ASSUME NEW e \in Block, NEW c \in ConnectedBlocks(e), NEW d \in ConnectedBlocks(e),
             Parent[c] = Parent[d]
      PROVE  c = d
  <2>1. c \in Block \ {Genesis} /\ d \in Block \ {Genesis} /\ {c, d} \subseteq Branch[e]
    BY BranchBasics DEF ConnectedBlocks
  <2> QED
    BY <1>2, <2>1, BranchBasics, BranchOrder
<1>3. ASSUME NEW a \in Block, NEW c \in Block
      PROVE  next2[a] = c <=> c \in ConnectedBlocks(new) /\ Parent[c] = a
  <2>1. CASE \E x \in Branch[new] \ Branch[old] : Parent[x] = a
    <3>1. PICK x \in Branch[new] \ Branch[old] : Parent[x] = a
      BY <2>1
    <3>2. x \in Block \ {Genesis}
      BY <1>1, <3>1
    <3>3. a \in Branch[new] /\ a # new
      <4>1. Branch[x] \subseteq Branch[new] /\ a \in Branch[x] /\ Height[x] =< Height[new]
        BY <3>1, <3>2, BranchOrder, BranchBasics
      <4>2. Height[x] = Height[a] + 1 /\ Height[a] \in Nat
        BY <3>1, <3>2, BranchBasics
      <4> QED
        BY <4>1, <4>2
    <3>4. next2[a] = ChildToward(a, new)
      BY <2>1
    <3>5. /\ ChildToward(a, new) \in ConnectedBlocks(new)
          /\ Parent[ChildToward(a, new)] = a
          /\ \A y \in ConnectedBlocks(new) : Parent[y] = a => y = ChildToward(a, new)
      BY <3>3, ChildTowardFacts DEF ConnectedBlocks
    <3> QED
      BY <3>4, <3>5
  <2>2. CASE /\ ~ \E x \in Branch[new] \ Branch[old] : Parent[x] = a
             /\ \E d \in Branch[old] \ Branch[new] : Parent[d] = a
    <3>1. PICK d \in Branch[old] \ Branch[new] : Parent[d] = a
      BY <2>2
    <3>2. next2[a] = None
      BY <2>2
    <3>3. ~ (c \in ConnectedBlocks(new) /\ Parent[c] = a)
      BY <1>1, <1>2, <2>2, <3>1 DEF ConnectedBlocks
    <3> QED
      BY <1>1, <3>2, <3>3
  <2>3. CASE /\ ~ \E x \in Branch[new] \ Branch[old] : Parent[x] = a
             /\ ~ \E d \in Branch[old] \ Branch[new] : Parent[d] = a
    <3>1. next2[a] = next[a]
      BY <2>3
    <3>2. next[a] = c <=> c \in ConnectedBlocks(old) /\ Parent[c] = a
      BY DEF LinksFollow
    <3> QED
      BY <2>3, <3>1, <3>2 DEF ConnectedBlocks
  <2> QED
    BY <2>1, <2>2, <2>3
<1> QED
  BY <1>3 DEF LinksFollow

(* The links in memory after a commit. *)
LEMMA LinksAfterFollow ==
  ASSUME target \in Block, dbBest \in Block,
         pnext \in [Block -> Block \cup {None}], LinksFollow(pnext, dbBest),
         mode = "reorg" => pindexBest = dbBest,
         mode # "reorg" => target # Genesis /\ Parent[target] = dbBest
  PROVE  LinksAfter \in [Block -> Block \cup {None}] /\ LinksFollow(LinksAfter, target)
<1>1. CASE mode = "reorg"
  <2>1. LinksAfter = [b \in Block |->
             IF \E c \in Branch[target] \ Branch[dbBest] : Parent[c] = b
               THEN ChildToward(b, target)
               ELSE IF \E d \in Branch[dbBest] \ Branch[target] : Parent[d] = b
                      THEN None ELSE pnext[b]]
    BY <1>1 DEF LinksAfter, Connected, Disconnected
  <2>2. ASSUME NEW b \in Block, NEW c \in Branch[target] \ Branch[dbBest], Parent[c] = b
        PROVE  ChildToward(b, target) \in Block
    <3>1. c \in Block \ {Genesis} /\ Height[c] = Height[b] + 1 /\ Height[b] \in Nat
      BY <2>2, BranchBasics
    <3>2. b \in Branch[target] /\ b # target
      BY <2>2, <3>1, BranchBasics, BranchOrder
    <3> QED
      BY <3>2, ChildTowardFacts
  <2> QED
    BY <2>1, <2>2, ReorganizedLinks
<1>2. CASE mode # "reorg"
  <2>1. LinksAfter = [pnext EXCEPT ![dbBest] = target] /\ Parent[target] = dbBest
    BY <1>2 DEF LinksAfter
  <2>2. target \in Block \ {Genesis} /\ target \notin Branch[dbBest] /\ target # dbBest
    BY <1>2, BranchBasics
  <2>3. pnext[target] = None
    BY <2>2, NoLinkOff
  <2>4. LinksAfter \in [Block -> Block \cup {None}]
    BY <2>1
  <2>5. /\ LinksAfter[Parent[target]] = target /\ LinksAfter[target] = None
        /\ \A a \in Block \ {target, Parent[target]} : LinksAfter[a] = pnext[a]
    BY <2>1, <2>2, <2>3
  <2> QED
    BY <2>1, <2>2, <2>4, <2>5, LinkChild
<1> QED
  BY <1>1, <1>2

(* A commit makes the chain of pindexNew the best one; it is valid and has  *)
(* more trust than the old one.                                             *)
LEMMA CommitStep ==
  ASSUME IInv, Commit
  PROVE  /\ IInv'
         /\ ValidChain(target) /\ ChainTrust[target] > ChainTrust[dbBest]
         /\ target \in Block
<1>1. /\ pc = "connect" /\ cursor = target /\ nTx = 0 /\ pindexBest = dbBest
      /\ {target, pindexNew, dbBest} \subseteq mapBlockIndex /\ mapBlockIndex \subseteq Block
      /\ ChainTrust[target] > ChainTrust[dbBest]
      /\ mode \in {"inner", "reorg"}
      /\ mode = "inner" => Parent[target] = dbBest
      /\ pnext \in [Block -> Block \cup {None}]
      /\ LinksFollow(pnext, dbBest)
  BY DEF IInv, TypeOK, DbInv, BestInv, TargetInv, Choosing, Batching, Commit
<1>2. /\ dbNext' = batchNext /\ dbPos' = batchPos /\ dbSpent' = batchSpent
      /\ dbBest' = target /\ pc' = "pool"
      /\ UNCHANGED <<mapBlockIndex, pindexBest, mempool, dbIndex, batchNext, batchPos,
                     batchSpent, pindexNew, target, cursor, nTx, mode, vResurrect,
                     vDelete, crashes>>
  BY DEF Commit, batch, work, queues
<1>3. /\ IndexMatches(batchPos, batchSpent, Occurrences(target))
      /\ ValidChain(target)
      /\ LinksFollow(batchNext, target)
  <2>1. Applied = Occurrences(target)
    BY <1>1 DEF Applied
  <2> QED
    BY <1>1, <2>1 DEF IInv, BatchInv, Batching, ValidChain
<1>4. target = pindexNew
  BY <1>1, <1>3 DEF IInv, RejectInv
<1>5. pnext' \in [Block -> Block \cup {None}] /\ LinksFollow(pnext', target)
  <2>1. mode = "inner" => target # Genesis
    <3>1. ChainTrust[Genesis] =< ChainTrust[dbBest]
      BY <1>1, BranchOrder, BranchBasics
    <3> QED
      BY <1>1, <3>1, BranchBasics
  <2> QED
    BY <1>1, <2>1, LinksAfterFollow DEF Commit
<1>6. TypeOK'
  BY <1>1, <1>2, <1>5 DEF IInv, TypeOK
<1>7. DbInv'
  BY <1>2, <1>3, <1>5 DEF DbInv, TxIndexMatchesChain, BestChainValid, LinksFollow
<1>8. BestInv' /\ BatchInv' /\ TargetInv'
  BY <1>1, <1>2, <1>4 DEF BestInv, BatchInv, TargetInv, Choosing, Batching
<1>9. RejectInv'
  <2>1. \A b \in mapBlockIndex : ChainTrust[b] \in Nat
    BY <1>1, BranchBasics
  <2> QED
    BY <1>1, <1>2, <1>4, <2>1 DEF IInv, RejectInv
<1> QED
  BY <1>1, <1>3, <1>6, <1>7, <1>8, <1>9 DEF IInv

(* Nothing in the invariant but TypeOK reads the pool or its queues. *)
LEMMA PoolStep ==
  ASSUME IInv, mempool' \in PoolType,
         {vResurrect', vDelete'} \subseteq Seq(Tx),
         UNCHANGED <<mapBlockIndex, pnext, pindexBest, db, batch, pindexNew, target,
                     cursor, nTx, mode, pc, crashes>>
  PROVE  IInv'
<1> USE DEF db, batch
<1>1. TypeOK'
  BY DEF IInv, TypeOK, PoolType
<1>2. DbInv'
  BY DEF IInv, DbInv, TxIndexMatchesChain, BestChainValid, LinksFollow
<1>3. BestInv' /\ TargetInv' /\ RejectInv'
  BY DEF IInv, BestInv, TargetInv, RejectInv, Choosing, Batching
<1>4. BatchInv'
  BY DEF IInv, BatchInv, Batching, Applied, LinksFollow
<1> QED
  BY <1>1, <1>2, <1>3, <1>4 DEF IInv

(* The pool takes back a transaction, *)
LEMMA ResurrectTxStep ==
  ASSUME IInv, ResurrectTx
  PROVE  IInv'
<1> USE DEF ResurrectTx
<1>1. mempool \in PoolType /\ vResurrect \in Seq(Tx) /\ vDelete \in Seq(Tx)
  BY DEF IInv, TypeOK, PoolType
<1>2. Head(vResurrect) \in Tx /\ Tail(vResurrect) \in Seq(Tx)
  BY <1>1
<1>3. mempool' \in PoolType
  BY <1>1, <1>2, AcceptType
<1> QED
  BY <1>1, <1>2, <1>3, PoolStep

(* drops one, *)
LEMMA DeleteTxStep ==
  ASSUME IInv, DeleteTx
  PROVE  IInv'
<1> USE DEF DeleteTx
<1>1. mempool \in PoolType /\ vResurrect \in Seq(Tx) /\ vDelete \in Seq(Tx)
  BY DEF IInv, TypeOK, PoolType
<1>2. Tail(vDelete) \in Seq(Tx)
  BY <1>1
<1>3. mempool' \in PoolType
  BY <1>1, RemoveType
<1> QED
  BY <1>1, <1>2, <1>3, PoolStep

(* or admits one. *)
LEMMA AcceptTxStep ==
  ASSUME IInv, NEW t \in Tx, AcceptTx(t)
  PROVE  IInv'
<1> USE DEF AcceptTx, work, queues
<1>1. mempool \in PoolType /\ vResurrect \in Seq(Tx) /\ vDelete \in Seq(Tx)
  BY DEF IInv, TypeOK, PoolType
<1>2. mempool' \in PoolType
  BY <1>1, AcceptType
<1> QED
  BY <1>1, <1>2, PoolStep

(* No block is left over: the commit was for pindexNew itself. *)
LEMMA ConnectFurtherStep ==
  ASSUME IInv, ConnectFurther
  PROVE  IInv'
<1>1. /\ pc' = "newbest" /\ pc = "pool"
      /\ UNCHANGED <<memory, db, batch, pindexNew, target, cursor, nTx, mode, queues,
                     crashes>>
  BY DEF IInv, BestInv, ConnectFurther, PoolDone
<1> USE DEF memory, db, batch, queues
<1>2. TypeOK'
  BY <1>1 DEF IInv, TypeOK
<1>3. DbInv'
  BY <1>1 DEF IInv, DbInv, TxIndexMatchesChain, BestChainValid, LinksFollow
<1>4. BestInv' /\ BatchInv' /\ TargetInv' /\ RejectInv'
  BY <1>1 DEF IInv, BestInv, BatchInv, TargetInv, RejectInv, Choosing, Batching
<1> QED
  BY <1>2, <1>3, <1>4 DEF IInv

(* Memory follows the database. *)
LEMMA NewBestStep ==
  ASSUME IInv, NewBest
  PROVE  IInv'
<1> USE DEF NewBest, db, batch, work, queues
<1>1. TypeOK'
  BY DEF IInv, TypeOK
<1>2. DbInv'
  BY DEF IInv, DbInv, TxIndexMatchesChain, BestChainValid, LinksFollow
<1>3. BestInv' /\ BatchInv' /\ TargetInv' /\ RejectInv'
  BY DEF IInv, BestInv, BatchInv, TargetInv, RejectInv, Choosing, Batching
<1> QED
  BY <1>1, <1>2, <1>3 DEF IInv

(* A step that changes nothing. *)
LEMMA StutterStep ==
  ASSUME IInv, UNCHANGED vars
  PROVE  IInv'
<1> USE DEF vars, memory, db, batch, work, queues
<1>1. mempool \in PoolType /\ {vResurrect, vDelete} \subseteq Seq(Tx)
  BY DEF IInv, TypeOK, PoolType
<1> QED
  BY <1>1, PoolStep

-----------------------------------------------------------------------------
(* The theorems. *)

(* Every step of the node keeps the invariant. *)
LEMMA NodeStep ==
  ASSUME IInv, [Node]_vars
  PROVE  IInv'
<1>1. CASE \E b \in Block \ {Genesis} : AcceptBlock(b)
  BY <1>1, AcceptBlockStep
<1>2. CASE Advance
  BY <1>2, SetBestChainStep, DisconnectBlockStep, ConnectTxStep, ConnectBlockStep,
     CommitStep, ResurrectTxStep, DeleteTxStep, ConnectFurtherStep, NewBestStep
     DEF Advance
<1>3. CASE \E t \in Tx : AcceptTx(t)
  BY <1>3, AcceptTxStep
<1>4. CASE UNCHANGED vars
  BY <1>4, StutterStep
<1> QED
  BY <1>1, <1>2, <1>3, <1>4 DEF Node

(* The inductive invariant holds in every state of a node that keeps        *)
(* running: the batch of the open transaction always is the index of a      *)
(* valid piece of chain, and a block of more trust than the best chain is   *)
(* the one being worked on or known to be invalid.                          *)
THEOREM Invariant == NodeSpec => []IInv
<1>1. IInv /\ [Node]_vars => IInv'
  BY NodeStep
<1> QED
  BY InitIInv, <1>1, PTL DEF NodeSpec

(* Type correctness, and no indexed block without its ancestors             *)
(* (AddToBlockIndex, SetBestChain).                                         *)
THEOREM TypeCorrect == NodeSpec => []TypeOK
<1>1. IInv => TypeOK
  BY DEF IInv
<1> QED
  BY Invariant, <1>1, PTL

(* However branches are left and joined, the transaction index in the       *)
(* database is the index of the committed best chain, no more and no less   *)
(* (ConnectBlock, DisconnectBlock, Reorganize).                             *)
THEOREM IndexCorrect == NodeSpec => []TxIndexMatchesChain
<1>1. IInv => TxIndexMatchesChain
  BY DEF IInv, DbInv
<1> QED
  BY Invariant, <1>1, PTL

(* No sequence of blocks makes the committed best chain spend an output     *)
(* twice, before it exists or before it is mature, or contain a block that  *)
(* ConnectBlock rejects.                                                    *)
THEOREM ChainValid == NodeSpec => []BestChainValid
<1>1. IInv => BestChainValid
  BY DEF IInv, DbInv
<1> QED
  BY Invariant, <1>1, PTL

(* Between two calls of SetBestChain memory and database agree on the best  *)
(* chain and its links, as long as the process does not end: a postponed    *)
(* block that fails, the case in which they would not, cannot occur.        *)
THEOREM MemoryFollowsDisk == NodeSpec => []MemoryMatchesDisk
<1>1. IInv => MemoryMatchesDisk
  BY DEF IInv, DbInv, BestInv, MemoryMatchesDisk
<1> QED
  BY Invariant, <1>1, PTL

(* The best chain has the most trust of all valid chains of the index,      *)
(* although SetBestChain is only ever called for the newest block.          *)
THEOREM TrustWins == NodeSpec => []MostTrustWins
<1>1. ASSUME IInv PROVE MostTrustWins
  <2>1. \A b \in mapBlockIndex : ChainTrust[b] \in Nat
    BY <1>1, BranchBasics DEF IInv, TypeOK
  <2>2. pindexBest \in mapBlockIndex
    BY <1>1 DEF IInv, TypeOK
  <2>3. pc = "idle" => pindexBest = dbBest
    BY <1>1 DEF IInv, BestInv
  <2> QED
    BY <1>1, <2>1, <2>2, <2>3 DEF IInv, RejectInv, Choosing, MostTrustWins
<1> QED
  BY Invariant, <1>1, PTL

(* The node implements the abstract ledger: every step of AcceptBlock,      *)
(* SetBestChain, Reorganize and AcceptToMemoryPool leaves the committed     *)
(* best chain alone or replaces it by a valid chain of more trust.          *)
THEOREM Refinement == NodeSpec => RefinesTrustedChain
<1>1. Init => L!Start
  BY DEF Init, L!Start
<1>2. ASSUME IInv, [Node]_vars PROVE [L!AnyAdoption]_dbBest
  <2>1. CASE Commit
    <3>1. target \in Block /\ ValidChain(target)
          /\ ChainTrust[target] > ChainTrust[dbBest] /\ dbBest' = target
      BY <1>2, <2>1, CommitStep DEF Commit
    <3>2. L!ValidChain(target)
      BY <3>1 DEF ValidChain, ValidLedger, NoDoubleSpend, InputsCreated, CreatedFor,
         Earlier, TxAt, Occurrences, OccurrencesIn, ConnectedBlocks,
         L!ValidChain, L!ValidLedger, L!NoDoubleSpend, L!InputsCreated, L!CreatedFor,
         L!Earlier, L!TxAt, L!Occurrences, L!OccurrencesIn, L!ConnectedBlocks
    <3> QED
      BY <3>1, <3>2 DEF L!AnyAdoption, L!Adopt
  <2>2. CASE ~ Commit
    <3>1. UNCHANGED dbBest
      BY <1>2, <2>2 DEF Node, Advance, AcceptBlock, SetBestChain, DisconnectBlock,
         ConnectTx, ConnectBlock, ResurrectTx, DeleteTx, ConnectFurther, NewBest,
         AcceptTx, vars, db
    <3> QED
      BY <3>1
  <2> QED
    BY <2>1, <2>2
<1>3. NodeSpec => L!Start /\ [][L!AnyAdoption]_dbBest
  BY Invariant, <1>1, <1>2, PTL DEF NodeSpec
<1> QED
  BY <1>3 DEF RefinesTrustedChain, L!OnlyBetterChains

(* mapTx and mapNextTx of the pool agree in every state, crashes and        *)
(* restarts included, so no two transactions of the pool ever spend the     *)
(* same output (AcceptToMemoryPool, CTxMemPool::remove, removeConflicts).   *)
THEOREM PoolCorrect == Spec => []PoolSpendsIndexed
<1>1. Init => PoolSpendsIndexed
  BY DEF Init, PoolSpendsIndexed, NextTxMatches, EmptyPool
<1>2. ASSUME PoolSpendsIndexed, [Next]_vars PROVE PoolSpendsIndexed'
  <2>1. CASE ResurrectTx
    BY <1>2, <2>1, PoolOperationsKeepNext DEF ResurrectTx, PoolSpendsIndexed
  <2>2. CASE DeleteTx
    BY <1>2, <2>2, PoolOperationsKeepNext DEF DeleteTx, PoolSpendsIndexed
  <2>3. CASE \E t \in Tx : AcceptTx(t)
    BY <1>2, <2>3, PoolOperationsKeepNext DEF AcceptTx, PoolSpendsIndexed
  <2>4. CASE Crash
    BY <2>4 DEF Crash, PoolSpendsIndexed, NextTxMatches, EmptyPool
  <2>5. CASE ~ (ResurrectTx \/ DeleteTx \/ (\E t \in Tx : AcceptTx(t)) \/ Crash)
    <3>1. UNCHANGED mempool
      BY <1>2, <2>5 DEF Next, Node, Advance, AcceptBlock, SetBestChain, DisconnectBlock,
         ConnectTx, ConnectBlock, Commit, ConnectFurther, NewBest, LoadBlockIndex,
         vars, memory
    <3> QED
      BY <1>2, <3>1 DEF PoolSpendsIndexed
  <2> QED
    BY <2>1, <2>2, <2>3, <2>4, <2>5
<1> QED
  BY <1>1, <1>2, PTL DEF Spec

-----------------------------------------------------------------------------
(* The pool and the chain.  Until the commit the pool has nothing of the    *)
(* committed chain, and vDelete collects what the batch connects; after it  *)
(* what the two have in common waits in vDelete.                            *)
Elements(s) == { s[i] : i \in 1..Len(s) }

UnconfirmedInv ==
  /\ pc # "pool" => mempool.mapTx \cap ChainTxs(dbBest) = {}
  /\ pc = "pool" => mempool.mapTx \cap ChainTxs(dbBest) \subseteq Elements(vDelete)
  /\ Batching => ChainTxs(cursor) \subseteq ChainTxs(dbBest) \cup Elements(vDelete)

(* A transaction of the chain is in the index. *)
LEMMA ChainTxsIndexed ==
  ASSUME NEW b \in Block, NEW pos, PosMatches(pos, Occurrences(b)), NEW t \in ChainTxs(b)
  PROVE  pos[t] # None
<1>1. PICK a \in ConnectedBlocks(b) : t \in TxsOf(a)
  BY DEF ChainTxs
<1>2. PICK i \in 1..Len(Vtx[a]) : t = Vtx[a][i]
  BY <1>1 DEF TxsOf
<1>3. a \in Block
  BY BranchBasics DEF ConnectedBlocks
<1>4. <<a, i>> \in Occurrences(b) /\ TxAt(<<a, i>>) = t
  BY <1>2 DEF Occurrences, OccurrencesIn, TxAt
<1>5. pos[t] = a
  BY <1>4 DEF PosMatches
<1> QED
  BY <1>3, <1>5, TxAssumption

(* The chain of a block is that of its parent and its own transactions.     *)
LEMMA ChainTxsOfChild ==
  ASSUME NEW b \in Block \ {Genesis}
  PROVE  ChainTxs(b) = ChainTxs(Parent[b]) \cup TxsOf(b)
<1>1. ConnectedBlocks(b) = ConnectedBlocks(Parent[b]) \cup {b}
  BY BranchBasics DEF ConnectedBlocks
<1> QED
  BY <1>1 DEF ChainTxs

(* The pool only takes what the index does not have, and only gives back.   *)
LEMMA PoolTakesUnindexed ==
  ASSUME NEW pool, NEW t, NEW pos, NEW spent, NEW best
  PROVE  /\ AcceptToMemoryPool(pool, t, pos, spent, best).mapTx \subseteq pool.mapTx \cup {t}
         /\ \/ pos[t] = None
            \/ AcceptToMemoryPool(pool, t, pos, spent, best) = pool
         /\ remove(pool, t).mapTx \subseteq pool.mapTx \ {t}
         /\ removeConflicts(pool, t).mapTx \subseteq pool.mapTx
<1>1. \A D : Without(pool, D).mapTx = pool.mapTx \ D
  BY DEF Without
<1>2. remove(pool, t).mapTx \subseteq pool.mapTx \ {t}
  BY <1>1 DEF remove
<1>3. removeConflicts(pool, t).mapTx \subseteq pool.mapTx
  BY <1>1 DEF removeConflicts
<1>4. addUnchecked(pool, t).mapTx = pool.mapTx \cup {t}
  BY DEF addUnchecked
<1> QED
  BY <1>2, <1>3, <1>4 DEF AcceptToMemoryPool, Acceptable

(* Aborting leaves the committed chain and the pool as they were. *)
LEMMA AbortUnconfirmed ==
  ASSUME IInv, UnconfirmedInv, Batching, Abort, UNCHANGED <<mempool, dbBest>>
  PROVE  UnconfirmedInv'
<1>1. pc # "pool" /\ pc' = "idle"
  BY DEF Abort, Batching, IInv, TargetInv
<1> QED
  BY <1>1 DEF UnconfirmedInv, Batching

(* Each step of the node keeps it. *)
LEMMA UnconfirmedStep ==
  ASSUME IInv, UnconfirmedInv, [Node]_vars
  PROVE  UnconfirmedInv'
<1> USE DEF memory, db
<1>t. /\ dbBest \in Block /\ cursor \in Block /\ target \in Block
      /\ vDelete \in Seq(Tx) /\ vResurrect \in Seq(Tx)
      /\ PosMatches(dbPos, Occurrences(dbBest))
  BY DEF IInv, TypeOK, DbInv, TxIndexMatchesChain, IndexMatches
<1>1. ASSUME NEW b, AcceptBlock(b) PROVE UnconfirmedInv'
  <2>1. pc \notin {"pool", "disconnect", "connect"} /\ pc' \in {"idle", "setbest"}
    BY <1>1 DEF AcceptBlock
  <2>2. UNCHANGED <<mempool, dbBest>>
    BY <1>1 DEF AcceptBlock
  <2> QED
    BY <2>1, <2>2 DEF UnconfirmedInv, Batching
<1>2. CASE SetBestChain
  <2>1. pc = "setbest" /\ pc' \in {"connect", "disconnect"} /\ cursor' = pindexBest
        /\ UNCHANGED <<mempool, dbBest, vDelete>>
    BY <1>2 DEF SetBestChain, queues
  <2>2. pindexBest = dbBest
    BY <2>1 DEF IInv, BestInv, Choosing
  <2> QED
    BY <2>1, <2>2 DEF UnconfirmedInv, Batching
<1>3. CASE DisconnectBlock
  <2>1. pc = "disconnect" /\ UNCHANGED <<mempool, dbBest>>
    BY <1>3 DEF DisconnectBlock
  <2>2. CASE Abort
    BY <2>1, <2>2, AbortUnconfirmed DEF Batching
  <2>3. CASE ~ Abort
    <3>1. cursor' = Parent[cursor] /\ vDelete' = vDelete /\ pc' \in {"connect", "disconnect"}
      BY <1>3, <2>3 DEF DisconnectBlock
    <3>2. cursor # Genesis
      BY <1>t, <2>1, BranchBasics DEF IInv, TargetInv
    <3>3. ChainTxs(Parent[cursor]) \subseteq ChainTxs(cursor)
      BY <1>t, <3>2, ChainTxsOfChild
    <3> QED
      BY <2>1, <3>1, <3>3 DEF UnconfirmedInv, Batching
  <2> QED
    BY <2>2, <2>3
<1>4. CASE ConnectTx
  <2>1. pc = "connect" /\ UNCHANGED <<mempool, dbBest>>
    BY <1>4 DEF ConnectTx
  <2>2. CASE Abort
    BY <2>1, <2>2, AbortUnconfirmed DEF Batching
  <2>3. CASE ~ Abort
    <3>1. UNCHANGED <<pc, cursor, vDelete>>
      BY <1>4, <2>3 DEF ConnectTx, queues
    <3> QED
      BY <2>1, <3>1 DEF UnconfirmedInv, Batching
  <2> QED
    BY <2>2, <2>3
<1>5. CASE ConnectBlock
  <2>1. pc = "connect" /\ cursor # target /\ UNCHANGED <<mempool, dbBest>>
    BY <1>5 DEF ConnectBlock
  <2>2. CASE Abort
    BY <2>1, <2>2, AbortUnconfirmed DEF Batching
  <2>3. CASE ~ Abort
    <3> DEFINE b == ChildToward(cursor, target)
    <3>1. cursor' = b /\ vDelete' = vDelete \o Vtx[b] /\ pc' = pc
      BY <1>5, <2>3 DEF ConnectBlock
    <3>2. b \in Block \ {Genesis} /\ Parent[b] = cursor
      BY <2>1, AppliedFacts, ConnectingInIInv
    <3>3. Vtx[b] \in Seq(Tx)
      BY <3>2, TxAssumption
    <3> HIDE DEF b
    <3>4. Elements(vDelete \o Vtx[b]) = Elements(vDelete) \cup TxsOf(b)
      <4> DEFINE s == vDelete
                 r == Vtx[b]
      <4>1. /\ Len(s \o r) = Len(s) + Len(r) /\ Len(s) \in Nat /\ Len(r) \in Nat
            /\ \A i \in 1..Len(s) : i \in 1..Len(s \o r) /\ (s \o r)[i] = s[i]
            /\ \A i \in 1..Len(r) : Len(s) + i \in 1..Len(s \o r) /\ (s \o r)[Len(s) + i] = r[i]
            /\ \A i \in 1..Len(s \o r) :
                 \/ i \in 1..Len(s) /\ (s \o r)[i] = s[i]
                 \/ i - Len(s) \in 1..Len(r) /\ (s \o r)[i] = r[i - Len(s)]
        BY <1>t, <3>3
      <4> QED
        BY <4>1 DEF Elements, TxsOf
    <3>5. ChainTxs(b) = ChainTxs(cursor) \cup TxsOf(b)
      BY <3>2, ChainTxsOfChild
    <3> QED
      BY <2>1, <3>1, <3>4, <3>5 DEF UnconfirmedInv, Batching
  <2> QED
    BY <2>2, <2>3
<1>6. CASE Commit
  <2>1. /\ pc = "connect" /\ cursor = target /\ pc' = "pool" /\ dbBest' = target
        /\ UNCHANGED <<mempool, vDelete>>
    BY <1>6 DEF Commit, work, queues
  <2> QED
    BY <2>1 DEF UnconfirmedInv, Batching
<1>7. ASSUME NEW t, NEW best, UNCHANGED <<dbBest, pc, vDelete, cursor>>,
             \/ mempool' = AcceptToMemoryPool(mempool, t, dbPos, dbSpent, best)
             \/ mempool' = mempool
      PROVE  UnconfirmedInv'
  <2>1. mempool'.mapTx \cap ChainTxs(dbBest) \subseteq mempool.mapTx \cap ChainTxs(dbBest)
    BY <1>t, <1>7, PoolTakesUnindexed, ChainTxsIndexed
  <2> QED
    BY <1>7, <2>1 DEF UnconfirmedInv, Batching
<1>8. CASE ResurrectTx
  <2>1. /\ UNCHANGED <<dbBest, pc, vDelete, cursor>>
        /\ \/ mempool' = AcceptToMemoryPool(mempool, Head(vResurrect), dbPos, dbSpent, pindexBest)
           \/ mempool' = mempool
    BY <1>8 DEF ResurrectTx
  <2> QED
    BY <1>7, <2>1
<1>9. CASE DeleteTx
  <2> DEFINE t == Head(vDelete)
  <2>1. /\ pc = "pool" /\ pc' = "pool" /\ vDelete # <<>> /\ vDelete' = Tail(vDelete)
        /\ UNCHANGED dbBest
        /\ \/ mempool' = removeConflicts(remove(mempool, t), t)
           \/ mempool' = remove(mempool, t)
    BY <1>9 DEF DeleteTx
  <2>2. mempool'.mapTx \subseteq mempool.mapTx \ {t}
    <3> HIDE DEF t
    <3> DEFINE less == remove(mempool, t)
    <3>1. less.mapTx \subseteq mempool.mapTx \ {t}
      BY PoolTakesUnindexed
    <3>2. mempool' = removeConflicts(less, t) \/ mempool' = less
      BY <2>1
    <3> HIDE DEF less
    <3>3. removeConflicts(less, t).mapTx \subseteq less.mapTx
      BY PoolTakesUnindexed
    <3> QED
      BY <3>1, <3>2, <3>3
  <2>3. Elements(vDelete) \subseteq Elements(Tail(vDelete)) \cup {t}
    <3> SUFFICES ASSUME NEW i \in 1..Len(vDelete), i # 1
                 PROVE  vDelete[i] \in Elements(Tail(vDelete))
      <4>1. vDelete[1] = t
        BY <1>t, <2>1
      <4> HIDE DEF t
      <4> QED
        BY <4>1 DEF Elements
    <3>1. i - 1 \in 1..Len(Tail(vDelete)) /\ Tail(vDelete)[i - 1] = vDelete[i]
      BY <1>t, <2>1
    <3> QED
      BY <3>1 DEF Elements
  <2> QED
    BY <2>1, <2>2, <2>3 DEF UnconfirmedInv, Batching
<1>10. CASE ConnectFurther
  <2>1. /\ pc = "pool" /\ vDelete = <<>> /\ pc' = "newbest" /\ UNCHANGED <<mempool, dbBest>>
    BY <1>10 DEF ConnectFurther, PoolDone, IInv, BestInv
  <2>2. Elements(<<>>) = {}
    BY DEF Elements
  <2> QED
    BY <2>1, <2>2 DEF UnconfirmedInv, Batching
<1>11. CASE NewBest
  <2>1. pc = "newbest" /\ pc' = "idle" /\ UNCHANGED <<mempool, dbBest>>
    BY <1>11 DEF NewBest
  <2> QED
    BY <2>1 DEF UnconfirmedInv, Batching
<1>12. ASSUME NEW t, AcceptTx(t) PROVE UnconfirmedInv'
  BY <1>7, <1>12 DEF AcceptTx, work, queues
<1>13. CASE UNCHANGED vars
  BY <1>7, <1>13 DEF vars, work, queues
<1> QED
  BY <1>1, <1>2, <1>3, <1>4, <1>5, <1>6, <1>8, <1>9, <1>10, <1>11, <1>12, <1>13
  DEF Node, Advance

(* A transaction that a block confirmed is not left in the pool, whichever  *)
(* branches the chain left and joined ("Delete redundant memory             *)
(* transactions"), as long as the process runs.                             *)
THEOREM PoolHasUnconfirmed == NodeSpec => []PoolUnconfirmed
<1>1. Init => UnconfirmedInv
  <2>1. Init => mempool.mapTx = {} /\ pc = "idle"
    BY DEF Init, EmptyPool
  <2> QED
    BY <2>1 DEF UnconfirmedInv, Batching
<1>2. IInv /\ UnconfirmedInv /\ [Node]_vars => UnconfirmedInv'
  BY UnconfirmedStep
<1>3. IInv /\ UnconfirmedInv => PoolUnconfirmed
  BY DEF IInv, BestInv, UnconfirmedInv, PoolUnconfirmed
<1> QED
  BY Invariant, <1>1, <1>2, <1>3, PTL DEF NodeSpec

-----------------------------------------------------------------------------
(* The process may end at any point and start again.  A commit then may be  *)
(* for a block below pindexNew, whose postponed blocks follow one by one.   *)

(* No postponed block fails.  (If one does, SetBestChain makes pindexNew    *)
(* the best block all the same, and memory is ahead of the database.)       *)
PostponedConnect == pc = "connect" /\ mode = "further" => pc' # "newbest"

RestartTypes ==
  /\ TypeOK
  /\ dbIndex = mapBlockIndex
  /\ pc \in {"disconnect", "connect", "pool"} => target \in Branch[pindexNew]

(* The committed state, and what memory has of it while the process runs.   *)
DbRight ==
  /\ TxIndexMatchesChain
  /\ BestChainValid
  /\ LinksFollow(dbNext, dbBest)
  /\ pc # "down" => LinksFollow(pnext, dbBest)

(* Which block is the best one where: pindexBest stays behind while         *)
(* postponed blocks are connected.                                          *)
BestRight ==
  /\ pc \in {"idle", "setbest"} \/ (Batching /\ mode # "further") => pindexBest = dbBest
  /\ pc = "pool" => target = dbBest
  /\ pc = "newbest" => pindexNew = dbBest

TargetRight ==
  /\ Batching => /\ Branch[target] \cap Branch[dbBest] \subseteq Branch[cursor]
                 /\ mode # "reorg" => target # Genesis /\ Parent[target] = dbBest
  /\ pc = "disconnect" => /\ cursor \in Branch[dbBest]
                          /\ cursor \notin Branch[target]
                          /\ nTx = 0
  /\ pc = "connect" => /\ cursor \in Branch[target]
                       /\ cursor = target => nTx = 0
                       /\ cursor # target =>
                            nTx =< Len(Vtx[ChildToward(cursor, target)])

RestartInv == RestartTypes /\ DbRight /\ BestRight /\ BatchInv /\ TargetRight

(* While the batch connects blocks. *)
LEMMA ConnectingInRestart ==
  ASSUME RestartInv, pc = "connect"
  PROVE  Connecting
  BY DEF RestartInv, RestartTypes, TypeOK, TargetRight, Batching, Connecting

(* Nothing in the committed state but memory's links depends on pc.         *)
LEMMA DbRightKept ==
  ASSUME DbRight, UNCHANGED db, pc # "down" \/ pc' = "down", pc' = "down" \/ UNCHANGED pnext
  PROVE  DbRight'
  BY DEF DbRight, db, TxIndexMatchesChain, BestChainValid, LinksFollow

(* A new index entry. *)
LEMMA RestartAccept ==
  ASSUME RestartInv, NEW b \in Block \ {Genesis}, AcceptBlock(b)
  PROVE  RestartInv'
<1> USE DEF AcceptBlock, AcceptTests, MoreTrust
<1>1. RestartTypes'
  <2>1. Branch[b] = Branch[Parent[b]] \cup {b}
    BY BranchBasics
  <2>2. \A x \in mapBlockIndex' : Branch[x] \subseteq mapBlockIndex'
    BY <2>1 DEF RestartInv, RestartTypes, TypeOK
  <2>3. TypeOK'
    BY <2>2 DEF RestartInv, RestartTypes, TypeOK, queues
  <2> QED
    BY <2>3 DEF RestartInv, RestartTypes
<1>2. DbRight'
  <2>1. \A c \in ConnectedBlocks(dbBest) : Parent[c] # b
    <3>1. dbBest \in mapBlockIndex /\ dbBest \in Block /\ Branch[dbBest] \subseteq mapBlockIndex
      BY DEF RestartInv, RestartTypes, TypeOK
    <3>2. \A c \in ConnectedBlocks(dbBest) : Parent[c] \in Branch[dbBest]
      BY <3>1, BranchBasics, BranchOrder DEF ConnectedBlocks
    <3> QED
      BY <3>1, <3>2
  <2>2. dbNext \in [Block -> Block \cup {None}] /\ None \notin Block
    BY TxAssumption DEF RestartInv, RestartTypes, TypeOK
  <2>3. LinksFollow(dbNext', dbBest')
    BY <2>1, <2>2 DEF RestartInv, DbRight, LinksFollow
  <2> QED
    BY <2>3 DEF RestartInv, DbRight, TxIndexMatchesChain, BestChainValid, LinksFollow
<1>3. BestRight' /\ BatchInv' /\ TargetRight'
  BY DEF RestartInv, BestRight, BatchInv, TargetRight, Batching
<1> QED
  BY <1>1, <1>2, <1>3 DEF RestartInv

(* The first transaction starts from the committed chain. *)
LEMMA RestartSetBest ==
  ASSUME RestartInv, SetBestChain
  PROVE  RestartInv'
<1> USE DEF SetBestChain, memory, db, batch, queues
<1>1. /\ pindexBest = dbBest
      /\ {pindexNew, dbBest} \subseteq mapBlockIndex /\ mapBlockIndex \subseteq Block
      /\ Branch[pindexNew] \subseteq mapBlockIndex
  BY DEF RestartInv, RestartTypes, TypeOK, BestRight
<1>2. /\ target' \in Branch[pindexNew]
      /\ mode' \in {"inner", "reorg"}
      /\ mode' # "reorg" => target' # Genesis /\ Parent[target'] = dbBest
  BY <1>1, BranchBasics, IntermediateExists
<1>3. RestartTypes'
  BY <1>1, <1>2 DEF RestartInv, RestartTypes, TypeOK
<1>4. DbRight'
  BY DbRightKept DEF RestartInv
<1>5. BestRight'
  BY <1>1, <1>2 DEF BestRight, Batching
<1>6. BatchInv'
  <2>1. Applied' = Occurrences(dbBest)
    BY <1>1 DEF RestartInv, BatchInv, Batching, Applied
  <2>2. batchPos' = dbPos /\ batchSpent' = dbSpent /\ batchNext' = dbNext
    BY DEF RestartInv, BatchInv, Batching
  <2>3. /\ IndexMatches(dbPos, dbSpent, Occurrences(dbBest))
        /\ ValidLedger(Occurrences(dbBest))
        /\ Branch[dbBest] \cap BadBlock = {}
        /\ LinksFollow(dbNext, dbBest)
    BY DEF RestartInv, DbRight, TxIndexMatchesChain, BestChainValid, ValidChain
  <2> QED
    BY <1>1, <2>1, <2>2, <2>3 DEF BatchInv, Batching, LinksFollow
<1>7. TargetRight'
  <2>1. nTx' = 0 /\ cursor' = dbBest /\ dbBest \in Branch[dbBest]
    BY <1>1, BranchBasics DEF RestartInv, BatchInv, Batching
  <2>2. \A x : x \in Block => 0 =< Len(Vtx[x])
    BY TxAssumption
  <2>3. cursor' \in Branch[target'] /\ cursor' # target' =>
          ChildToward(cursor', target') \in Block
    BY <1>1, <1>2, ChildTowardFacts
  <2> QED
    BY <1>1, <1>2, <2>1, <2>2, <2>3 DEF TargetRight, Batching
<1> QED
  BY <1>3, <1>4, <1>5, <1>6, <1>7 DEF RestartInv

(* Giving up the first transaction leaves everything as it was; giving up a *)
(* later one is what PostponedConnect excludes.                             *)
LEMMA RestartAbort ==
  ASSUME RestartInv, Batching, Abort, PostponedConnect, pc = "disconnect" => mode # "further",
         UNCHANGED <<memory, db, pindexNew, target, mode, crashes>>
  PROVE  RestartInv'
<1> USE DEF Abort, DiscardBatch, memory, db
<1>1. pc' = "idle" /\ mode # "further" /\ pc # "down"
  BY DEF PostponedConnect, Batching
<1>2. TypeOK'
  BY <1>1 DEF RestartInv, RestartTypes, TypeOK
<1>3. RestartTypes'
  BY <1>1, <1>2 DEF RestartInv, RestartTypes
<1>4. DbRight'
  BY <1>1, DbRightKept DEF RestartInv
<1>5. BestRight' /\ BatchInv' /\ TargetRight'
  BY <1>1 DEF RestartInv, BestRight, BatchInv, TargetRight, Batching
<1> QED
  BY <1>3, <1>4, <1>5 DEF RestartInv

(* Disconnecting takes the batch back by one block. *)
LEMMA RestartDisconnect ==
  ASSUME RestartInv, DisconnectBlock
  PROVE  RestartInv'
<1> USE DEF DisconnectBlock, memory, db
<1>1. /\ pc = "disconnect" /\ nTx = 0
      /\ cursor \in Branch[dbBest] /\ cursor \notin Branch[target]
      /\ {cursor, target, dbBest} \subseteq mapBlockIndex /\ mapBlockIndex \subseteq Block
      /\ Branch[cursor] \subseteq mapBlockIndex
      /\ Branch[target] \cap Branch[dbBest] \subseteq Branch[cursor]
      /\ batchPos \in [Tx -> Block \cup {None}]
      /\ batchSpent \in [OutPoint -> Tx \cup {None}]
      /\ batchNext \in [Block -> Block \cup {None}]
  BY DEF RestartInv, RestartTypes, TypeOK, TargetRight, Batching
<1>2. cursor \in Block \ {Genesis}
  BY <1>1, BranchBasics
<1>3. /\ Parent[cursor] \in Block /\ Parent[cursor] \in mapBlockIndex
      /\ Branch[cursor] = Branch[Parent[cursor]] \cup {cursor}
      /\ Parent[cursor] \in Branch[cursor]
      /\ cursor \notin Branch[Parent[cursor]]
  BY <1>1, <1>2, BranchBasics
<1>4. /\ IndexMatches(batchPos, batchSpent, Occurrences(cursor))
      /\ ValidLedger(Occurrences(cursor))
      /\ Branch[cursor] \cap BadBlock = {}
      /\ LinksFollow(batchNext, cursor)
  <2>1. Applied = Occurrences(cursor)
    BY <1>1 DEF Applied
  <2> QED
    BY <1>1, <2>1 DEF RestartInv, BatchInv, Batching
<1>5. /\ CanDisconnect(cursor, batchPos)
      /\ IndexMatches(DisconnectPos(cursor, batchPos),
                      DisconnectSpent(cursor, batchSpent),
                      Occurrences(Parent[cursor]))
  BY <1>1, <1>2, <1>4, DisconnectedIndexMatches
<1>6. /\ batchPos' = DisconnectPos(cursor, batchPos)
      /\ batchSpent' = DisconnectSpent(cursor, batchSpent)
      /\ batchNext' = [batchNext EXCEPT ![Parent[cursor]] = None]
      /\ cursor' = Parent[cursor]
      /\ vResurrect' = ToResurrect(cursor) \o vResurrect
      /\ UNCHANGED <<nTx, vDelete, memory, db, pindexNew, target, mode, crashes>>
      /\ pc' = IF Parent[cursor] \in Branch[target] THEN "connect" ELSE "disconnect"
  BY <1>5
<1> HIDE DEF DisconnectBlock
<1>7. RestartTypes'
  <2>1. batchPos' \in [Tx -> Block \cup {None}] /\ batchSpent' \in [OutPoint -> Tx \cup {None}]
    BY <1>1, <1>6 DEF DisconnectPos, DisconnectSpent
  <2>2. vResurrect' \in Seq(Tx)
    <3>1. ToResurrect(cursor) \in Seq(Tx)
      BY <1>2, TxAssumption DEF ToResurrect
    <3>2. vResurrect \in Seq(Tx)
      BY DEF RestartInv, RestartTypes, TypeOK
    <3> QED
      BY <1>6, <3>1, <3>2
  <2>3. batchNext' \in [Block -> Block \cup {None}]
    BY <1>1, <1>6
  <2>4. TypeOK'
    BY <1>3, <1>6, <2>1, <2>2, <2>3 DEF RestartInv, RestartTypes, TypeOK
  <2> QED
    BY <1>1, <1>6, <2>4 DEF RestartInv, RestartTypes
<1>8. DbRight'
  BY <1>1, <1>6, DbRightKept DEF RestartInv
<1>9. BestRight'
  BY <1>1, <1>6 DEF RestartInv, BestRight, Batching
<1>10. BatchInv'
  <2>1. Applied' = Occurrences(Parent[cursor])
    BY <1>1, <1>6 DEF Applied
  <2>2. ValidLedger(Occurrences(Parent[cursor]))
    BY <1>2, <1>3, <1>4, AncestorValid DEF ValidChain
  <2>3. LinksFollow(batchNext', Parent[cursor])
    BY <1>1, <1>2, <1>4, <1>6, UnlinkEnd
  <2> QED
    BY <1>3, <1>4, <1>5, <1>6, <2>1, <2>2, <2>3 DEF BatchInv, Batching
<1>11. TargetRight'
  <2>1. Parent[cursor] \in Branch[dbBest]
    BY <1>1, <1>2, <1>3, BranchOrder
  <2>2. \A x \in Block : 0 =< Len(Vtx[x])
    BY TxAssumption
  <2>3. Parent[cursor] \in Branch[target] /\ Parent[cursor] # target =>
          ChildToward(Parent[cursor], target) \in Block
    BY <1>1, ChildTowardFacts
  <2>4. Branch[target] \cap Branch[dbBest] \subseteq Branch[Parent[cursor]]
    BY <1>1, <1>3
  <2> QED
    BY <1>1, <1>6, <2>1, <2>2, <2>3, <2>4 DEF RestartInv, TargetRight, Batching
<1> QED
  BY <1>7, <1>8, <1>9, <1>10, <1>11 DEF RestartInv

(* Connecting a transaction. *)
LEMMA RestartConnectTx ==
  ASSUME RestartInv, ConnectTx, PostponedConnect
  PROVE  RestartInv'
<1> USE DEF ConnectTx, memory, db, queues
<1> DEFINE b == ChildToward(cursor, target)
           q == <<b, nTx + 1>>
           t == Vtx[b][nTx + 1]
<1>1. /\ nTx \in Nat /\ Len(Vtx[b]) \in Nat
      /\ Applied \cup {q} = Occurrences(cursor) \cup OccurrencesIn(b, nTx + 1)
  BY AppliedFacts, ConnectingInRestart
<1>2. nTx < Len(Vtx[b]) /\ pc = "connect" /\ cursor # target
  OBVIOUS
<1>3. /\ IndexMatches(batchPos, batchSpent, Applied) /\ ValidLedger(Applied)
      /\ Branch[cursor] \cap BadBlock = {}
      /\ LinksFollow(batchNext, cursor)
      /\ batchPos \in [Tx -> Block \cup {None}]
      /\ batchSpent \in [OutPoint -> Tx \cup {None}]
  BY DEF RestartInv, BatchInv, Batching, RestartTypes, TypeOK
<1>4. CASE ~ InputsConnect(t, batchPos, batchSpent, b)
  BY <1>2, <1>4, RestartAbort DEF Batching
<1>5. CASE InputsConnect(t, batchPos, batchSpent, b)
  <2>1. /\ batchPos' = ConnectPos(t, b, batchPos)
        /\ batchSpent' = ConnectSpent(t, batchSpent)
        /\ nTx' = nTx + 1
        /\ UNCHANGED <<batchNext, pc, cursor, vResurrect, vDelete, memory, db, pindexNew,
                       target, mode, crashes>>
    BY <1>5
  <2>2. /\ IndexMatches(batchPos', batchSpent', Applied \cup {q})
        /\ ValidLedger(Applied \cup {q})
        /\ batchPos' \in [Tx -> Block \cup {None}]
        /\ batchSpent' \in [OutPoint -> Tx \cup {None}]
    BY <1>2, <1>3, <1>5, <2>1, ConnectingInRestart, ConnectTxEffect
  <2>3. Applied' = Applied \cup {q}
    BY <1>1, <2>1 DEF Applied
  <2> HIDE DEF ConnectTx
  <2>4. TypeOK'
    BY <1>1, <2>1, <2>2 DEF RestartInv, RestartTypes, TypeOK
  <2>5. RestartTypes'
    BY <2>1, <2>4 DEF RestartInv, RestartTypes
  <2>6. DbRight'
    BY <1>2, <2>1, DbRightKept DEF RestartInv
  <2>7. BestRight'
    BY <2>1 DEF RestartInv, BestRight, Batching
  <2>8. BatchInv'
    BY <1>2, <1>3, <2>1, <2>2, <2>3 DEF BatchInv, Batching, LinksFollow
  <2>9. TargetRight'
    BY <1>1, <1>2, <2>1 DEF RestartInv, TargetRight, Batching
  <2> QED
    BY <2>5, <2>6, <2>7, <2>8, <2>9 DEF RestartInv
<1> QED
  BY <1>4, <1>5

(* The end of a block. *)
LEMMA RestartConnectBlock ==
  ASSUME RestartInv, ConnectBlock, PostponedConnect
  PROVE  RestartInv'
<1> USE DEF ConnectBlock, memory, db
<1> DEFINE b == ChildToward(cursor, target)
<1>0. pc = "connect" /\ cursor # target /\ nTx = Len(Vtx[b])
  OBVIOUS
<1>1. /\ b \in Block \ {Genesis} /\ b \in Branch[target]
      /\ Parent[b] = cursor
      /\ Branch[b] = Branch[cursor] \cup {b}
      /\ b \notin Branch[cursor] /\ b \notin Branch[dbBest]
      /\ Applied = Occurrences(cursor) \cup OccurrencesIn(b, nTx)
  BY <1>0, AppliedFacts, ConnectingInRestart
<1>2. /\ IndexMatches(batchPos, batchSpent, Applied) /\ ValidLedger(Applied)
      /\ Branch[cursor] \cap BadBlock = {}
      /\ LinksFollow(batchNext, cursor)
      /\ LinksFollow(pnext, dbBest)
      /\ {batchNext, pnext} \subseteq [Block -> Block \cup {None}]
      /\ {cursor, target, dbBest} \subseteq Block
      /\ Branch[target] \subseteq mapBlockIndex
      /\ vDelete \in Seq(Tx)
  BY <1>0 DEF RestartInv, DbRight, BatchInv, Batching, RestartTypes, TypeOK
<1>3. CASE b \in BadBlock
  BY <1>0, <1>3, RestartAbort DEF Batching
<1>4. CASE b \notin BadBlock
  <2>1. /\ batchNext' = [batchNext EXCEPT ![b] = pnext[b], ![cursor] = b]
        /\ cursor' = b /\ nTx' = 0
        /\ vDelete' = vDelete \o Vtx[b]
        /\ UNCHANGED <<batchPos, batchSpent, pc, vResurrect, memory, db, pindexNew, target,
                       mode, crashes>>
    BY <1>4
  <2>t. Vtx[b] \in Seq(Tx) /\ b \in mapBlockIndex
    BY <1>1, <1>2, TxAssumption
  <2>c. b # target => ChildToward(b, target) \in Block
    BY <1>1, <1>2, ChildTowardFacts
  <2>o. Occurrences(b) = Applied
    BY <1>0, <1>1, OccurrencesOfChild
  <2> HIDE DEF b, ConnectBlock
  <2>2. TypeOK'
    <3>2. vDelete' \in Seq(Tx)
      BY <1>2, <2>1, <2>t
    <3>3. batchNext' \in [Block -> Block \cup {None}]
      BY <1>1, <1>2, <2>1
    <3>4. /\ UNCHANGED <<mapBlockIndex, pnext, pindexBest, mempool, dbIndex, dbNext,
                         dbBest, dbPos, dbSpent, pindexNew, target, mode, crashes,
                         batchPos, batchSpent, pc, vResurrect>>
          /\ cursor' \in mapBlockIndex /\ nTx' = 0
      BY <2>1, <2>t
    <3> QED
      BY <3>2, <3>3, <3>4 DEF RestartInv, RestartTypes, TypeOK
  <2>3. RestartTypes'
    BY <2>1, <2>2 DEF RestartInv, RestartTypes
  <2>4. DbRight'
    BY <1>0, <2>1, DbRightKept DEF RestartInv
  <2>5. BestRight'
    BY <2>1 DEF RestartInv, BestRight, Batching
  <2>6. BatchInv'
    <3>1. Applied' = Applied
      BY <2>1, <2>o DEF Applied
    <3>2. LinksFollow(batchNext', b)
      <4>1. pnext[b] = None
        BY <1>1, <1>2, NoLinkOff
      <4> QED
        BY <1>1, <1>2, <2>1, <4>1, LinkChild
    <3> QED
      BY <1>0, <1>1, <1>2, <1>4, <2>1, <3>1, <3>2 DEF BatchInv, Batching
  <2>7. TargetRight'
    <3>1. \A x \in Block : 0 =< Len(Vtx[x])
      BY TxAssumption
    <3> QED
      BY <1>0, <1>1, <1>2, <2>1, <2>c, <3>1 DEF RestartInv, TargetRight, Batching
  <2> QED
    BY <2>3, <2>4, <2>5, <2>6, <2>7 DEF RestartInv
<1> QED
  BY <1>3, <1>4

(* A commit, of the first transaction or of a postponed block. *)
LEMMA RestartCommit ==
  ASSUME RestartInv, Commit
  PROVE  RestartInv'
<1>1. /\ pc = "connect" /\ cursor = target /\ nTx = 0
      /\ target \in Branch[pindexNew]
      /\ {target, dbBest} \subseteq mapBlockIndex /\ mapBlockIndex \subseteq Block
      /\ mode = "reorg" => pindexBest = dbBest
      /\ mode # "reorg" => target # Genesis /\ Parent[target] = dbBest
      /\ pnext \in [Block -> Block \cup {None}]
      /\ LinksFollow(pnext, dbBest)
  BY DEF RestartInv, RestartTypes, TypeOK, DbRight, BestRight, TargetRight, Batching, Commit
<1>2. /\ dbNext' = batchNext /\ dbPos' = batchPos /\ dbSpent' = batchSpent
      /\ dbBest' = target /\ pc' = "pool" /\ pnext' = LinksAfter
      /\ UNCHANGED <<mapBlockIndex, pindexBest, mempool, dbIndex, batchNext, batchPos,
                     batchSpent, pindexNew, target, cursor, nTx, mode, vResurrect,
                     vDelete, crashes>>
  BY DEF Commit, batch, work, queues
<1>3. /\ IndexMatches(batchPos, batchSpent, Occurrences(target))
      /\ ValidChain(target)
      /\ LinksFollow(batchNext, target)
  <2>1. Applied = Occurrences(target)
    BY <1>1 DEF Applied
  <2> QED
    BY <1>1, <2>1 DEF RestartInv, BatchInv, Batching, ValidChain
<1>4. pnext' \in [Block -> Block \cup {None}] /\ LinksFollow(pnext', target)
  BY <1>1, <1>2, LinksAfterFollow
<1>5. TypeOK'
  BY <1>1, <1>2, <1>4 DEF RestartInv, RestartTypes, TypeOK
<1>6. RestartTypes'
  BY <1>1, <1>2, <1>5 DEF RestartInv, RestartTypes
<1>7. DbRight'
  BY <1>2, <1>3, <1>4 DEF DbRight, TxIndexMatchesChain, BestChainValid, LinksFollow
<1>8. BestRight' /\ BatchInv' /\ TargetRight'
  BY <1>1, <1>2 DEF BestRight, BatchInv, TargetRight, Batching
<1> QED
  BY <1>6, <1>7, <1>8 DEF RestartInv

(* The pool and its queues. *)
LEMMA RestartPool ==
  ASSUME RestartInv, mempool' \in PoolType,
         {vResurrect', vDelete'} \subseteq Seq(Tx),
         UNCHANGED <<mapBlockIndex, pnext, pindexBest, db, batch, pindexNew, target,
                     cursor, nTx, mode, pc, crashes>>
  PROVE  RestartInv'
<1> USE DEF db, batch
<1>1. TypeOK'
  BY DEF RestartInv, RestartTypes, TypeOK, PoolType
<1>2. RestartTypes'
  BY <1>1 DEF RestartInv, RestartTypes
<1>3. DbRight'
  BY DEF RestartInv, DbRight, TxIndexMatchesChain, BestChainValid, LinksFollow
<1>4. BestRight' /\ TargetRight'
  BY DEF RestartInv, BestRight, TargetRight, Batching
<1>5. BatchInv'
  BY DEF RestartInv, BatchInv, Batching, Applied, LinksFollow
<1> QED
  BY <1>2, <1>3, <1>4, <1>5 DEF RestartInv

(* Its steps, and no step at all. *)
LEMMA RestartPoolSteps ==
  ASSUME RestartInv,
         ResurrectTx \/ DeleteTx \/ (\E t \in Tx : AcceptTx(t)) \/ UNCHANGED vars
  PROVE  RestartInv'
<1>0. mempool \in PoolType /\ vResurrect \in Seq(Tx) /\ vDelete \in Seq(Tx)
  BY DEF RestartInv, RestartTypes, TypeOK, PoolType
<1>1. CASE ResurrectTx
  <2>1. vResurrect # <<>> => Head(vResurrect) \in Tx /\ Tail(vResurrect) \in Seq(Tx)
    BY <1>0
  <2>2. mempool' \in PoolType
    BY <1>0, <1>1, <2>1, AcceptType DEF ResurrectTx
  <2> QED
    BY <1>0, <1>1, <2>1, <2>2, RestartPool DEF ResurrectTx
<1>2. CASE DeleteTx
  <2>1. vDelete # <<>> => Tail(vDelete) \in Seq(Tx)
    BY <1>0
  <2>2. mempool' \in PoolType
    BY <1>0, <1>2, RemoveType DEF DeleteTx
  <2> QED
    BY <1>0, <1>2, <2>1, <2>2, RestartPool DEF DeleteTx
<1>3. ASSUME NEW t \in Tx, AcceptTx(t) PROVE RestartInv'
  <2>1. mempool' \in PoolType
    BY <1>0, <1>3, AcceptType DEF AcceptTx
  <2> QED
    BY <1>0, <1>3, <2>1, RestartPool DEF AcceptTx, work, queues
<1>4. CASE UNCHANGED vars
  BY <1>0, <1>4, RestartPool DEF vars, memory, work, queues
<1> QED
  BY <1>1, <1>2, <1>3, <1>4

(* On to the next postponed block, or to the end. *)
LEMMA RestartFurther ==
  ASSUME RestartInv, ConnectFurther
  PROVE  RestartInv'
<1>0. /\ pc = "pool" /\ target = dbBest /\ target \in Branch[pindexNew] /\ nTx = 0
      /\ batchPos = dbPos /\ batchSpent = dbSpent /\ batchNext = dbNext
      /\ {target, pindexNew} \subseteq mapBlockIndex /\ mapBlockIndex \subseteq Block
      /\ Branch[pindexNew] \subseteq mapBlockIndex
      /\ UNCHANGED <<memory, db, batch, pindexNew, nTx, queues, crashes>>
  BY DEF RestartInv, RestartTypes, TypeOK, BestRight, BatchInv, Batching,
         ConnectFurther, PoolDone
<1> USE DEF memory, db, batch, queues
<1>d. pc' # "down" => DbRight'
  BY <1>0, DbRightKept DEF RestartInv
<1>1. CASE target = pindexNew
  <2>1. pc' = "newbest" /\ UNCHANGED <<target, cursor, mode>>
    BY <1>1 DEF ConnectFurther
  <2>2. TypeOK'
    BY <1>0, <2>1 DEF RestartInv, RestartTypes, TypeOK
  <2>3. RestartTypes'
    BY <1>0, <2>1, <2>2 DEF RestartInv, RestartTypes
  <2>4. BestRight' /\ BatchInv' /\ TargetRight'
    BY <1>0, <1>1, <2>1 DEF BestRight, BatchInv, TargetRight, Batching
  <2> QED
    BY <1>d, <2>1, <2>3, <2>4 DEF RestartInv
<1>2. CASE target # pindexNew
  <2> DEFINE c == ChildToward(target, pindexNew)
  <2>1. pc' = "connect" /\ target' = c /\ cursor' = target /\ mode' = "further"
    BY <1>2 DEF ConnectFurther
  <2>2. c \in Block \ {Genesis} /\ c \in Branch[pindexNew] /\ Parent[c] = target
    BY <1>0, <1>2, ChildTowardFacts
  <2> HIDE DEF c
  <2>3. target \in Branch[c] /\ target # c /\ target \in Branch[target]
    BY <1>0, <2>2, BranchBasics
  <2>4. TypeOK'
    BY <1>0, <2>1, <2>2 DEF RestartInv, RestartTypes, TypeOK
  <2>5. RestartTypes'
    BY <1>0, <2>1, <2>2, <2>4 DEF RestartInv, RestartTypes
  <2>6. BestRight'
    BY <2>1 DEF BestRight, Batching
  <2>7. BatchInv'
    <3>1. Applied' = Occurrences(dbBest)
      BY <1>0, <2>1 DEF Applied
    <3>2. /\ IndexMatches(dbPos, dbSpent, Occurrences(dbBest))
          /\ ValidLedger(Occurrences(dbBest))
          /\ Branch[dbBest] \cap BadBlock = {}
          /\ LinksFollow(dbNext, dbBest)
      BY DEF RestartInv, DbRight, TxIndexMatchesChain, BestChainValid, ValidChain
    <3> QED
      BY <1>0, <2>1, <3>1, <3>2 DEF BatchInv, Batching, LinksFollow
  <2>8. TargetRight'
    <3>1. ChildToward(target, c) \in Block
      BY <1>0, <2>2, <2>3, ChildTowardFacts
    <3>2. 0 =< Len(Vtx[ChildToward(target, c)])
      BY <3>1, TxAssumption
    <3> QED
      BY <1>0, <2>1, <2>2, <2>3, <3>2 DEF TargetRight, Batching
  <2> QED
    BY <1>d, <2>1, <2>5, <2>6, <2>7, <2>8 DEF RestartInv
<1> QED
  BY <1>1, <1>2

(* "New best block". *)
LEMMA RestartNewBest ==
  ASSUME RestartInv, NewBest
  PROVE  RestartInv'
<1>1. /\ pc = "newbest" /\ pc' = "idle" /\ pindexBest' = pindexNew /\ pindexNew = dbBest
      /\ UNCHANGED <<mapBlockIndex, pnext, mempool, db, batch, work, crashes>>
  BY DEF NewBest, RestartInv, BestRight
<1> USE DEF db, batch, work, queues
<1>2. TypeOK'
  BY <1>1 DEF RestartInv, RestartTypes, TypeOK
<1>3. RestartTypes'
  BY <1>1, <1>2 DEF RestartInv, RestartTypes
<1>4. DbRight'
  BY <1>1, DbRightKept DEF RestartInv
<1>5. BestRight' /\ BatchInv' /\ TargetRight'
  BY <1>1 DEF RestartInv, BestRight, BatchInv, TargetRight, Batching
<1> QED
  BY <1>3, <1>4, <1>5 DEF RestartInv

(* The process ends: the batch is lost, the committed state stays. *)
LEMMA RestartCrash ==
  ASSUME RestartInv, Crash
  PROVE  RestartInv'
<1>1. /\ pc' = "down" /\ crashes' = crashes + 1 /\ crashes < MaxCrash
      /\ batchNext' = dbNext /\ batchPos' = dbPos /\ batchSpent' = dbSpent
      /\ mempool' = EmptyPool /\ nTx' = 0 /\ vResurrect' = <<>> /\ vDelete' = <<>>
      /\ UNCHANGED <<mapBlockIndex, pnext, pindexBest, db, pindexNew, target, cursor, mode>>
  BY DEF Crash, DiscardBatch
<1> USE DEF db
<1>2. TypeOK'
  <2>1. mempool' \in PoolType
    BY <1>1 DEF EmptyPool, PoolType
  <2>2. crashes' \in 0..MaxCrash
    BY <1>1, ChainAssumption DEF RestartInv, RestartTypes, TypeOK
  <2> QED
    BY <1>1, <2>1, <2>2 DEF RestartInv, RestartTypes, TypeOK, PoolType
<1>3. RestartTypes'
  BY <1>1, <1>2 DEF RestartInv, RestartTypes
<1>4. DbRight'
  BY <1>1, DbRightKept DEF RestartInv
<1>5. BestRight' /\ BatchInv' /\ TargetRight'
  BY <1>1 DEF BestRight, BatchInv, TargetRight, Batching
<1> QED
  BY <1>3, <1>4, <1>5 DEF RestartInv

(* The next start reads the committed state, and may take the chain back.   *)
LEMMA RestartLoad ==
  ASSUME RestartInv, LoadBlockIndex
  PROVE  RestartInv'
<1>0. /\ pc = "down" /\ dbIndex = mapBlockIndex /\ dbBest \in mapBlockIndex
      /\ mapBlockIndex \subseteq Block /\ Branch[dbBest] \subseteq mapBlockIndex
      /\ dbNext \in [Block -> Block \cup {None}]
      /\ LinksFollow(dbNext, dbBest)
  BY DEF LoadBlockIndex, RestartInv, RestartTypes, TypeOK, DbRight
<1>1. /\ pc' \in {"idle", "setbest"} /\ pindexBest' = dbBest /\ pnext' = dbNext
      /\ mapBlockIndex' = mapBlockIndex
      /\ pindexNew' = pindexNew \/ pindexNew' \in Branch[dbBest]
      /\ UNCHANGED <<mempool, db, batch, target, cursor, nTx, mode, queues, crashes>>
  BY <1>0 DEF LoadBlockIndex, LoadedNext
<1> USE DEF db, batch, queues
<1>2. TypeOK'
  BY <1>0, <1>1 DEF RestartInv, RestartTypes, TypeOK
<1>3. RestartTypes'
  BY <1>0, <1>1, <1>2 DEF RestartInv, RestartTypes
<1>4. DbRight'
  BY <1>0, <1>1 DEF RestartInv, DbRight, TxIndexMatchesChain, BestChainValid, LinksFollow
<1>5. BestRight' /\ BatchInv' /\ TargetRight'
  BY <1>0, <1>1 DEF RestartInv, BestRight, BatchInv, TargetRight, Batching
<1> QED
  BY <1>3, <1>4, <1>5 DEF RestartInv

(* The state after the first LoadBlockIndex. *)
LEMMA RestartInit == Init => RestartInv
<1> SUFFICES ASSUME Init PROVE RestartInv
  OBVIOUS
<1>1. IInv
  BY InitIInv
<1>2. RestartTypes
  BY <1>1 DEF Init, IInv, RestartTypes
<1>3. DbRight
  BY <1>1 DEF IInv, DbInv, DbRight
<1> QED
  BY <1>1, <1>2, <1>3 DEF Init, IInv, RestartInv, BestRight, TargetRight, Batching

(* Every step keeps it, as long as no postponed block fails. *)
LEMMA RestartNext ==
  ASSUME RestartInv, [Next]_vars, PostponedConnect
  PROVE  RestartInv'
  BY RestartAccept, RestartSetBest, RestartDisconnect, RestartConnectTx, RestartConnectBlock,
     RestartCommit, RestartPoolSteps, RestartFurther, RestartNewBest, RestartCrash, RestartLoad
  DEF Next, Node, Advance

(* The inductive invariant of a node whose process may end at any point, in *)
(* the middle of a reorganisation or between two of its commits, and that   *)
(* starts again with LoadBlockIndex, as long as no postponed block fails.   *)
THEOREM RestartInductive == Spec /\ [][PostponedConnect]_vars => []RestartInv
<1>1. RestartInv /\ [Next]_vars /\ [PostponedConnect]_vars => RestartInv'
  <2> SUFFICES ASSUME RestartInv, [Next]_vars, [PostponedConnect]_vars PROVE RestartInv'
    OBVIOUS
  <2>1. CASE UNCHANGED vars
    BY <2>1, RestartPoolSteps
  <2> QED
    BY <2>1, RestartNext
<1> QED
  BY <1>1, RestartInit, PTL DEF Spec

(* However often the process ends, and wherever, the committed index is     *)
(* that of the committed best chain (CTxDB: a batch is written whole or not *)
(* at all), as long as no postponed block fails.                            *)
THEOREM IndexSurvivesCrashes ==
  Spec /\ [][PostponedConnect]_vars => []TxIndexMatchesChain
<1>1. RestartInv => TxIndexMatchesChain
  BY DEF RestartInv, DbRight
<1> QED
  BY <1>1, RestartInductive, PTL

(* After any number of restarts, whenever no update is under way, memory    *)
(* and database agree on the best chain and its links, as long as no        *)
(* postponed block fails: exactly what the run `postponed' shows to be      *)
(* needed.                                                                  *)
THEOREM MemorySurvivesCrashes ==
  Spec /\ [][PostponedConnect]_vars => []MemoryMatchesDisk
<1>1. RestartInv => MemoryMatchesDisk
  BY DEF RestartInv, DbRight, BestRight, MemoryMatchesDisk
<1> QED
  BY <1>1, RestartInductive, PTL

(* A postponed block fails only if its chain is not valid. *)
LEMMA ValidPostponedConnect ==
  ASSUME RestartInv, \A b \in Block : ValidChain(b), [Next]_vars
  PROVE  PostponedConnect
<1> SUFFICES ASSUME pc = "connect", mode = "further", pc' = "newbest" PROVE FALSE
  BY DEF PostponedConnect
<1> DEFINE b == ChildToward(cursor, target)
<1>1. /\ IndexMatches(batchPos, batchSpent, Applied) /\ ValidLedger(Applied)
      /\ batchPos \in [Tx -> Block \cup {None}]
      /\ batchSpent \in [OutPoint -> Tx \cup {None}]
      /\ pindexNew \in Block
  BY DEF RestartInv, BatchInv, Batching, RestartTypes, TypeOK
<1>2. (ConnectTx \/ ConnectBlock) /\ Abort
  BY DEF Next, Node, Advance, AcceptBlock, SetBestChain, DisconnectBlock, ConnectTx,
         ConnectBlock, Commit, ResurrectTx, DeleteTx, ConnectFurther, PoolDone, NewBest,
         AcceptTx, Crash, LoadBlockIndex, vars
<1>3. CASE ConnectTx
  <2>1. /\ cursor # target /\ nTx < Len(Vtx[b])
        /\ ~ InputsConnect(Vtx[b][nTx + 1], batchPos, batchSpent, b)
    BY <1>3 DEF ConnectTx
  <2> QED
    BY <1>1, <2>1, ConnectingInRestart, ConnectTxEffect
<1>4. CASE ConnectBlock
  <2>1. cursor # target /\ b \in BadBlock
    BY <1>4 DEF ConnectBlock
  <2>2. b \in Branch[pindexNew]
    BY <2>1, ConnectingInRestart, AppliedFacts
  <2> QED
    BY <1>1, <2>1, <2>2 DEF ValidChain
<1> QED
  BY <1>2, <1>3, <1>4

(* Where every chain is valid, crashes do no harm at all: the run `caches'  *)
(* checks it on one such tree, with the caches beside the chain.            *)
THEOREM ValidTreeSurvivesCrashes ==
  (\A b \in Block : ValidChain(b)) /\ Spec => [](TxIndexMatchesChain /\ MemoryMatchesDisk)
<1> DEFINE AllValid == \A b \in Block : ValidChain(b)
           Inv == AllValid /\ RestartInv
<1>1. Inv /\ [Next]_vars => Inv'
  <2> SUFFICES ASSUME Inv, [Next]_vars PROVE RestartInv'
    BY DEF ValidChain
  <2>1. PostponedConnect
    BY ValidPostponedConnect
  <2> QED
    BY <2>1, RestartNext
<1>2. Inv => TxIndexMatchesChain /\ MemoryMatchesDisk
  BY DEF RestartInv, DbRight, BestRight, MemoryMatchesDisk
<1>3. AllValid /\ Init => Inv
  BY RestartInit
<1> HIDE DEF AllValid
<1>4. AllValid /\ Spec => [](TxIndexMatchesChain /\ MemoryMatchesDisk)
  BY <1>1, <1>2, <1>3, PTL DEF Spec
<1> QED
  BY <1>4 DEF AllValid

=============================================================================
