---- MODULE NodeCaches_proofs ----
(***************************************************************************)
(* The caches beside the best chain, for every tree of blocks and however  *)
(* often the process ends: FindBlockByHeight, the hashes for floatingcity  *)
(* ranks, and the block size limit, which never leaves its minimum.        *)
(***************************************************************************)
EXTENDS NodeCaches, ChainState_proofs, FiniteSetTheorems

(* Where SetBestChain works, and on what. *)
WorkInv ==
  /\ {pindexBest, pindexNew, target, dbBest} \subseteq Block
  /\ {pnext, dbNext, batchNext} \subseteq [Block -> Block \cup {None}]
  /\ pc \in {"disconnect", "connect", "pool"} => target \in Branch[pindexNew]
  /\ pc = "connect" => cursor \in Branch[target]

(* SetBestChain has not changed pnext yet: it is still that of pindexBest,  *)
(* if it was before.                                                        *)
Calm == pc \in {"idle", "setbest", "disconnect"} \/ (pc = "connect" /\ mode # "further")

(* The last answer of FindBlockByHeight is on the best chain. *)
LastInv ==
  /\ Calm /\ LinksFollow(pnext, pindexBest) =>
       pblockindexFBBHLast \in Branch[pindexBest] \cup {None}
  /\ pc = "down" => pblockindexFBBHLast = None

(* As long as no block was disconnected or failed, SetBestChain extends the *)
(* best chain, and what a thread in GetBlockHash has read is on it: a block *)
(* that was the best then.                                                  *)
HashInv ==
  /\ mapCacheBlockHashes \in [Heights -> Block \cup {None}]
  /\ nBlockHeight \in [Thread -> Nat]
  /\ BlockReading \in [Thread -> Block \cup {None}]
  /\ HashesOfBestChain
  /\ pc = "down" => mapCacheBlockHashes = NoHashes /\ \A t \in Thread : BlockReading[t] = None
  /\ ~ disturbed => \A t \in Thread : BlockReading[t] # None =>
                      /\ BlockReading[t] \in Branch[pindexBest]
                      /\ ~ overtaken => BlockReading[t] = pindexBest
  /\ ~ disturbed /\ pc \in {"connect", "pool", "newbest"} => pindexBest \in Branch[pindexNew]

-----------------------------------------------------------------------------
(* Ancestors by height, and the links up to a block. *)

(* A block has one ancestor at every height up to its own. *)
LEMMA AncestorFacts ==
  ASSUME NEW b \in Block, NEW h \in Nat, h =< Height[b]
  PROVE  /\ Ancestor(b, h) \in Branch[b] /\ Height[Ancestor(b, h)] = h
         /\ \A c \in Branch[b] : Height[c] = h => c = Ancestor(b, h)
<1> DEFINE T == { n \in Nat : n >= h /\ \E x \in Branch[b] : Height[x] = n }
<1>1. Height[b] \in T
  BY BranchBasics
<1>2. PICK n \in T : \A m \in T : n =< m
  <2>1. T \in SUBSET Nat /\ T # {}
    BY <1>1
  <2> HIDE DEF T
  <2> QED
    BY <2>1, LeastNatural
<1>3. PICK x \in Branch[b] : Height[x] = n
  BY <1>2
<1>4. n = h
  <2> SUFFICES ASSUME n > h PROVE FALSE
    BY <1>2
  <2>1. x \in Block /\ x # Genesis
    BY <1>2, <1>3, BranchOrder, TreeAssumption
  <2>2. /\ Parent[x] \in Branch[b] /\ Height[Parent[x]] \in Nat
        /\ Height[x] = Height[Parent[x]] + 1
    BY <1>3, <2>1, BranchBasics, BranchOrder
  <2>3. Height[Parent[x]] \in T
    BY <1>2, <1>3, <2>2
  <2> QED
    BY <1>2, <1>3, <2>2, <2>3
<1>5. Ancestor(b, h) \in Branch[b] /\ Height[Ancestor(b, h)] = h
  BY <1>3, <1>4 DEF Ancestor
<1> QED
  BY <1>5, BranchOrder

(* The ancestors of an ancestor. *)
LEMMA AncestorOfAncestor ==
  ASSUME NEW b \in Block, NEW a \in Branch[b], NEW h \in Nat, h =< Height[a]
  PROVE  Ancestor(a, h) = Ancestor(b, h)
<1>1. a \in Block /\ Branch[a] \subseteq Branch[b] /\ Height[a] =< Height[b]
  BY BranchOrder
<1>2. h =< Height[b]
  BY <1>1, BranchBasics
<1>3. Ancestor(a, h) \in Branch[a] /\ Height[Ancestor(a, h)] = h
  BY <1>1, AncestorFacts
<1> QED
  BY <1>1, <1>2, <1>3, AncestorFacts

(* pnext leads from an ancestor of the best block to the one above it, and  *)
(* nowhere from the best block.                                             *)
LEMMA LinksLead ==
  ASSUME NEW next \in [Block -> Block \cup {None}], NEW b \in Block,
         LinksFollow(next, b), NEW h \in Nat, h =< Height[b]
  PROVE  next[Ancestor(b, h)] = IF h + 1 =< Height[b] THEN Ancestor(b, h + 1) ELSE None
<1> DEFINE a == Ancestor(b, h)
<1>1. a \in Branch[b] /\ Height[a] = h /\ a \in Block /\ Height[b] \in Nat
  BY AncestorFacts, BranchBasics
<1> HIDE DEF a
<1>2. CASE h + 1 =< Height[b]
  <2> DEFINE c == Ancestor(b, h + 1)
  <2>1. c \in Branch[b] /\ Height[c] = h + 1
    BY <1>2, AncestorFacts
  <2> HIDE DEF c
  <2>2. c \in Block /\ c # Genesis
    BY <2>1, BranchBasics, TreeAssumption
  <2>3. Parent[c] \in Branch[b] /\ Height[Parent[c]] = h
    BY <2>1, <2>2, BranchBasics, BranchOrder
  <2>4. Parent[c] = a
    BY <2>3, AncestorFacts DEF a
  <2>5. next[a] = c
    BY <1>1, <2>1, <2>2, <2>4 DEF LinksFollow, ConnectedBlocks
  <2> QED
    BY <1>2, <2>5 DEF a, c
<1>3. CASE ~ (h + 1 =< Height[b])
  <2>1. a = b
    BY <1>1, <1>3, TopOfBranch
  <2>2. ASSUME NEW c \in Block, next[a] = c PROVE FALSE
    <3>1. c \in Branch[b] /\ c # Genesis /\ Parent[c] = b
      BY <1>1, <2>1, <2>2 DEF LinksFollow, ConnectedBlocks
    <3>2. Height[c] = Height[b] + 1 /\ Height[c] =< Height[b]
      BY <3>1, BranchBasics, BranchOrder
    <3> QED
      BY <1>1, <3>2
  <2> QED
    BY <1>1, <1>3, <2>2 DEF a
<1> QED
  BY <1>2, <1>3

(* Walking up along pnext passes the ancestors of the best block, and then  *)
(* falls off.                                                               *)
LEMMA UpwardLeads ==
  ASSUME NEW next \in [Block -> Block \cup {None}], NEW b \in Block,
         LinksFollow(next, b), NEW a \in Branch[b], NEW k \in Nat
  PROVE  Upward(next, a)[k]
           = IF Height[a] + k =< Height[b] THEN Ancestor(b, Height[a] + k) ELSE None
<1> DEFINE step(f, n) == IF n = 0 THEN a ELSE IF f[n - 1] = None THEN None ELSE next[f[n - 1]]
           W == [n \in Nat |-> IF Height[a] + n =< Height[b]
                                 THEN Ancestor(b, Height[a] + n) ELSE None]
           U == Upward(next, a)
<1>1. Height[a] \in Nat /\ Height[b] \in Nat /\ Height[a] =< Height[b] /\ a = Ancestor(b, Height[a])
  BY BranchBasics, BranchOrder, AncestorFacts
<1>2. ASSUME NEW n \in Nat PROVE W[n] = step(W, n)
  <2>1. CASE n = 0
    BY <1>1, <2>1
  <2>2. CASE n # 0
    <3> DEFINE h == Height[a] + (n - 1)
    <3>1. n - 1 \in Nat /\ h \in Nat /\ h + 1 = Height[a] + n
      BY <1>1, <2>2
    <3>2. W[n - 1] = IF h =< Height[b] THEN Ancestor(b, h) ELSE None
      BY <3>1
    <3>3. W[n] = IF h + 1 =< Height[b] THEN Ancestor(b, h + 1) ELSE None
      BY <3>1
    <3> HIDE DEF h, W
    <3>4. CASE h =< Height[b]
      <4>1. Ancestor(b, h) \in Block
        BY <3>1, <3>4, AncestorFacts, BranchBasics
      <4>2. Ancestor(b, h) # None
        BY <4>1, TxAssumption
      <4>3. next[Ancestor(b, h)] = W[n]
        BY <3>1, <3>3, <3>4, LinksLead
      <4> QED
        BY <2>2, <3>2, <3>4, <4>2, <4>3
    <3>5. CASE ~ (h =< Height[b])
      <4>1. ~ (h + 1 =< Height[b])
        BY <1>1, <3>1, <3>5
      <4> QED
        BY <2>2, <3>2, <3>3, <3>5, <4>1
    <3> QED
      BY <3>4, <3>5
  <2> QED
    BY <2>1, <2>2
<1>3. W = [n \in Nat |-> step(W, n)]
  BY <1>2
<1>4. U = [n \in Nat |-> step(U, n)]
  BY <1>3 DEF Upward
<1>5. \A n \in Nat : U[n] = step(U, n)
  BY <1>4
<1> HIDE DEF W, U
<1> DEFINE T == { n \in Nat : U[n] # W[n] }
<1>6. T = {}
  <2> SUFFICES ASSUME T # {} PROVE FALSE
    OBVIOUS
  <2>1. PICK n \in T : \A m \in T : n =< m
    <3>1. T \in SUBSET Nat
      OBVIOUS
    <3> HIDE DEF T
    <3> QED
      BY <3>1, LeastNatural
  <2>2. n # 0
    BY <1>2, <1>5, <2>1
  <2>3. n - 1 \in Nat /\ n - 1 \notin T
    BY <2>1, <2>2
  <2> QED
    BY <1>2, <1>5, <2>1, <2>2, <2>3
<1> QED
  BY <1>6 DEF W, U

(* Wherever FindBlockByHeight starts, it ends at the block of that height   *)
(* in the best chain, or falls off above it.                                *)
LEMMA FindLeads ==
  ASSUME WorkInv, LinksFollow(pnext, pindexBest), NEW h \in Nat,
         pblockindexFBBHLast \in Branch[pindexBest] \cup {None}
  PROVE  FindBlockByHeight(h)
           = IF h =< Height[pindexBest] THEN Ancestor(pindexBest, h) ELSE None
<1> DEFINE b == pindexBest
           a == WalkFrom(h)
<1>1. b \in Block /\ pnext \in [Block -> Block \cup {None}]
  BY DEF WorkInv
<1>2. a \in Branch[b]
  BY <1>1, BranchBasics DEF WalkFrom
<1>3. Height[a] \in Nat /\ Height[b] \in Nat /\ Height[a] =< Height[b]
  BY <1>1, <1>2, BranchBasics, BranchOrder
<1>4. FindBlockByHeight(h) = IF Height[a] >= h THEN Ancestor(a, h)
                               ELSE Upward(pnext, a)[h - Height[a]]
  BY DEF FindBlockByHeight
<1> HIDE DEF a
<1>5. CASE Height[a] >= h
  <2>1. h =< Height[a] /\ h =< Height[b]
    BY <1>3, <1>5
  <2>2. Ancestor(a, h) = Ancestor(b, h)
    BY <1>1, <1>2, <2>1, AncestorOfAncestor
  <2> QED
    BY <1>4, <1>5, <2>1, <2>2
<1>6. CASE ~ (Height[a] >= h)
  <2> DEFINE k == h - Height[a]
  <2>1. k \in Nat /\ Height[a] + k = h
    BY <1>3, <1>6
  <2> HIDE DEF k
  <2>2. Upward(pnext, a)[k] = IF h =< Height[b] THEN Ancestor(b, h) ELSE None
    BY <1>1, <1>2, <2>1, UpwardLeads
  <2> QED
    BY <1>4, <1>6, <2>2 DEF k
<1> QED
  BY <1>5, <1>6

-----------------------------------------------------------------------------
(* SetBestChain. *)

(* The steps of the node, as the caches see them. *)
Steps ==
  \/ \E b \in Block \ {Genesis} : AcceptBlock(b)
  \/ SetBestChain
  \/ DisconnectBlock
  \/ ConnectTx
  \/ ConnectBlock
  \/ pc = "connect" /\ Abort /\ UNCHANGED <<memory, db, pindexNew, target, mode, crashes>>
  \/ Commit
  \/ ResurrectTx \/ DeleteTx
  \/ ConnectFurther
  \/ NewBest
  \/ LoadBlockIndex
  \/ Crash
  \/ UNCHANGED vars

(* CacheNext adds a way to fail to those of ChainState: the size limit. *)
LEMMA StepsOfNext == [CacheNext]_cvars => Steps
<1> SUFFICES ASSUME [CacheNext]_cvars PROVE Steps
  OBVIOUS
<1>1. CASE ChainStep
  BY <1>1 DEF ChainStep, Steps
<1>2. CASE StartConnect
  BY <1>2 DEF StartConnect, Steps
<1>3. CASE CachedNewBest
  BY <1>3 DEF CachedNewBest, Steps
<1>4. CASE CachedCrash
  BY <1>4 DEF CachedCrash, Steps
<1>5. CASE \E h \in {0} \cup Heights : QueryByHeight(h) \/ \E t \in Thread : GetBlockHash(t, h)
  BY <1>5 DEF QueryByHeight, GetBlockHash, Steps
<1>6. CASE \E t \in Thread : CacheBlockHash(t)
  BY <1>6 DEF CacheBlockHash, Steps
<1>7. CASE UNCHANGED cvars
  BY <1>7 DEF cvars, Steps
<1> QED
  BY <1>1, <1>2, <1>3, <1>4, <1>5, <1>6, <1>7 DEF CacheNext

(* An abort leaves the chain where it is. *)
LEMMA AbortKeepsWork ==
  ASSUME WorkInv, Abort, UNCHANGED <<memory, db, pindexNew, target>>
  PROVE  WorkInv'
  BY DEF WorkInv, Abort, DiscardBatch, memory, db

(* Every step keeps SetBestChain on its way. *)
LEMMA WorkInvNext ==
  ASSUME WorkInv, Steps
  PROVE  WorkInv'
<1> USE DEF memory, db, batch, queues, work
<1>t. /\ pindexBest \in Block /\ pindexNew \in Block /\ target \in Block /\ dbBest \in Block
      /\ pnext \in [Block -> Block \cup {None}]
      /\ dbNext \in [Block -> Block \cup {None}]
      /\ batchNext \in [Block -> Block \cup {None}]
  BY DEF WorkInv
<1>1. ASSUME NEW b \in Block \ {Genesis}, AcceptBlock(b) PROVE WorkInv'
  <2>1. /\ pc' \in {"idle", "setbest"} /\ pindexNew' \in Block
        /\ UNCHANGED <<pindexBest, target, dbBest, pnext>>
    BY <1>1, <1>t DEF AcceptBlock
  <2>2. /\ dbNext' \in [Block -> Block \cup {None}]
        /\ batchNext' \in [Block -> Block \cup {None}]
    BY <1>1, <1>t DEF AcceptBlock
  <2> QED
    BY <1>t, <2>1, <2>2 DEF WorkInv
<1>2. CASE SetBestChain
  <2>1. target' \in Branch[pindexNew]
    BY <1>2, <1>t, BranchBasics, IntermediateExists DEF SetBestChain
  <2>2. target' \in Block
    BY <1>t, <2>1, BranchBasics
  <2>3. /\ UNCHANGED <<pindexBest, pindexNew, dbBest, pnext, dbNext, batchNext>>
        /\ pc' = "connect" => cursor' \in Branch[target']
    BY <1>2 DEF SetBestChain
  <2> QED
    BY <1>t, <2>1, <2>2, <2>3 DEF WorkInv
<1>3. CASE DisconnectBlock
  <2>1. CASE Abort
    BY <1>3, <2>1, AbortKeepsWork DEF DisconnectBlock
  <2>2. CASE ~ Abort
    <3>1. /\ UNCHANGED <<pindexBest, pindexNew, target, dbBest, pnext, dbNext>>
          /\ pc = "disconnect"
          /\ pc' = "connect" => cursor' \in Branch[target]
      BY <1>3, <2>2 DEF DisconnectBlock
    <3>2. batchNext' \in [Block -> Block \cup {None}]
      BY <1>3, <1>t, <2>2 DEF DisconnectBlock
    <3>3. target \in Branch[pindexNew]
      BY <3>1 DEF WorkInv
    <3> QED
      BY <1>t, <3>1, <3>2, <3>3 DEF WorkInv
  <2> QED
    BY <2>1, <2>2
<1>4. CASE ConnectTx
  <2>1. CASE Abort
    BY <1>4, <2>1, AbortKeepsWork DEF ConnectTx
  <2>2. CASE ~ Abort
    <3>1. UNCHANGED <<pindexBest, pindexNew, target, dbBest, pnext, dbNext, batchNext, pc, cursor>>
      BY <1>4, <2>2 DEF ConnectTx
    <3> QED
      BY <3>1 DEF WorkInv
  <2> QED
    BY <2>1, <2>2
<1>5. CASE ConnectBlock
  <2>1. CASE Abort
    BY <1>5, <2>1, AbortKeepsWork DEF ConnectBlock
  <2>2. CASE ~ Abort
    <3> DEFINE b == ChildToward(cursor, target)
    <3>1. /\ UNCHANGED <<pindexBest, pindexNew, target, dbBest, pnext, dbNext, pc>>
          /\ pc = "connect" /\ cursor # target /\ cursor' = b
          /\ batchNext' = [batchNext EXCEPT ![b] = pnext[b], ![cursor] = b]
      BY <1>5, <2>2 DEF ConnectBlock
    <3>2. cursor \in Branch[target]
      BY <3>1 DEF WorkInv
    <3>3. b \in Block /\ b \in Branch[target]
      BY <1>t, <3>1, <3>2, ChildTowardFacts
    <3> HIDE DEF b
    <3>4. batchNext' \in [Block -> Block \cup {None}]
      BY <1>t, <3>1, <3>3
    <3> QED
      BY <1>t, <3>1, <3>3, <3>4 DEF WorkInv
  <2> QED
    BY <2>1, <2>2
<1>6. CASE pc = "connect" /\ Abort /\ UNCHANGED <<memory, db, pindexNew, target, mode, crashes>>
  BY <1>6, AbortKeepsWork
<1>7. CASE Commit
  <2>1. /\ UNCHANGED <<pindexBest, pindexNew, target, batchNext>>
        /\ pc = "connect" /\ pc' = "pool"
        /\ dbNext' = batchNext /\ dbBest' = target /\ pnext' = LinksAfter
    BY <1>7 DEF Commit
  <2>2. LinksAfter \in [Block -> Block \cup {None}]
    <3>1. ASSUME NEW c \in Connected PROVE ChildToward(Parent[c], target) \in Block
      <4>1. c \in ConnectedBlocks(target)
        BY <1>t, BranchBasics DEF Connected, ConnectedBlocks
      <4>2. ChildToward(Parent[c], target) \in ConnectedBlocks(target)
        BY <4>1 DEF ChildToward
      <4> QED
        BY <1>t, <4>2, BranchBasics DEF ConnectedBlocks
    <3> QED
      BY <1>t, <3>1 DEF LinksAfter
  <2>3. target \in Branch[pindexNew]
    BY <2>1 DEF WorkInv
  <2> QED
    BY <1>t, <2>1, <2>2, <2>3 DEF WorkInv
<1>8. CASE ResurrectTx \/ DeleteTx \/ UNCHANGED vars
  <2>1. UNCHANGED <<pindexBest, pindexNew, target, dbBest, pnext, dbNext, batchNext, pc, cursor>>
    BY <1>8 DEF ResurrectTx, DeleteTx, vars
  <2> QED
    BY <2>1 DEF WorkInv
<1>9. CASE ConnectFurther
  <2>1. UNCHANGED <<pindexBest, pindexNew, dbBest, pnext, dbNext, batchNext>>
    BY <1>9 DEF ConnectFurther
  <2>2. pc = "pool" /\ target \in Branch[pindexNew]
    BY <1>9 DEF ConnectFurther, PoolDone, WorkInv
  <2>3. CASE target = pindexNew
    <3>1. pc' = "newbest" /\ target' = target
      BY <1>9, <2>3 DEF ConnectFurther
    <3> QED
      BY <1>t, <2>1, <3>1 DEF WorkInv
  <2>4. CASE target # pindexNew
    <3> DEFINE c == ChildToward(target, pindexNew)
    <3>1. pc' = "connect" /\ target' = c /\ cursor' = target
      BY <1>9, <2>4 DEF ConnectFurther
    <3>2. c \in Block \ {Genesis} /\ c \in Branch[pindexNew] /\ Parent[c] = target
      BY <1>t, <2>2, <2>4, ChildTowardFacts
    <3> HIDE DEF c
    <3>3. target \in Branch[c]
      BY <3>2, BranchBasics
    <3> QED
      BY <1>t, <2>1, <3>1, <3>2, <3>3 DEF WorkInv
  <2> QED
    BY <2>3, <2>4
<1>10. CASE NewBest
  <2>1. /\ UNCHANGED <<pindexNew, target, dbBest, pnext, dbNext, batchNext>>
        /\ pindexBest' = pindexNew /\ pc' = "idle"
    BY <1>10 DEF NewBest
  <2> QED
    BY <1>t, <2>1 DEF WorkInv
<1>11. CASE LoadBlockIndex
  <2>1. /\ UNCHANGED <<target, dbBest, dbNext, batchNext>>
        /\ pindexBest' = dbBest /\ pnext' = dbNext /\ pc' \in {"idle", "setbest"}
        /\ pindexNew' = pindexNew \/ pindexNew' \in Branch[dbBest]
    BY <1>11 DEF LoadBlockIndex, LoadedNext
  <2>2. pindexNew' \in Block
    BY <1>t, <2>1, BranchBasics
  <2> QED
    BY <1>t, <2>1, <2>2 DEF WorkInv
<1>12. CASE Crash
  <2>1. /\ UNCHANGED <<pindexBest, pindexNew, target, dbBest, pnext, dbNext>>
        /\ batchNext' = dbNext /\ pc' = "down"
    BY <1>12 DEF Crash, DiscardBatch
  <2> QED
    BY <1>t, <2>1 DEF WorkInv
<1> QED
  BY <1>1, <1>2, <1>3, <1>4, <1>5, <1>6, <1>7, <1>8, <1>9, <1>10, <1>11, <1>12 DEF Steps

-----------------------------------------------------------------------------
(* FindBlockByHeight's last answer. *)

(* A step leaves the last answer right if it changes neither it nor the     *)
(* chain, or if it forgets it.                                              *)
LEMMA LastKept ==
  ASSUME LastInv,
         \/ pblockindexFBBHLast' = None
         \/ /\ UNCHANGED <<pnext, pindexBest, pblockindexFBBHLast>>
            /\ Calm' => Calm
            /\ pc' = "down" => pc = "down"
  PROVE  LastInv'
<1>1. CASE pblockindexFBBHLast' = None
  BY <1>1 DEF LastInv
<1>2. CASE /\ UNCHANGED <<pnext, pindexBest, pblockindexFBBHLast>>
           /\ Calm' => Calm
           /\ pc' = "down" => pc = "down"
  <2>1. LinksFollow(pnext, pindexBest)' = LinksFollow(pnext, pindexBest)
    BY <1>2 DEF LinksFollow
  <2> QED
    BY <1>2, <2>1 DEF LastInv
<1> QED
  BY <1>1, <1>2

(* Every step leaves it on the best chain. *)
LEMMA LastInvNext ==
  ASSUME WorkInv, LastInv, [CacheNext]_cvars
  PROVE  LastInv'
<1> USE DEF memory, db, batch, queues, work, vars, caches, Calm
<1>1. CASE ChainStep
  <2>0. UNCHANGED pblockindexFBBHLast
    BY <1>1 DEF ChainStep
  <2>1. CASE LoadBlockIndex
    BY <2>0, <2>1, LastKept DEF LoadBlockIndex, LastInv
  <2>2. CASE ~ LoadBlockIndex
    <3>1. CASE Commit \/ ConnectFurther
      <4>1. ~ Calm' /\ pc' # "down"
        BY <3>1 DEF Commit, ConnectFurther
      <4> QED
        BY <4>1 DEF LastInv
    <3>2. CASE \E b \in Block \ {Genesis} : AcceptBlock(b)
      BY <2>0, <3>2, LastKept DEF AcceptBlock
    <3>3. CASE SetBestChain \/ ResurrectTx \/ DeleteTx
      BY <2>0, <3>3, LastKept DEF SetBestChain, ResurrectTx, DeleteTx
    <3>4. CASE DisconnectBlock \/ ConnectTx \/ ConnectBlock
      <4>1. /\ UNCHANGED <<pnext, pindexBest, mode>> /\ pc' # "down"
            /\ Calm' => Calm
        BY <3>4 DEF DisconnectBlock, ConnectTx, ConnectBlock, Abort
      <4> QED
        BY <2>0, <4>1, LastKept
    <3> QED
      BY <1>1, <2>2, <3>1, <3>2, <3>3, <3>4 DEF ChainStep
  <2> QED
    BY <2>1, <2>2
<1>2. CASE StartConnect
  <2> DEFINE b == ChildToward(cursor, target)
  <2>1. CASE BlockSize[b] > MAX_BLOCK_SIZE
    BY <1>2, <2>1, LastKept DEF StartConnect, Abort
  <2>2. CASE ~ (BlockSize[b] > MAX_BLOCK_SIZE)
    <3>1. /\ ConnectTx /\ pc = "connect" /\ cursor # target
          /\ SlidesAt(b) => FindBlockByHeight(FirstBlock(b)) # None
          /\ pblockindexFBBHLast' = IF SlidesAt(b) THEN FindBlockByHeight(FirstBlock(b))
                                                   ELSE pblockindexFBBHLast
      BY <1>2, <2>2 DEF StartConnect
    <3>2. UNCHANGED <<pnext, pindexBest, mode>> /\ pc' # "down" /\ (Calm' => Calm)
      BY <3>1 DEF ConnectTx, Abort
    <3>3. CASE ~ SlidesAt(b)
      BY <3>1, <3>2, <3>3, LastKept
    <3>4. CASE SlidesAt(b)
      <4> SUFFICES ASSUME Calm, LinksFollow(pnext, pindexBest)
                   PROVE  pblockindexFBBHLast' \in Branch[pindexBest]
        <5>1. LinksFollow(pnext, pindexBest)' = LinksFollow(pnext, pindexBest)
          BY <3>2 DEF LinksFollow
        <5> QED
          BY <3>2, <5>1 DEF LastInv
      <4>1. cursor \in Branch[target] /\ target \in Block /\ pindexBest \in Block
        BY <3>1 DEF WorkInv
      <4>2. b \in Block
        BY <3>1, <4>1, ChildTowardFacts
      <4> HIDE DEF b
      <4>3. FirstBlock(b) \in Nat
        BY <3>4, <4>2, BranchBasics, CacheAssumption DEF SlidesAt, FirstBlock
      <4>4. pblockindexFBBHLast \in Branch[pindexBest] \cup {None}
        BY DEF LastInv
      <4> DEFINE f == FirstBlock(b)
      <4> HIDE DEF f
      <4>5. f \in Nat
        BY <4>3 DEF f
      <4>6. FindBlockByHeight(f)
              = IF f =< Height[pindexBest] THEN Ancestor(pindexBest, f) ELSE None
        BY <4>4, <4>5, FindLeads
      <4>7. FindBlockByHeight(f) # None /\ pblockindexFBBHLast' = FindBlockByHeight(f)
        BY <3>1, <3>4 DEF f
      <4> QED
        BY <4>1, <4>5, <4>6, <4>7, AncestorFacts
    <3> QED
      BY <3>3, <3>4
  <2> QED
    BY <2>1, <2>2
<1>3. CASE CachedNewBest
  BY <1>3, LastKept DEF CachedNewBest, AfterNewBest
<1>4. CASE CachedCrash
  BY <1>4, LastKept DEF CachedCrash
<1>5. ASSUME NEW h \in {0} \cup Heights, QueryByHeight(h) PROVE LastInv'
  <2>1. /\ pc = "idle" /\ UNCHANGED <<pc, mode, pnext, pindexBest>>
        /\ h =< Height[pindexBest] /\ pblockindexFBBHLast' = FindBlockByHeight(h)
    BY <1>5 DEF QueryByHeight
  <2>2. h \in Nat
    BY BranchBasics DEF Heights
  <2> SUFFICES ASSUME LinksFollow(pnext, pindexBest)
               PROVE  pblockindexFBBHLast' \in Branch[pindexBest]
    <3>1. LinksFollow(pnext, pindexBest)' = LinksFollow(pnext, pindexBest)
      BY <2>1 DEF LinksFollow
    <3> QED
      BY <2>1, <3>1 DEF LastInv
  <2>3. pblockindexFBBHLast \in Branch[pindexBest] \cup {None} /\ pindexBest \in Block
    BY <2>1 DEF LastInv, WorkInv
  <2>4. FindBlockByHeight(h) = Ancestor(pindexBest, h)
    BY <2>1, <2>2, <2>3, FindLeads
  <2> QED
    BY <2>1, <2>2, <2>3, <2>4, AncestorFacts
<1>6. ASSUME NEW t \in Thread, NEW h \in {0} \cup Heights,
             GetBlockHash(t, h) \/ CacheBlockHash(t)
      PROVE  LastInv'
  BY <1>6, LastKept DEF GetBlockHash, CacheBlockHash
<1>7. CASE UNCHANGED cvars
  BY <1>7, LastKept DEF cvars
<1> QED
  BY <1>1, <1>2, <1>3, <1>4, <1>5, <1>6, <1>7 DEF CacheNext

-----------------------------------------------------------------------------
(* The hashes for floatingcity ranks. *)

(* A step leaves the hashes right if it changes neither them nor            *)
(* pindexBest, and clears no history.                                       *)
LEMMA HashesKept ==
  ASSUME HashInv, UNCHANGED <<hashes, pindexBest>>,
         disturbed => disturbed', overtaken => overtaken',
         pc' = "down" => pc = "down",
         ~ disturbed' /\ pc' \in {"connect", "pool", "newbest"} =>
           pindexBest \in Branch[pindexNew']
  PROVE  HashInv'
<1>1. HashesOfBestChain'
  BY DEF HashInv, HashesOfBestChain, hashes
<1> QED
  BY <1>1 DEF HashInv, hashes

(* Every step leaves the cached hashes right, as long as it disconnects     *)
(* nothing.                                                                 *)
LEMMA HashInvNext ==
  ASSUME WorkInv, HashInv, [CacheNext]_cvars
  PROVE  HashInv'
<1> USE DEF memory, db, batch, queues, work, vars, caches, hashes
<1>t. pindexBest \in Block /\ pindexNew \in Block
  BY DEF WorkInv
<1>n. ASSUME mapCacheBlockHashes' = NoHashes, nBlockHeight' \in [Thread -> Nat],
             BlockReading' = [t \in Thread |-> None], pc' \in {"idle", "setbest", "down"}
      PROVE  HashInv'
  <2>1. NoHashes \in [Heights -> Block \cup {None}] /\ \A h \in Heights : NoHashes[h] = None
    BY DEF NoHashes
  <2>2. HashesOfBestChain'
    BY <1>n, <2>1 DEF HashesOfBestChain
  <2> QED
    BY <1>n, <2>1, <2>2 DEF HashInv
<1>1. CASE ChainStep
  <2>0. /\ UNCHANGED <<hashes, overtaken>>
        /\ disturbed' = (\/ disturbed
                         \/ pc = "disconnect"
                         \/ pc = "connect" /\ pc' \in {"idle", "newbest"})
    BY <1>1 DEF ChainStep
  <2>1. CASE LoadBlockIndex
    <3>1. pc = "down" /\ pc' \in {"idle", "setbest"}
      BY <2>1 DEF LoadBlockIndex
    <3>2. /\ mapCacheBlockHashes' = NoHashes /\ nBlockHeight' \in [Thread -> Nat]
          /\ BlockReading' = [t \in Thread |-> None]
      BY <2>0, <3>1 DEF HashInv
    <3> QED
      BY <3>1, <3>2, <1>n
  <2>2. CASE ~ LoadBlockIndex
    <3>1. CASE \E b \in Block \ {Genesis} : AcceptBlock(b)
      <4>1. pc' \in {"idle", "setbest"} /\ UNCHANGED pindexBest
        BY <3>1 DEF AcceptBlock
      <4> QED
        BY <2>0, <4>1, HashesKept
    <3>2. CASE SetBestChain
      <4>1. target' \in Branch[pindexNew]
        BY <1>t, <3>2, BranchBasics, IntermediateExists DEF SetBestChain
      <4>2. /\ UNCHANGED <<pindexBest, pindexNew>>
            /\ pc' \in {"connect", "disconnect"}
            /\ pc' = "connect" => pindexBest \in Branch[target']
        BY <3>2 DEF SetBestChain
      <4>3. Branch[target'] \subseteq Branch[pindexNew]
        BY <1>t, <4>1, BranchOrder
      <4> QED
        BY <2>0, <4>2, <4>3, HashesKept
    <3>3. CASE DisconnectBlock
      <4>1. UNCHANGED pindexBest /\ pc' # "down" /\ disturbed'
        BY <2>0, <3>3 DEF DisconnectBlock, Abort
      <4> QED
        BY <2>0, <4>1, HashesKept
    <3>4. CASE ConnectTx \/ ConnectBlock
      <4>1. /\ UNCHANGED <<pindexBest, pindexNew>> /\ pc = "connect"
            /\ pc' \in {"connect", "idle", "newbest"}
        BY <3>4 DEF ConnectTx, ConnectBlock, Abort
      <4>2. ~ disturbed' => pc' = "connect"
        BY <2>0, <4>1
      <4> QED
        BY <2>0, <4>1, <4>2, HashesKept DEF HashInv
    <3>5. CASE Commit \/ ResurrectTx \/ DeleteTx \/ ConnectFurther
      <4>1. /\ UNCHANGED <<pindexBest, pindexNew>> /\ pc \in {"connect", "pool"}
            /\ pc' # "down"
        BY <3>5 DEF Commit, ResurrectTx, DeleteTx, ConnectFurther, PoolDone
      <4> QED
        BY <2>0, <4>1, HashesKept DEF HashInv
    <3> QED
      BY <1>1, <2>2, <3>1, <3>2, <3>3, <3>4, <3>5 DEF ChainStep
  <2> QED
    BY <2>1, <2>2
<1>2. CASE StartConnect
  <2>1. CASE BlockSize[ChildToward(cursor, target)] > MAX_BLOCK_SIZE
    <3>1. UNCHANGED <<pindexBest, hashes, overtaken>> /\ disturbed' /\ pc' # "down"
      BY <1>2, <2>1 DEF StartConnect, Abort
    <3> QED
      BY <3>1, HashesKept
  <2>2. CASE ~ (BlockSize[ChildToward(cursor, target)] > MAX_BLOCK_SIZE)
    <3>1. /\ ConnectTx /\ pc = "connect" /\ UNCHANGED <<hashes, overtaken>>
          /\ disturbed' = (disturbed \/ pc' # "connect")
      BY <1>2, <2>2 DEF StartConnect
    <3>2. UNCHANGED <<pindexBest, pindexNew>> /\ pc' # "down"
      BY <3>1 DEF ConnectTx, Abort
    <3> QED
      BY <3>1, <3>2, HashesKept DEF HashInv
  <2> QED
    BY <2>1, <2>2
<1>3. CASE CachedNewBest
  <2>1. /\ pc = "newbest" /\ pc' = "idle" /\ pindexBest' = pindexNew
        /\ UNCHANGED <<hashes, disturbed>>
        /\ overtaken' = (overtaken \/ \E t \in Thread : BlockReading[t] # None)
    BY <1>3 DEF CachedNewBest, NewBest
  <2>2. ~ disturbed => Branch[pindexBest] \subseteq Branch[pindexNew]
    BY <1>t, <2>1, BranchOrder DEF HashInv
  <2>3. HashesOfBestChain'
    BY <2>1, <2>2 DEF HashInv, HashesOfBestChain
  <2> QED
    BY <2>1, <2>2, <2>3 DEF HashInv
<1>4. CASE CachedCrash
  BY <1>4, <1>n DEF CachedCrash, Crash
<1>5. ASSUME NEW h \in {0} \cup Heights, QueryByHeight(h) PROVE HashInv'
  BY <1>5, HashesKept DEF QueryByHeight, HashInv
<1>6. ASSUME NEW t \in Thread, NEW n \in {0} \cup Heights, GetBlockHash(t, n) PROVE HashInv'
  <2> DEFINE h == IF n = 0 THEN Height[pindexBest] ELSE n
  <2>1. h \in Nat
    BY <1>t, BranchBasics DEF Heights
  <2>2. /\ pc # "down" /\ UNCHANGED <<vars, mapCacheBlockHashes, disturbed, overtaken>>
        /\ nBlockHeight' = [nBlockHeight EXCEPT ![t] = h]
        /\ BlockReading' = [BlockReading EXCEPT ![t] = pindexBest]
    BY <1>6 DEF GetBlockHash
  <2> HIDE DEF h
  <2>3. /\ nBlockHeight' \in [Thread -> Nat]
        /\ BlockReading' \in [Thread -> Block \cup {None}]
        /\ \A u \in Thread :
             BlockReading'[u] = IF u = t THEN pindexBest ELSE BlockReading[u]
    BY <1>t, <2>1, <2>2 DEF HashInv
  <2>4. HashesOfBestChain'
    BY <2>2 DEF HashInv, HashesOfBestChain
  <2>5. pindexBest \in Branch[pindexBest]
    BY <1>t, BranchBasics
  <2> QED
    BY <2>2, <2>3, <2>4, <2>5 DEF HashInv
<1>7. ASSUME NEW t \in Thread, CacheBlockHash(t) PROVE HashInv'
  <2> DEFINE h       == nBlockHeight[t]
             reading == BlockReading[t]
             ago     == BlocksAgo(h)
             found   == ago \in 0..(Height[reading] - 1)
             a       == Ancestor(reading, Height[reading] - ago)
  <2>1. /\ pc # "down" /\ reading # None /\ UNCHANGED <<vars, disturbed, overtaken>>
        /\ mapCacheBlockHashes' = IF found THEN [mapCacheBlockHashes EXCEPT ![h] = a]
                                           ELSE mapCacheBlockHashes
        /\ nBlockHeight' = [nBlockHeight EXCEPT ![t] = 0]
        /\ BlockReading' = [BlockReading EXCEPT ![t] = None]
    BY <1>7 DEF CacheBlockHash
  <2>2. h \in Nat /\ reading \in Block
    BY <2>1 DEF HashInv
  <2>3. Height[pindexBest] \in Nat /\ Height[reading] \in Nat /\ Height[Genesis] = 0
    BY <1>t, <2>2, TreeAssumption
  <2>4. ago = Height[pindexBest] + 1 - h
    BY DEF BlocksAgo
  <2>5. ASSUME found
        PROVE  /\ a \in Branch[reading] \ {Genesis} /\ a \in Block
               /\ Height[a] = Height[reading] - Height[pindexBest] - 1 + h
    <3> HIDE DEF h, reading, ago
    <3>1. /\ Height[reading] - ago \in Nat /\ Height[reading] - ago =< Height[reading]
          /\ Height[reading] - ago # 0
          /\ Height[reading] - ago = Height[reading] - Height[pindexBest] - 1 + h
      BY <2>2, <2>3, <2>4, <2>5
    <3>2. a \in Branch[reading] /\ Height[a] = Height[reading] - ago
      BY <2>2, <3>1, AncestorFacts
    <3>3. a # Genesis
      BY <2>3, <3>1, <3>2
    <3> QED
      BY <2>2, <3>1, <3>2, <3>3, BranchBasics
  <2> HIDE DEF h, reading, ago, found, a
  <2>6. ASSUME ~ disturbed
        PROVE  /\ Branch[reading] \subseteq Branch[pindexBest]
               /\ Height[reading] =< Height[pindexBest]
               /\ ~ overtaken => reading = pindexBest
    <3>1. reading \in Branch[pindexBest] /\ (~ overtaken => reading = pindexBest)
      BY <2>1, <2>6 DEF HashInv, reading
    <3> QED
      BY <1>t, <3>1, BranchOrder
  <2>7. ASSUME found, ~ disturbed
        PROVE  /\ a \in Branch[pindexBest] \ {Genesis}
               /\ Height[a] < h
               /\ ~ overtaken => Height[a] = h - 1
    BY <2>2, <2>3, <2>5, <2>6, <2>7
  <2>8. /\ mapCacheBlockHashes' \in [Heights -> Block \cup {None}]
        /\ \A k \in Heights : mapCacheBlockHashes'[k]
             = IF found /\ k = h THEN a ELSE mapCacheBlockHashes[k]
    BY <2>1, <2>5 DEF HashInv
  <2>9. HashesOfBestChain'
    BY <2>1, <2>7, <2>8 DEF HashInv, HashesOfBestChain
  <2>10. /\ nBlockHeight' \in [Thread -> Nat]
         /\ BlockReading' \in [Thread -> Block \cup {None}]
         /\ \A u \in Thread : BlockReading'[u] = IF u = t THEN None ELSE BlockReading[u]
    BY <2>1 DEF HashInv
  <2> QED
    BY <2>1, <2>8, <2>9, <2>10 DEF HashInv
<1>8. CASE UNCHANGED cvars
  BY <1>8, HashesKept DEF cvars, HashInv
<1> QED
  BY <1>1, <1>2, <1>3, <1>4, <1>5, <1>6, <1>7, <1>8 DEF CacheNext

-----------------------------------------------------------------------------
-----------------------------------------------------------------------------
CachesInv == WorkInv /\ LastInv /\ HashInv

(* The invariant of the caches: SetBestChain is on its way to the new       *)
(* block, FindBlockByHeight's last answer is on the best chain while pnext  *)
(* links it, and while nothing was disconnected the cached hashes and what  *)
(* the threads in GetBlockHash have read are of the best chain.             *)
THEOREM CachesInductive == CacheSpec => []CachesInv
<1>1. CacheInit => CachesInv
  <2> SUFFICES ASSUME CacheInit PROVE CachesInv
    OBVIOUS
  <2>1. NoNext \in [Block -> Block \cup {None}] /\ Genesis \in Block
    BY BranchBasics, TreeAssumption DEF NoNext
  <2>2. WorkInv
    BY <2>1 DEF CacheInit, Init, WorkInv
  <2>3. NoHashes \in [Heights -> Block \cup {None}] /\ \A h \in Heights : NoHashes[h] = None
    BY DEF NoHashes
  <2> QED
    BY <2>2, <2>3 DEF CacheInit, Init, CachesInv, LastInv, HashInv, HashesOfBestChain
<1>2. CachesInv /\ [CacheNext]_cvars => CachesInv'
  BY StepsOfNext, WorkInvNext, LastInvNext, HashInvNext DEF CachesInv
<1> QED
  BY <1>1, <1>2, PTL DEF CacheSpec

(* FindBlockByHeight, whose walk may start at an answer it gave before the  *)
(* chain was reorganised, finds the block of the best chain at every height *)
(* and meets no null pnext, whenever cs_main is free and pnext links the    *)
(* best chain.                                                              *)
THEOREM BlocksFoundByHeight ==
  CacheSpec => [](LinksFollow(pnext, pindexBest) => FindsBestChain)
<1>1. ASSUME CachesInv, LinksFollow(pnext, pindexBest), pc = "idle",
             NEW h \in 0..Height[pindexBest]
      PROVE  FindBlockByHeight(h) = Ancestor(pindexBest, h)
  <2>1. WorkInv /\ pblockindexFBBHLast \in Branch[pindexBest] \cup {None}
    BY <1>1 DEF CachesInv, LastInv, Calm
  <2>2. h \in Nat /\ h =< Height[pindexBest]
    BY <2>1, BranchBasics DEF WorkInv
  <2> QED
    BY <1>1, <2>1, <2>2, FindLeads
<1>2. CachesInv => (LinksFollow(pnext, pindexBest) => FindsBestChain)
  BY <1>1 DEF FindsBestChain
<1> QED
  BY <1>2, CachesInductive, PTL

(* The size limit is one more way for a block to fail: an abort like the    *)
(* others.                                                                  *)
LEMMA RestartSteps ==
  ASSUME RestartInv, Steps, PostponedConnect
  PROVE  RestartInv'
<1>1. CASE pc = "connect" /\ Abort /\ UNCHANGED <<memory, db, pindexNew, target, mode, crashes>>
  BY <1>1, RestartAbort DEF Batching
<1> QED
  BY <1>1, RestartAccept, RestartSetBest, RestartDisconnect, RestartConnectTx,
     RestartConnectBlock, RestartCommit, RestartPoolSteps, RestartFurther, RestartNewBest,
     RestartCrash, RestartLoad
  DEF Steps

(* The same without the condition on pnext: as long as no postponed block   *)
(* fails, be it for its size, FindBlockByHeight is right at every height    *)
(* whenever cs_main is free, through reorganisations, failures and          *)
(* restarts.                                                                *)
THEOREM BlocksAlwaysFound ==
  CacheSpec /\ [][PostponedConnect]_vars => []FindsBestChain
<1>1. RestartInv /\ [CacheNext]_cvars /\ [PostponedConnect]_vars => RestartInv'
  <2> SUFFICES ASSUME RestartInv, [CacheNext]_cvars, [PostponedConnect]_vars PROVE RestartInv'
    OBVIOUS
  <2>1. CASE UNCHANGED vars
    BY <2>1, RestartPoolSteps
  <2> QED
    BY <2>1, StepsOfNext, RestartSteps
<1>2. CacheInit => RestartInv
  BY RestartInit DEF CacheInit
<1>3. RestartInv /\ (LinksFollow(pnext, pindexBest) => FindsBestChain) => FindsBestChain
  BY DEF RestartInv, DbRight, BestRight, FindsBestChain
<1> QED
  BY <1>1, <1>2, <1>3, BlocksFoundByHeight, PTL DEF CacheSpec

(* GetBlockHash runs in threads that do not hold cs_main, at any step of    *)
(* SetBestChain and over several of them.  As long as no block was          *)
(* disconnected, it caches for a height only hashes of blocks below it in   *)
(* the best chain; and, unless pindexBest was assigned between its reads in *)
(* this process, that of the block just below, which every node with this   *)
(* chain uses.                                                              *)
THEOREM CachedHashesOfBestChain == CacheSpec => []HashesOfBestChain
<1>1. CachesInv => HashesOfBestChain
  BY DEF CachesInv, HashInv
<1> QED
  BY <1>1, CachesInductive, PTL

-----------------------------------------------------------------------------
(* The links of the committed best chain. *)

(* pnext and hashNext lead only upwards, to blocks of the chain that ends   *)
(* in b; some of its links may be missing.                                  *)
OnChain(next, b) ==
  \A a, c \in Block : next[a] = c => c \in ConnectedBlocks(b) /\ Parent[c] = a

(* No link leaves the committed best chain, even where a postponed block    *)
(* has failed and pindexBest is above it.                                   *)
LinkInv ==
  /\ OnChain(dbNext, dbBest)
  /\ pc # "down" => OnChain(pnext, dbBest)
  /\ IF pc \in {"disconnect", "connect"} THEN OnChain(batchNext, cursor)
                                         ELSE batchNext = dbNext
(* Where the committed best chain is on the way of SetBestChain. *)
PlaceInv ==
  /\ Calm => dbBest \in Branch[pindexBest]
  /\ pc = "pool" => dbBest = target
  /\ pc = "newbest" => dbBest \in Branch[pindexNew]
  /\ pc \in {"disconnect", "connect"} => Branch[target] \cap Branch[dbBest] \subseteq Branch[cursor]
  /\ pc = "disconnect" => /\ mode = "reorg" /\ cursor \in Branch[pindexBest]
                          /\ cursor \notin Branch[target]
  /\ pc = "connect" /\ mode # "reorg" => target # Genesis /\ dbBest \in Branch[Parent[target]]
  /\ nTx \in Nat /\ (pc # "connect" => nTx = 0)
  /\ pc = "connect" /\ cursor = target => nTx = 0

(* A longer chain has the links of its beginning. *)
LEMMA OnLongerChain ==
  ASSUME NEW b \in Block, NEW a \in Branch[b], NEW next, OnChain(next, a)
  PROVE  OnChain(next, b)
BY BranchOrder DEF OnChain, ConnectedBlocks

(* Taking a link away leaves no wrong one. *)
LEMMA OnChainUnlinked ==
  ASSUME NEW b \in Block, NEW next \in [Block -> Block \cup {None}], OnChain(next, b),
         NEW x \in Block
  PROVE  OnChain([next EXCEPT ![x] = None], b)
<1>1. None \notin Block
  BY TxAssumption
<1> QED
  BY <1>1 DEF OnChain

(* DisconnectBlock takes the last link away. *)
LEMMA OnShorterChain ==
  ASSUME NEW b \in Block \ {Genesis}, NEW next \in [Block -> Block \cup {None}],
         OnChain(next, b)
  PROVE  OnChain([next EXCEPT ![Parent[b]] = None], Parent[b])
<1>1. None \notin Block /\ Parent[b] \in Block /\ Branch[b] = Branch[Parent[b]] \cup {b}
  BY TxAssumption, BranchBasics
<1>2. ASSUME NEW a \in Block, NEW c \in Block, [next EXCEPT ![Parent[b]] = None][a] = c
      PROVE  c \in ConnectedBlocks(Parent[b]) /\ Parent[c] = a
  <2>1. a # Parent[b] /\ next[a] = c
    BY <1>1, <1>2
  <2>2. c \in ConnectedBlocks(b) /\ Parent[c] = a
    BY <2>1 DEF OnChain
  <2> QED
    BY <1>1, <2>1, <2>2 DEF ConnectedBlocks
<1> QED
  BY <1>2 DEF OnChain

(* ConnectBlock adds one, and pnext has none for the block yet. *)
LEMMA OnChainLinked ==
  ASSUME NEW b \in Block \ {Genesis}, NEW next \in [Block -> Block \cup {None}],
         OnChain(next, Parent[b])
  PROVE  OnChain([next EXCEPT ![b] = None, ![Parent[b]] = b], b)
<1> DEFINE new == [next EXCEPT ![b] = None, ![Parent[b]] = b]
<1>1. None \notin Block /\ Parent[b] \in Block /\ Parent[b] \in Branch[b] /\ b \in Branch[b]
  BY TxAssumption, BranchBasics
<1>2. OnChain(next, b)
  BY <1>1, OnLongerChain
<1>3. ASSUME NEW a \in Block, NEW c \in Block, new[a] = c
      PROVE  c \in ConnectedBlocks(b) /\ Parent[c] = a
  <2>1. (a = Parent[b] /\ c = b) \/ next[a] = c
    BY <1>1, <1>3
  <2> QED
    BY <1>1, <1>2, <2>1 DEF OnChain, ConnectedBlocks
<1> QED
  BY <1>3 DEF OnChain

(* A block that is not on the chain has no link. *)
LEMMA NoLinkBeyond ==
  ASSUME NEW a \in Block, NEW b \in Block, b \notin Branch[a],
         NEW next \in [Block -> Block \cup {None}], OnChain(next, a)
  PROVE  next[b] = None
<1>1. SUFFICES ASSUME NEW c \in ConnectedBlocks(a), Parent[c] = b PROVE FALSE
  BY DEF OnChain
<1>2. c \in Branch[a] /\ c \in Block \ {Genesis}
  BY BranchBasics DEF ConnectedBlocks
<1>3. Branch[c] \subseteq Branch[a] /\ Parent[c] \in Branch[c]
  BY <1>2, BranchOrder, BranchBasics
<1> QED
  BY <1>1, <1>3

(* The links in memory after a commit. *)
LEMMA LinksAfterOnChain ==
  ASSUME WorkInv, LinkInv, PlaceInv, pc = "connect"
  PROVE  OnChain(LinksAfter, target)
<1>t. /\ target \in Block /\ dbBest \in Block /\ pindexBest \in Block /\ None \notin Block
      /\ pnext \in [Block -> Block \cup {None}] /\ OnChain(pnext, dbBest)
  BY TxAssumption DEF WorkInv, LinkInv
<1>1. CASE mode = "reorg"
  <2>1. dbBest \in Branch[pindexBest]
    BY <1>1 DEF PlaceInv, Calm
  <2>2. OnChain(pnext, pindexBest)
    BY <1>t, <2>1, OnLongerChain
  <2>3. ASSUME NEW a \in Block, NEW c \in Block, LinksAfter[a] = c
        PROVE  c \in ConnectedBlocks(target) /\ Parent[c] = a
    <3>1. LinksAfter[a] = IF \E x \in Connected : Parent[x] = a THEN ChildToward(a, target)
                            ELSE IF \E d \in Disconnected : Parent[d] = a THEN None ELSE pnext[a]
      BY <1>1 DEF LinksAfter
    <3>2. CASE \E x \in Connected : Parent[x] = a
      <4>1. PICK x \in Connected : Parent[x] = a
        BY <3>2
      <4>2. x \in ConnectedBlocks(target)
        BY <1>t, <4>1, BranchBasics DEF Connected, ConnectedBlocks
      <4>3. ChildToward(a, target) \in ConnectedBlocks(target) /\ Parent[ChildToward(a, target)] = a
        BY <4>1, <4>2 DEF ChildToward
      <4> QED
        BY <2>3, <3>1, <3>2, <4>3
    <3>3. CASE ~ \E x \in Connected : Parent[x] = a
      <4>1. ~ (\E d \in Disconnected : Parent[d] = a) /\ pnext[a] = c
        BY <1>t, <2>3, <3>1, <3>3
      <4>2. c \in ConnectedBlocks(pindexBest) /\ Parent[c] = a
        BY <2>2, <4>1 DEF OnChain
      <4>3. c \notin Disconnected
        BY <4>1, <4>2
      <4> QED
        BY <4>2, <4>3 DEF Disconnected, ConnectedBlocks
    <3> QED
      BY <3>2, <3>3
  <2> QED
    BY <2>3 DEF OnChain
<1>2. CASE mode # "reorg"
  <2>1. target # Genesis /\ dbBest \in Branch[Parent[target]]
    BY <1>2 DEF PlaceInv
  <2>2. Parent[target] \in Block /\ Parent[target] \in Branch[target] /\ target \in Branch[target]
    BY <1>t, <2>1, BranchBasics
  <2>3. dbBest \in Branch[target]
    BY <1>t, <2>1, <2>2, BranchOrder
  <2>4. OnChain(pnext, target)
    BY <1>t, <2>3, OnLongerChain
  <2>5. LinksAfter = [pnext EXCEPT ![Parent[target]] = target]
    BY <1>2 DEF LinksAfter
  <2>6. ASSUME NEW a \in Block, NEW c \in Block, LinksAfter[a] = c
        PROVE  c \in ConnectedBlocks(target) /\ Parent[c] = a
    <3>1. (a = Parent[target] /\ c = target) \/ pnext[a] = c
      BY <1>t, <2>2, <2>5, <2>6
    <3> QED
      BY <2>1, <2>2, <2>4, <3>1 DEF OnChain, ConnectedBlocks
  <2> QED
    BY <2>6 DEF OnChain
<1> QED
  BY <1>1, <1>2

(* An abort goes back to the committed links. *)
LEMMA AbortKeepsLinks ==
  ASSUME WorkInv, LinkInv, PlaceInv, pc \in {"disconnect", "connect"},
         Abort, UNCHANGED <<memory, db, pindexNew, target, mode>>
  PROVE  LinkInv' /\ PlaceInv'
<1> USE DEF memory, db
<1>1. /\ pc' = (IF mode = "further" THEN "newbest" ELSE "idle")
      /\ batchNext' = dbNext /\ nTx' = 0
      /\ UNCHANGED <<pnext, pindexBest, dbNext, dbBest, pindexNew, target, mode, cursor>>
  BY DEF Abort, DiscardBatch
<1>2. LinkInv'
  BY <1>1 DEF LinkInv, OnChain
<1>3. CASE mode = "further"
  <2>1. pc = "connect" /\ target # Genesis /\ dbBest \in Branch[Parent[target]]
    BY <1>3 DEF PlaceInv
  <2>2. target \in Branch[pindexNew] /\ target \in Block /\ pindexNew \in Block
    BY <2>1 DEF WorkInv
  <2>3. dbBest \in Branch[pindexNew]
    BY <2>1, <2>2, BranchBasics, BranchOrder
  <2>4. PlaceInv'
    BY <1>1, <1>3, <2>3 DEF PlaceInv, Calm
  <2> QED
    BY <1>2, <2>4
<1>4. CASE mode # "further"
  <2>1. dbBest \in Branch[pindexBest]
    BY <1>4 DEF PlaceInv, Calm
  <2>2. PlaceInv'
    BY <1>1, <1>4, <2>1 DEF PlaceInv
  <2> QED
    BY <1>2, <2>2
<1> QED
  BY <1>3, <1>4

(* Every step keeps the links on the committed best chain, and SetBestChain *)
(* in its place.                                                            *)
LEMMA LinksNext ==
  ASSUME WorkInv, LinkInv, PlaceInv, Steps
  PROVE  LinkInv' /\ PlaceInv'
<1> USE DEF memory, db, batch, queues, work
<1>t. /\ pindexBest \in Block /\ pindexNew \in Block /\ target \in Block /\ dbBest \in Block
      /\ pnext \in [Block -> Block \cup {None}]
      /\ dbNext \in [Block -> Block \cup {None}]
      /\ batchNext \in [Block -> Block \cup {None}]
  BY DEF WorkInv
<1>d. OnChain(dbNext, dbBest) /\ (pc # "down" => OnChain(pnext, dbBest))
  BY DEF LinkInv
<1>1. ASSUME NEW b \in Block \ {Genesis}, AcceptBlock(b) PROVE LinkInv' /\ PlaceInv'
  <2>1. /\ pc = "idle" /\ pc' \in {"idle", "setbest"}
        /\ dbNext' = [dbNext EXCEPT ![b] = None] /\ batchNext' = [batchNext EXCEPT ![b] = None]
        /\ UNCHANGED <<pnext, pindexBest, dbBest, target, cursor, mode, nTx>>
    BY <1>1 DEF AcceptBlock
  <2>2. batchNext = dbNext
    BY <2>1 DEF LinkInv
  <2>3. OnChain(dbNext', dbBest)
    BY <1>d, <1>t, <2>1, OnChainUnlinked
  <2>4. LinkInv'
    BY <1>d, <2>1, <2>2, <2>3 DEF LinkInv, OnChain
  <2>5. PlaceInv'
    BY <2>1 DEF PlaceInv, Calm
  <2> QED
    BY <2>4, <2>5
<1>2. CASE SetBestChain
  <2>1. /\ pc = "setbest" /\ cursor' = pindexBest
        /\ pc' = IF pindexBest \in Branch[target'] THEN "connect" ELSE "disconnect"
        /\ UNCHANGED <<pnext, pindexBest, dbNext, dbBest, batchNext, pindexNew, nTx>>
    BY <1>2 DEF SetBestChain
  <2>2. dbBest \in Branch[pindexBest] /\ batchNext = dbNext /\ nTx = 0
    BY <2>1 DEF PlaceInv, Calm, LinkInv
  <2>3. \/ /\ target' = pindexNew /\ mode' = "inner"
           /\ pindexNew # Genesis /\ Parent[pindexNew] = pindexBest
        \/ mode' = "reorg"
    BY <1>2 DEF SetBestChain
  <2>4. mode' # "reorg" => /\ pc' = "connect" /\ target' # Genesis
                           /\ Parent[target'] = pindexBest /\ target' \in Block
    BY <1>t, <2>1, <2>3, BranchBasics
  <2>5. OnChain(dbNext, pindexBest)
    BY <1>d, <1>t, <2>2, OnLongerChain
  <2>6. Branch[dbBest] \subseteq Branch[pindexBest] /\ pindexBest \in Branch[pindexBest]
    BY <1>t, <2>2, BranchOrder, BranchBasics
  <2>7. LinkInv'
    BY <1>d, <2>1, <2>2, <2>5 DEF LinkInv, OnChain
  <2>8. PlaceInv'
    BY <2>1, <2>2, <2>4, <2>6 DEF PlaceInv, Calm
  <2> QED
    BY <2>7, <2>8
<1>3. CASE DisconnectBlock
  <2>1. CASE Abort
    BY <1>3, <2>1, AbortKeepsLinks DEF DisconnectBlock
  <2>2. CASE ~ Abort
    <3>1. /\ pc = "disconnect"
          /\ pc' = (IF Parent[cursor] \in Branch[target] THEN "connect" ELSE "disconnect")
          /\ batchNext' = [batchNext EXCEPT ![Parent[cursor]] = None]
          /\ cursor' = Parent[cursor]
          /\ UNCHANGED <<pnext, pindexBest, dbNext, dbBest, target, mode, nTx>>
      BY <1>3, <2>2 DEF DisconnectBlock
    <3>2. /\ mode = "reorg" /\ cursor \in Branch[pindexBest] /\ cursor \notin Branch[target]
          /\ Branch[target] \cap Branch[dbBest] \subseteq Branch[cursor]
          /\ dbBest \in Branch[pindexBest] /\ nTx = 0 /\ OnChain(batchNext, cursor)
      BY <3>1 DEF PlaceInv, Calm, LinkInv
    <3>3. cursor \in Block /\ cursor # Genesis
      BY <1>t, <3>2, BranchBasics
    <3>4. Parent[cursor] \in Branch[cursor] /\ Branch[cursor] = Branch[Parent[cursor]] \cup {cursor}
      BY <3>3, BranchBasics
    <3>5. Parent[cursor] \in Branch[pindexBest]
      BY <1>t, <3>2, <3>4, BranchOrder
    <3>6. OnChain(batchNext', cursor')
      BY <1>t, <3>1, <3>2, <3>3, OnShorterChain
    <3>7. Branch[target] \cap Branch[dbBest] \subseteq Branch[Parent[cursor]]
      BY <3>2, <3>4
    <3>8. LinkInv'
      BY <1>d, <3>1, <3>6 DEF LinkInv, OnChain
    <3>9. PlaceInv'
      BY <3>1, <3>2, <3>5, <3>7 DEF PlaceInv, Calm
    <3> QED
      BY <3>8, <3>9
  <2> QED
    BY <2>1, <2>2
<1>4. CASE ConnectTx
  <2>1. CASE Abort
    BY <1>4, <2>1, AbortKeepsLinks DEF ConnectTx
  <2>2. CASE ~ Abort
    <3>1. /\ UNCHANGED <<pindexBest, pindexNew, target, dbBest, pnext, dbNext, batchNext, pc,
                         cursor, mode>>
          /\ nTx' = nTx + 1 /\ pc = "connect" /\ cursor # target
      BY <1>4, <2>2 DEF ConnectTx
    <3>2. LinkInv'
      BY <3>1 DEF LinkInv, OnChain
    <3>3. PlaceInv'
      BY <3>1 DEF PlaceInv, Calm
    <3> QED
      BY <3>2, <3>3
  <2> QED
    BY <2>1, <2>2
<1>5. CASE ConnectBlock
  <2>1. CASE Abort
    BY <1>5, <2>1, AbortKeepsLinks DEF ConnectBlock
  <2>2. CASE ~ Abort
    <3> DEFINE b == ChildToward(cursor, target)
    <3>1. /\ UNCHANGED <<pindexBest, pindexNew, target, dbBest, pnext, dbNext, pc, mode>>
          /\ pc = "connect" /\ cursor # target /\ cursor' = b /\ nTx' = 0
          /\ batchNext' = [batchNext EXCEPT ![b] = pnext[b], ![cursor] = b]
      BY <1>5, <2>2 DEF ConnectBlock
    <3>2. cursor \in Branch[target]
      BY <3>1 DEF WorkInv
    <3>3. b \in Block \ {Genesis} /\ b \in Branch[target] /\ Parent[b] = cursor
      BY <1>t, <3>1, <3>2, ChildTowardFacts
    <3> HIDE DEF b
    <3>4. Branch[b] = Branch[cursor] \cup {b} /\ b \notin Branch[cursor]
      BY <3>3, BranchBasics
    <3>5. OnChain(batchNext, cursor) /\ Branch[target] \cap Branch[dbBest] \subseteq Branch[cursor]
      BY <3>1 DEF LinkInv, PlaceInv
    <3>6. b \notin Branch[dbBest]
      BY <3>3, <3>4, <3>5
    <3>7. pnext[b] = None
      BY <1>d, <1>t, <3>1, <3>3, <3>6, NoLinkBeyond
    <3>8. OnChain(batchNext', cursor')
      BY <1>t, <3>1, <3>3, <3>5, <3>7, OnChainLinked
    <3>9. Branch[target] \cap Branch[dbBest] \subseteq Branch[b]
      BY <3>4, <3>5
    <3>10. LinkInv'
      BY <1>d, <3>1, <3>8 DEF LinkInv, OnChain
    <3>11. PlaceInv'
      BY <3>1, <3>9 DEF PlaceInv, Calm
    <3> QED
      BY <3>10, <3>11
  <2> QED
    BY <2>1, <2>2
<1>6. CASE pc = "connect" /\ Abort /\ UNCHANGED <<memory, db, pindexNew, target, mode, crashes>>
  BY <1>6, AbortKeepsLinks
<1>7. CASE Commit
  <2>1. /\ UNCHANGED <<pindexBest, pindexNew, target, batchNext, nTx>>
        /\ pc = "connect" /\ pc' = "pool" /\ cursor = target
        /\ dbNext' = batchNext /\ dbBest' = target /\ pnext' = LinksAfter
    BY <1>7 DEF Commit
  <2>2. OnChain(LinksAfter, target) /\ OnChain(batchNext, target) /\ nTx = 0
    BY <2>1, LinksAfterOnChain DEF LinkInv, PlaceInv
  <2>p. OnChain(pnext', dbBest') /\ OnChain(dbNext', dbBest') /\ batchNext' = dbNext'
    BY <2>1, <2>2
  <2>3. LinkInv'
    BY <2>1, <2>p DEF LinkInv, OnChain
  <2>4. PlaceInv'
    BY <2>1, <2>2 DEF PlaceInv, Calm
  <2> QED
    BY <2>3, <2>4
<1>8. CASE ResurrectTx \/ DeleteTx \/ UNCHANGED vars
  <2>1. UNCHANGED <<pindexBest, pindexNew, target, dbBest, pnext, dbNext, batchNext, pc, cursor,
                    mode, nTx>>
    BY <1>8 DEF ResurrectTx, DeleteTx, vars
  <2> QED
    BY <2>1 DEF LinkInv, PlaceInv, OnChain, Calm
<1>9. CASE ConnectFurther
  <2>1. /\ UNCHANGED <<pindexBest, pindexNew, dbBest, pnext, dbNext, batchNext, nTx>>
        /\ pc = "pool"
    BY <1>9 DEF ConnectFurther, PoolDone
  <2>2. /\ target \in Branch[pindexNew] /\ dbBest = target /\ nTx = 0 /\ batchNext = dbNext
    BY <2>1 DEF WorkInv, PlaceInv, LinkInv
  <2>3. CASE target = pindexNew
    <3>1. pc' = "newbest" /\ UNCHANGED <<target, cursor, mode>>
      BY <1>9, <2>3 DEF ConnectFurther
    <3>2. LinkInv'
      BY <1>d, <2>1, <2>2, <3>1 DEF LinkInv, OnChain
    <3>3. PlaceInv'
      BY <1>t, <2>1, <2>2, <2>3, <3>1, BranchBasics DEF PlaceInv, Calm
    <3> QED
      BY <3>2, <3>3
  <2>4. CASE target # pindexNew
    <3> DEFINE c == ChildToward(target, pindexNew)
    <3>1. pc' = "connect" /\ target' = c /\ cursor' = target /\ mode' = "further"
      BY <1>9, <2>4 DEF ConnectFurther
    <3>2. c \in Block \ {Genesis} /\ Parent[c] = target
      BY <1>t, <2>2, <2>4, ChildTowardFacts
    <3> HIDE DEF c
    <3>3. target \in Branch[target]
      BY <1>t, BranchBasics
    <3>4. LinkInv'
      BY <1>d, <2>1, <2>2, <3>1 DEF LinkInv, OnChain
    <3>5. PlaceInv'
      BY <2>1, <2>2, <3>1, <3>2, <3>3 DEF PlaceInv, Calm
    <3> QED
      BY <3>4, <3>5
  <2> QED
    BY <2>3, <2>4
<1>10. CASE NewBest
  <2>1. /\ UNCHANGED <<pindexNew, target, dbBest, pnext, dbNext, batchNext, nTx>>
        /\ pindexBest' = pindexNew /\ pc = "newbest" /\ pc' = "idle"
    BY <1>10 DEF NewBest
  <2>2. LinkInv'
    BY <2>1 DEF LinkInv, OnChain
  <2>3. PlaceInv'
    BY <2>1 DEF PlaceInv, Calm
  <2> QED
    BY <2>2, <2>3
<1>11. CASE LoadBlockIndex
  <2>1. /\ UNCHANGED <<target, dbBest, dbNext, batchNext, nTx>>
        /\ pindexBest' = dbBest /\ pnext' = dbNext /\ pc = "down" /\ pc' \in {"idle", "setbest"}
    BY <1>11 DEF LoadBlockIndex, LoadedNext
  <2>2. batchNext = dbNext /\ nTx = 0 /\ dbBest \in Branch[dbBest]
    BY <1>t, <2>1, BranchBasics DEF LinkInv, PlaceInv
  <2>3. LinkInv'
    BY <1>d, <2>1, <2>2 DEF LinkInv, OnChain
  <2>4. PlaceInv'
    BY <2>1, <2>2 DEF PlaceInv, Calm
  <2> QED
    BY <2>3, <2>4
<1>12. CASE Crash
  <2>1. /\ UNCHANGED <<dbBest, dbNext>> /\ batchNext' = dbNext /\ pc' = "down" /\ nTx' = 0
    BY <1>12 DEF Crash, DiscardBatch
  <2>2. LinkInv'
    BY <1>d, <2>1 DEF LinkInv, OnChain
  <2>3. PlaceInv'
    BY <2>1 DEF PlaceInv, Calm
  <2> QED
    BY <2>2, <2>3
<1> QED
  BY <1>1, <1>2, <1>3, <1>4, <1>5, <1>6, <1>7, <1>8, <1>9, <1>10, <1>11, <1>12 DEF Steps

-----------------------------------------------------------------------------
LinksInv == LinkInv /\ PlaceInv

(* The invariant of the links: those in memory, in the database and in the  *)
(* transaction of SetBestChain each follow the chain they are kept for, and *)
(* the committed best block is where SetBestChain has left it.              *)
THEOREM LinksInductive == CacheSpec => []LinksInv
<1>1. CacheInit => LinksInv
  <2> SUFFICES ASSUME CacheInit PROVE LinksInv
    OBVIOUS
  <2>1. /\ Genesis \in Block /\ Genesis \in Branch[Genesis] /\ None \notin Block
        /\ \A a \in Block : NoNext[a] = None
    BY BranchBasics, TreeAssumption, TxAssumption DEF NoNext
  <2>2. LinkInv
    BY <2>1 DEF CacheInit, Init, LinkInv, OnChain
  <2>3. PlaceInv
    BY <2>1 DEF CacheInit, Init, PlaceInv, Calm
  <2> QED
    BY <2>2, <2>3 DEF LinksInv
<1>2. CachesInv /\ LinksInv /\ [CacheNext]_cvars => LinksInv'
  BY StepsOfNext, LinksNext DEF CachesInv, LinksInv
<1> QED
  BY <1>1, <1>2, CachesInductive, PTL DEF CacheSpec

(* pnext (main.h: IsInMainChain) and hashNext never lead out of the         *)
(* committed best chain, nor past one of its blocks, whatever fails and     *)
(* whenever the process ends: what a failed postponed block leaves behind   *)
(* are links that are missing, never wrong ones.                            *)
THEOREM LinksStayOnChain ==
  CacheSpec => [](OnChain(dbNext, dbBest) /\ (pc # "down" => OnChain(pnext, dbBest)))
<1>1. LinksInv => OnChain(dbNext, dbBest) /\ (pc # "down" => OnChain(pnext, dbBest))
  BY DEF LinksInv, LinkInv
<1> QED
  BY <1>1, LinksInductive, PTL

-----------------------------------------------------------------------------
(* The block size limit. *)

(* The window holds what GetBlockSize reads, and the limit is what it gives. *)
LimitInv ==
  /\ blocksizes \in Seq({0})
  /\ limited => MAX_BLOCK_SIZE = MIN_BLOCK_SIZE

(* A window without one of its zeros. *)
LEMMA ZerosLess ==
  ASSUME NEW s \in Seq({0}), NEW e
  PROVE  RemoveFirst(s, e) \in Seq({0})
<1>1. CASE Contains(s, e)
  <2> DEFINE I == { i \in 1..Len(s) : s[i] = e }
  <2>1. RemoveFirst(s, e) = RemoveAt(s, Min(I))
    BY <1>1 DEF RemoveFirst, SelectInSeq, Contains
  <2>2. I \in SUBSET Nat /\ I # {}
    BY <1>1 DEF Contains
  <2>3. Min(I) \in I
    <3> HIDE DEF I
    <3>1. \E n \in I : \A m \in I : n =< m
      BY <2>2, LeastNatural
    <3> QED
      BY <3>1 DEF Min
  <2>4. Min(I) \in 1..Len(s)
    BY <2>3
  <2> HIDE DEF I
  <2> QED
    BY <2>1, <2>4 DEF RemoveAt
<1>2. CASE ~ Contains(s, e)
  BY <1>2 DEF RemoveFirst, Contains
<1> QED
  BY <1>1, <1>2

(* GetBlockSizes puts only zeros in. *)
LEMMA ZerosRead ==
  ASSUME blocksizes \in Seq({0}), NEW b \in Block
  PROVE  GetBlockSizes(b) \in Seq({0})
<1>1. Filled(b) \in Seq({0})
  BY CacheAssumption DEF Filled, GetBlockSize
<1>2. Slid(b) \in Seq({0})
  <2> DEFINE rest == RemoveFirst(blocksizes, 0)
  <2>1. rest \in Seq({0})
    BY ZerosLess
  <2>2. LowerBound(rest, 0) = 0
    <3>1. { i \in 1..Len(rest) : rest[i] < 0 } = {}
      BY <2>1
    <3> QED
      BY <3>1, FS_EmptySet DEF LowerBound
  <2>3. Slid(b) = IF Contains(blocksizes, 0) THEN InsertAt(rest, 1, 0) ELSE blocksizes
    BY <2>2 DEF Slid, GetBlockSize
  <2> HIDE DEF rest
  <2>4. InsertAt(rest, 1, 0) \in Seq({0})
    <3> DEFINE u == SubSeq(rest, 1, 1 - 1)
               v == SubSeq(rest, 1, Len(rest))
               z == <<0>>
    <3>1. u \in Seq({0}) /\ v \in Seq({0}) /\ z \in Seq({0})
      BY <2>1
    <3> DEFINE w == u \o z
    <3>2. InsertAt(rest, 1, 0) = w \o v
      BY DEF InsertAt
    <3> HIDE DEF u, v, z
    <3>3. w \in Seq({0})
      BY <3>1
    <3> HIDE DEF w
    <3>4. w \o v \in Seq({0})
      BY <3>1, <3>3
    <3> QED
      BY <3>2, <3>4
  <2> QED
    BY <2>3, <2>4
<1> QED
  BY <1>1, <1>2 DEF GetBlockSizes

(* Sorting leaves them. *)
LEMMA ZerosSorted ==
  ASSUME NEW s \in Seq({0})
  PROVE  SortOnce(s) \in Seq({0})
<1> DEFINE D == 1..Len(s)
           id == [i \in D |-> i]
<1>1. id \in Bijection(D, D)
  BY DEF Bijection, Injection, Surjection, IsInjective
<1>2. [i \in D |-> s[id[i]]] \in Rearranged(s)
  BY <1>1 DEF Rearranged
<1>3. IsSorted([i \in D |-> s[id[i]]], =<)
  BY DEF IsSorted
<1>4. Ascending(s) \in Rearranged(s)
  BY <1>2, <1>3 DEF Ascending
<1>5. PICK p \in [D -> D] : Ascending(s) = [i \in D |-> s[p[i]]]
  BY <1>4 DEF Rearranged, Bijection, Injection
<1>6. Ascending(s) \in Seq({0})
  BY <1>5
<1> QED
  BY <1>6 DEF SortOnce

(* A window of zeros gives the least limit. *)
LEMMA ZerosLimit ==
  ASSUME NEW s \in Seq({0})
  PROVE  LimitFrom(MedianOf(s)) = MIN_BLOCK_SIZE
<1> DEFINE N == NUM_BLOCKS_FOR_MEDIAN_BLOCK
<1>1. N \in Nat \ {0} /\ MIN_BLOCK_SIZE \in Nat \ {0} /\ UIntMax \in Nat \ {0}
  BY CacheAssumption
<1>2. MedianOf(s) = 0
  <2>1. CASE Len(s) # N
    BY <2>1 DEF MedianOf
  <2>2. CASE Len(s) = N
    <3>1. \A i \in 1..N : s[i] = 0
      BY <2>2
    <3>2. /\ N % 2 = 1 => N \div 2 + 1 \in 1..N
          /\ N % 2 # 1 => N \div 2 \in 1..N /\ N \div 2 + 1 \in 1..N
      BY <1>1
    <3> QED
      BY <2>2, <3>1, <3>2 DEF MedianOf
  <2> QED
    BY <2>1, <2>2
<1> QED
  BY <1>1, <1>2 DEF LimitFrom

(* Every step leaves the window one of zeros. *)
LEMMA LimitInvNext ==
  ASSUME WorkInv, LimitInv, [CacheNext]_cvars
  PROVE  LimitInv'
<1> USE DEF caches, sizes
<1>1. CASE StartConnect
  <2> DEFINE b == ChildToward(cursor, target)
             s == GetBlockSizes(b)
  <2>1. b \in Block
    <3>1. pc = "connect" /\ cursor # target
      BY <1>1 DEF StartConnect
    <3> QED
      BY <3>1, ChildTowardFacts DEF WorkInv
  <2> HIDE DEF b
  <2>2. s \in Seq({0})
    BY <2>1, ZerosRead DEF LimitInv
  <2>3. \/ UNCHANGED sizes
        \/ /\ blocksizes' = SortOnce(s)
           /\ MAX_BLOCK_SIZE' = LimitFrom(MedianOf(blocksizes'))
    BY <1>1 DEF StartConnect, b
  <2> HIDE DEF s
  <2> QED
    BY <2>2, <2>3, ZerosSorted, ZerosLimit DEF LimitInv
<1>2. CASE CachedCrash
  BY <1>2 DEF CachedCrash, LimitInv
<1>3. CASE ~ StartConnect /\ ~ CachedCrash
  <2>1. UNCHANGED sizes
    BY <1>3 DEF CacheNext, ChainStep, CachedNewBest, QueryByHeight, GetBlockHash, CacheBlockHash,
                cvars
  <2> QED
    BY <2>1 DEF LimitInv
<1> QED
  BY <1>1, <1>2, <1>3

(* The limit that ConnectBlock computes for every block ("Adaptive block    *)
(* sizing depends on this", main.cpp:4279) never adapts: whatever the       *)
(* blocks, the window and NUM_BLOCKS_FOR_MEDIAN_BLOCK, it is MIN_BLOCK_SIZE *)
(* from the first block on, because GetBlockSize opens a file that no block *)
(* is written to.                                                           *)
THEOREM LimitNeverAdapts == CacheSpec => [](limited => MAX_BLOCK_SIZE = MIN_BLOCK_SIZE)
<1>1. CacheInit => LimitInv
  BY DEF CacheInit, LimitInv
<1>2. CachesInv /\ LimitInv /\ [CacheNext]_cvars => LimitInv'
  BY LimitInvNext DEF CachesInv
<1>3. LimitInv => (limited => MAX_BLOCK_SIZE = MIN_BLOCK_SIZE)
  BY DEF LimitInv
<1> QED
  BY <1>1, <1>2, <1>3, CachesInductive, PTL DEF CacheSpec

====
