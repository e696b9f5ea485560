---------------------------- MODULE MemPool_proofs ----------------------------
(***************************************************************************)
(* The operations of the memory pool keep mapTx and mapNextTx in step.     *)
(***************************************************************************)
EXTENDS MemPool, TLAPS

(* A transaction whose outpoints nothing in the pool spends can be added    *)
(* (addUnchecked after the conflict test of AcceptToMemoryPool).            *)
LEMMA AddKeepsNext ==
  ASSUME NEW pool, NEW t, NextTxMatches(pool), Spending(pool, Inputs[t]) = {}
  PROVE  NextTxMatches(addUnchecked(pool, t))
<1> DEFINE new == addUnchecked(pool, t)
<1>1. /\ new.mapTx = pool.mapTx \cup {t}
      /\ new.mapNextTx = pool.mapNextTx \cup (Inputs[t] \X {t})
  BY DEF addUnchecked
<1>2. new.mapNextTx = UNION { Inputs[x] \X {x} : x \in new.mapTx }
  BY <1>1 DEF NextTxMatches
<1>3. ASSUME NEW d \in new.mapNextTx, NEW e \in new.mapNextTx, d[1] = e[1]
      PROVE  d = e
  <2>1. \A x \in Inputs[t] \X {t} : x = <<x[1], t>> /\ x[1] \in Inputs[t]
    OBVIOUS
  <2>2. \A x \in pool.mapNextTx : x[1] \notin Inputs[t]
    BY DEF Spending
  <2> QED
    BY <1>1, <1>3, <2>1, <2>2 DEF NextTxMatches
<1> QED
  BY <1>2, <1>3 DEF NextTxMatches

(* Erasing transactions of the pool erases exactly their entries of         *)
(* mapNextTx (CTxMemPool::remove).                                          *)
LEMMA WithoutKeepsNext ==
  ASSUME NEW pool, NEW D \in SUBSET pool.mapTx, NextTxMatches(pool)
  PROVE  NextTxMatches(Without(pool, D))
<1> DEFINE new == Without(pool, D)
           gone == UNION { Inputs[t] : t \in D }
<1>1. /\ new.mapTx = pool.mapTx \ D
      /\ new.mapNextTx = { e \in pool.mapNextTx : e[1] \notin gone }
  BY DEF Without, Spending
<1>2. ASSUME NEW e \in pool.mapNextTx
      PROVE  \E x \in pool.mapTx : e \in Inputs[x] \X {x} /\ e = <<e[1], x>>
                                   /\ e[1] \in Inputs[x]
  BY DEF NextTxMatches
<1>3. ASSUME NEW x \in pool.mapTx, NEW o \in Inputs[x]
      PROVE  <<o, x>> \in pool.mapNextTx
  BY DEF NextTxMatches
<1>4. ASSUME NEW x \in pool.mapTx, NEW o \in Inputs[x]
      PROVE  o \in gone <=> x \in D
  <2>1. ASSUME NEW y \in D, o \in Inputs[y] PROVE x = y
    <3>1. <<o, x>> \in pool.mapNextTx /\ <<o, y>> \in pool.mapNextTx
      BY <1>3, <2>1
    <3>2. <<o, x>>[1] = <<o, y>>[1]
      OBVIOUS
    <3> QED
      BY <3>1, <3>2 DEF NextTxMatches
  <2> QED
    BY <2>1
<1>5. new.mapNextTx = UNION { Inputs[x] \X {x} : x \in new.mapTx }
  <2>1. ASSUME NEW e \in new.mapNextTx
        PROVE  \E x \in new.mapTx : e \in Inputs[x] \X {x}
    BY <1>1, <1>2, <1>4
  <2>2. ASSUME NEW x \in new.mapTx, NEW e \in Inputs[x] \X {x}
        PROVE  e \in new.mapNextTx
    <3>1. e = <<e[1], x>> /\ e[1] \in Inputs[x] /\ x \in pool.mapTx \ D
      BY <1>1
    <3> QED
      BY <1>1, <1>3, <1>4, <3>1
  <2> QED
    BY <2>1, <2>2
<1> QED
  BY <1>1, <1>5 DEF NextTxMatches

(* The three operations of the pool that SetBestChain and the transaction   *)
(* handlers use.                                                            *)
LEMMA PoolOperationsKeepNext ==
  ASSUME NEW pool, NextTxMatches(pool), NEW t
  PROVE  /\ NextTxMatches(remove(pool, t))
         /\ NextTxMatches(removeConflicts(pool, t))
         /\ \A pos, spent, best :
              NextTxMatches(AcceptToMemoryPool(pool, t, pos, spent, best))
<1>1. NextTxMatches(remove(pool, t))
  BY WithoutKeepsNext DEF remove
<1>2. NextTxMatches(removeConflicts(pool, t))
  <2>1. \A C : UNION { Reached(pool, c) : c \in C } \in SUBSET pool.mapTx
    BY DEF Reached
  <2> QED
    BY <2>1, WithoutKeepsNext DEF removeConflicts
<1>3. \A pos, spent, best : NextTxMatches(AcceptToMemoryPool(pool, t, pos, spent, best))
  BY AddKeepsNext DEF AcceptToMemoryPool, Acceptable
<1> QED
  BY <1>1, <1>2, <1>3

=============================================================================
