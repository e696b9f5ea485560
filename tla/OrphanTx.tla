---- MODULE OrphanTx ----
(***************************************************************************)
(* Transactions whose inputs are not there yet.  Like the memory pool, the *)
(* orphans are a value: a record of mapOrphanTransactions, here the set of *)
(* its keys, and mapOrphanTransactionsByPrev, the set of its entries       *)
(* <<transaction spent, orphan that spends it>>.                           *)
(***************************************************************************)
EXTENDS MemPool, FiniteSets

CONSTANT
  MAX_ORPHAN_TRANSACTIONS  \* orphan transactions kept in memory

ASSUME OrphanTxAssumption == MAX_ORPHAN_TRANSACTIONS \in Nat

NoOrphanTxs == [mapOrphanTransactions |-> {}, mapOrphanTransactionsByPrev |-> {}]

(* The entries of mapOrphanTransactionsByPrev for an orphan. *)
PrevEntries(t) == { OutTx[o] : o \in Inputs[t] } \X {t}

(* The transactions have at most 5000 bytes: larger ones are ignored. *)
AddOrphanTx(orphans, t) ==
  IF t \in orphans.mapOrphanTransactions
    THEN orphans
    ELSE [mapOrphanTransactions |-> orphans.mapOrphanTransactions \cup {t},
          mapOrphanTransactionsByPrev |->
            orphans.mapOrphanTransactionsByPrev \cup PrevEntries(t)]

(* EraseOrphanTx for each transaction of D.  The fault: only one of the     *)
(* entries of an orphan with several inputs goes.                           *)
EraseOrphanTxsFault(orphans, D) ==
  [mapOrphanTransactions |-> orphans.mapOrphanTransactions \ D,
   mapOrphanTransactionsByPrev |->
     orphans.mapOrphanTransactionsByPrev
       \ { CHOOSE e \in PrevEntries(t) : TRUE : t \in D }]
EraseOrphanTxs(orphans, D) ==
  [mapOrphanTransactions |-> orphans.mapOrphanTransactions \ D,
   mapOrphanTransactionsByPrev |->
     orphans.mapOrphanTransactionsByPrev \ UNION { PrevEntries(t) : t \in D }]

(* LimitOrphanTxSize: what is left when random orphans were evicted, as     *)
(* many as there are too many.                                              *)
LimitOrphanTxSize(orphans) ==
  { EraseOrphanTxs(orphans, D) : D \in
      { S \in SUBSET orphans.mapOrphanTransactions :
          LET left == Cardinality(orphans.mapOrphanTransactions \ S)
          IN  \/ S = {} /\ left =< MAX_ORPHAN_TRANSACTIONS
              \/ S # {} /\ left = MAX_ORPHAN_TRANSACTIONS } }

(* The orphans to look at again when t was accepted. *)
OrphansByPrev(orphans, t) ==
  { e[2] : e \in { x \in orphans.mapOrphanTransactionsByPrev : x[1] = t } }

(* AcceptToMemoryPool comes as far as the inputs, and one of them is not in *)
(* the index (pfMissingInputs).                                             *)
MissingInputs(pool, t, pos) ==
  /\ t \notin CoinBase \cup CoinStake
  /\ t \in Standard
  /\ t \notin pool.mapTx
  /\ Spending(pool, Inputs[t]) = {}
  /\ pos[t] = None
  /\ \E o \in Inputs[t] : pos[OutTx[o]] = None

(* The two maps describe the same orphans. *)
OrphanIndexMatches(orphans) ==
  orphans.mapOrphanTransactionsByPrev
    = UNION { PrevEntries(t) : t \in orphans.mapOrphanTransactions }

====
