------------------------------- MODULE MemPool -------------------------------
(***************************************************************************)
(* CTxMemPool and the admission of loose transactions to it.  A pool is a  *)
(* record of the two maps of the class: mapTx, here the set of its keys,   *)
(* and mapNextTx, the set of its entries <<outpoint, transaction that      *)
(* spends it>>.                                                            *)
(***************************************************************************)
EXTENDS TxIndex

CONSTANT Standard  \* transactions that pass the relay policy: IsStandardTx,
                   \* AreInputsStandard, sigop limit, fee rules

ASSUME StandardAssumption == Standard \subseteq Tx

EmptyPool == [mapTx |-> {}, mapNextTx |-> {}]

(* The entries of mapNextTx that have a key in O. *)
Spending(pool, O) == { e \in pool.mapNextTx : e[1] \in O }

addUnchecked(pool, t) ==
  [mapTx |-> pool.mapTx \cup {t},
   mapNextTx |-> (pool.mapNextTx \ Spending(pool, Inputs[t]))
                    \cup (Inputs[t] \X {t})]

(* The pool without the transactions of D, and without the mapNextTx        *)
(* entries of the outpoints they spend.  The fault: the entries stay.       *)
WithoutFault(pool, D) == [pool EXCEPT !.mapTx = @ \ D]
Without(pool, D) ==
  [mapTx |-> pool.mapTx \ D,
   mapNextTx |-> pool.mapNextTx \ Spending(pool, UNION { Inputs[t] : t \in D })]

(* The transactions that remove(t, true) reaches: t and, through mapNextTx, *)
(* whatever spends an output of one it has reached.                         *)
Reached(pool, t) ==
  LET Closed(S) == \A e \in pool.mapNextTx : OutTx[e[1]] \in S => e[2] \in S
  IN  { x \in pool.mapTx : \A S \in SUBSET pool.mapTx :
                             (t \in S /\ Closed(S)) => x \in S }

(* CTxMemPool::remove without its recursion.  The fault: the test whether   *)
(* the pool has the transaction is inverted.                                *)
removeFault(pool, t) == IF t \notin pool.mapTx THEN Without(pool, {t}) ELSE pool
remove(pool, t) == IF t \in pool.mapTx THEN Without(pool, {t}) ELSE pool

removeConflicts(pool, t) ==
  LET conflicts == { e[2] : e \in Spending(pool, Inputs[t]) } \ {t}
  IN  Without(pool, UNION { Reached(pool, c) : c \in conflicts })

(* AcceptToMemoryPool accepts t when the committed index is (pos, spent)    *)
(* and pindexBest is `best'.  Both the look-up of the inputs and their      *)
(* test go to the index: an input created by a pool transaction counts as   *)
(* missing.                                                                 *)
Acceptable(pool, t, pos, spent, best) ==
  /\ t \notin CoinBase \cup CoinStake
  /\ t \in Standard
  /\ t \notin pool.mapTx
  /\ Spending(pool, Inputs[t]) = {}
  /\ pos[t] = None
  /\ InputsConnect(t, pos, spent, best)

AcceptToMemoryPool(pool, t, pos, spent, best) ==
  IF Acceptable(pool, t, pos, spent, best) THEN addUnchecked(pool, t) ELSE pool

(* mapNextTx says exactly which outpoints the pool spends, and by what, and *)
(* no outpoint is spent by two transactions.                                *)
NextTxMatches(pool) ==
  /\ pool.mapNextTx = UNION { Inputs[t] \X {t} : t \in pool.mapTx }
  /\ \A d, e \in pool.mapNextTx : d[1] = e[1] => d = e

=============================================================================
