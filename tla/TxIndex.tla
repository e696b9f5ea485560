------------------------------- MODULE TxIndex -------------------------------
(***************************************************************************)
(* The transaction index (CTxIndex records in the "tx" keyspace of         *)
(* txleveldb) and what connecting a transaction and disconnecting a block  *)
(* do to it.                                                               *)
(*                                                                         *)
(* A CTxIndex has the position of the transaction on disk, abstracted here *)
(* to the block that holds it, and one spent pointer per output, here the  *)
(* spending transaction.  An index is a pair of functions,                 *)
(*     pos   : Tx -> Block or None     (None: ReadTxIndex finds no record) *)
(*     spent : OutPoint -> Tx or None  (None: vSpent[n].IsNull())          *)
(* Signatures, amounts, rewards, sigops and timestamps are abstracted to   *)
(* the constant BadBlock.                                                  *)
(***************************************************************************)
EXTENDS BlockTree

CONSTANT nCoinbaseMaturity  \* confirmations before generated coins are spent

ASSUME MaturityAssumption == nCoinbaseMaturity \in Nat

NoTxIndexed == [t \in Tx |-> None]
NothingSpent == [o \in OutPoint |-> None]

(* IsConfirmedInNPrevBlocks: is block a among the last n blocks of the      *)
(* chain that ends in `from'?  The fault: one block too many.               *)
IsConfirmedInNPrevBlocksFault(a, from, n) ==
  a \in Branch[from] /\ Height[from] =< Height[a] + n
IsConfirmedInNPrevBlocks(a, from, n) ==
  a \in Branch[from] /\ Height[from] < Height[a] + n

(* The tests of FetchInputs and ConnectInputs that depend on the chain:     *)
(* every input's transaction is indexed, generated coins are mature, and    *)
(* the output is not spent.  The fault: spent outputs connect again.        *)
InputsConnectFault(t, pos, spent, from) ==
  \A o \in Inputs[t] :
    /\ pos[OutTx[o]] # None
    /\ OutTx[o] \in CoinBase \cup CoinStake =>
         ~ IsConfirmedInNPrevBlocks(pos[OutTx[o]], from, nCoinbaseMaturity)
InputsConnect(t, pos, spent, from) ==
  \A o \in Inputs[t] :
    /\ pos[OutTx[o]] # None
    /\ OutTx[o] \in CoinBase \cup CoinStake =>
         ~ IsConfirmedInNPrevBlocks(pos[OutTx[o]], from, nCoinbaseMaturity)
    /\ spent[o] = None

(* The index once the loop of ConnectBlock has passed transaction t of      *)
(* block b (mapQueuedChanges laid over the database): its prevouts are      *)
(* marked, and it gets a fresh record.                                      *)
ConnectPos(t, b, pos) == [pos EXCEPT ![t] = b]
ConnectSpent(t, spent) ==
  [o \in OutPoint |-> IF OutTx[o] = t THEN None
                        ELSE IF o \in Inputs[t] THEN t ELSE spent[o]]

(* CBlock::DisconnectBlock: transactions last to first, each one frees its  *)
(* prevouts (their records must be there) and loses its own record.  The    *)
(* faults: first to last, so that what a transaction of the block spends    *)
(* from another one is gone; prevouts stay marked as spent.                 *)
CanDisconnectFault(b, pos) ==
  \A t \in TxsOf(b) : \A o \in Inputs[t] : pos[OutTx[o]] \notin {None, b}
CanDisconnect(b, pos) ==
  \A t \in TxsOf(b) : \A o \in Inputs[t] : pos[OutTx[o]] # None
DisconnectPos(b, pos) ==
  [t \in Tx |-> IF t \in TxsOf(b) THEN None ELSE pos[t]]
DisconnectSpentFault(b, spent) ==
  [o \in OutPoint |-> IF OutTx[o] \in TxsOf(b) THEN None ELSE spent[o]]
DisconnectSpent(b, spent) ==
  [o \in OutPoint |->
     IF OutTx[o] \in TxsOf(b) \/ \E t \in TxsOf(b) : o \in Inputs[t]
       THEN None ELSE spent[o]]

(***************************************************************************)
(* Reference definitions, which know nothing of how the index is computed. *)
(* An occurrence <<a, i>> is the i-th transaction of block a.              *)
(***************************************************************************)
OccurrencesIn(b, n) == {b} \X (1..n)
Occurrences(b) ==
  UNION { OccurrencesIn(a, Len(Vtx[a])) : a \in ConnectedBlocks(b) }
TxAt(p) == Vtx[p[1]][p[2]]
Earlier(p, q) ==
  Height[p[1]] < Height[q[1]] \/ (p[1] = q[1] /\ p[2] < q[2])

(* The index describes exactly the occurrences O. *)
PosMatches(pos, O) ==
  /\ \A p \in O : pos[TxAt(p)] = p[1]
  /\ \A t \in Tx : pos[t] # None => \E p \in O : TxAt(p) = t
SpentMatches(spent, O) ==
  /\ \A p \in O : \A o \in Inputs[TxAt(p)] : spent[o] = TxAt(p)
  /\ \A o \in OutPoint : spent[o] # None =>
       \E p \in O : TxAt(p) = spent[o] /\ o \in Inputs[TxAt(p)]
IndexMatches(pos, spent, O) == PosMatches(pos, O) /\ SpentMatches(spent, O)

(* The occurrences O obey the rules of the ledger: nothing is spent twice,  *)
(* everything spent is created earlier, generated coins have matured.       *)
NoDoubleSpend(O) ==
  \A p, q \in O : p # q => Inputs[TxAt(p)] \cap Inputs[TxAt(q)] = {}
CreatedFor(p, q, o) ==
  /\ TxAt(p) = OutTx[o]
  /\ Earlier(p, q)
  /\ OutTx[o] \in CoinBase \cup CoinStake =>
       Height[q[1]] >= Height[p[1]] + nCoinbaseMaturity
InputsCreated(O) ==
  \A q \in O : \A o \in Inputs[TxAt(q)] : \E p \in O : CreatedFor(p, q, o)
ValidLedger(O) == NoDoubleSpend(O) /\ InputsCreated(O)

(* The chain that ends in b is valid. *)
ValidChain(b) == Branch[b] \cap BadBlock = {} /\ ValidLedger(Occurrences(b))

=============================================================================
