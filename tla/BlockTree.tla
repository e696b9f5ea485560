------------------------------ MODULE BlockTree ------------------------------
(***************************************************************************)
(* The tree of blocks a node may ever be shown, and the transactions in    *)
(* them.  Hashes are the elements themselves: a CBlockIndex* and the hash  *)
(* of its block are the same value here, because mapBlockIndex is a        *)
(* bijection between them.  Only blocks that pass the context-free tests   *)
(* of CBlock::CheckBlock and CBlock::AcceptBlock (first transaction is the *)
(* coinbase, no transaction twice in a block, the coinbase carries the     *)
(* height, positive trust) are elements of Block: the others are rejected  *)
(* before they change any state.                                           *)
(***************************************************************************)
EXTENDS Naturals, Sequences

CONSTANTS
  Block,      \* the blocks
  Genesis,    \* Params().GenesisBlock()
  Parent,     \* CBlockIndex::pprev of every block but Genesis
  Branch,     \* a block and all its ancestors: the chain that ends in it
  Height,     \* CBlockIndex::nHeight
  ChainTrust, \* CBlockIndex::nChainTrust
  Tx,         \* the transactions
  Vtx,        \* CBlock::vtx, a sequence of transactions
  CoinBase,   \* transactions for which CTransaction::IsCoinBase() holds
  CoinStake,  \* transactions for which CTransaction::IsCoinStake() holds
  OutPoint,   \* the outputs of the transactions (COutPoint)
  OutTx,      \* COutPoint::hash: the transaction that creates an output
  Inputs,     \* the prevouts of CTransaction::vin
  Kernel,     \* vin[0].prevout of a coinstake: the coins it stakes
  BadBlock,   \* blocks CBlock::ConnectBlock rejects for what they are
              \* (reward, signatures, values), whatever the chain below them
  None        \* the null hash, the null pointer, CDiskTxPos::IsNull()

(* The blocks form a tree rooted in Genesis; AddToBlockIndex computes       *)
(* height and trust from the parent's, and a block's trust is positive      *)
(* because its target is (CBlockIndex::GetBlockTrust).                      *)
ASSUME TreeAssumption ==
  /\ Genesis \in Block
  /\ Parent \in [Block \ {Genesis} -> Block]
  /\ Branch \in [Block -> SUBSET Block]
  /\ Height \in [Block -> Nat]
  /\ ChainTrust \in [Block -> Nat]
  /\ Branch[Genesis] = {Genesis}
  /\ Height[Genesis] = 0
  /\ \A b \in Block \ {Genesis} :
       /\ Branch[b] = Branch[Parent[b]] \cup {b}
       /\ Height[b] = Height[Parent[b]] + 1
       /\ ChainTrust[b] > ChainTrust[Parent[b]]

(* Transactions and outputs.  A coinbase has no prevout, any other          *)
(* transaction has one (CTransaction::CheckTransaction).                    *)
ASSUME TxAssumption ==
  /\ Vtx \in [Block -> Seq(Tx)]
  /\ CoinBase \subseteq Tx
  /\ CoinStake \subseteq Tx
  /\ OutTx \in [OutPoint -> Tx]
  /\ Inputs \in [Tx -> SUBSET OutPoint]
  /\ \A t \in Tx : t \in CoinBase <=> Inputs[t] = {}
  /\ Kernel \in [CoinStake -> OutPoint]
  /\ \A t \in CoinStake : Kernel[t] \in Inputs[t]
  /\ BadBlock \subseteq Block \ {Genesis}
  /\ None \notin Block /\ None \notin Tx

(* CheckBlock: the first transaction is the coinbase and no other is; no    *)
(* transaction occurs twice in a block.  AcceptBlock: the coinbase starts   *)
(* with the height, so blocks of different heights have different ones.     *)
ASSUME BlockAssumption ==
  \A b \in Block :
    /\ \A i \in 1..Len(Vtx[b]) : Vtx[b][i] \in CoinBase <=> i = 1
    /\ \A i, j \in 1..Len(Vtx[b]) : Vtx[b][i] = Vtx[b][j] => i = j
    /\ \A c \in Block :
         (Height[b] # Height[c] /\ Len(Vtx[b]) > 0 /\ Len(Vtx[c]) > 0)
            => Vtx[b][1] # Vtx[c][1]

(* CBlock::IsProofOfStake: the second transaction is a coinstake. *)
IsProofOfStake(b) == Len(Vtx[b]) > 1 /\ Vtx[b][2] \in CoinStake

(* The set of transactions of a block. *)
TxsOf(b) == { Vtx[b][i] : i \in 1..Len(Vtx[b]) }

(* The transactions that ConnectBlock has put into the index when the best  *)
(* chain ends in b.  SetBestChain does not connect the genesis block, so    *)
(* its coinbase never enters the index.                                     *)
ConnectedBlocks(b) == Branch[b] \ {Genesis}
ChainTxs(b) == UNION { TxsOf(a) : a \in ConnectedBlocks(b) }

(* The block after a on the way from a up to its descendant b. *)
ChildToward(a, b) == CHOOSE c \in ConnectedBlocks(b) : Parent[c] = a

=============================================================================
