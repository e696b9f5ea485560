---- MODULE TrustedChain ----
(***************************************************************************)
(* What the chain state of a node promises, with no database, no index, no *)
(* memory and no reorganisation in it: there is one best chain, it always  *)
(* obeys the rules of the ledger, and it is only ever replaced, in one     *)
(* step, by a valid chain with more trust.                                 *)
(***************************************************************************)
EXTENDS TxIndex

VARIABLE tip  \* the block the best chain ends in

Start == tip = Genesis

Adopt(b) ==
  /\ ChainTrust[tip] < ChainTrust[b]
  /\ ValidChain(b)
  /\ tip' = b

AnyAdoption == \E b \in Block : Adopt(b)

OnlyBetterChains == Start /\ [][AnyAdoption]_tip

====
