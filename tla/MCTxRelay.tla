---- MODULE MCTxRelay ----
(***************************************************************************)
(* A small instance of TxRelay.                                            *)
(*                                                                         *)
(*     g - b1 - b2 - b3     b3 confirms p                                  *)
(*                                                                         *)
(* p and d spend the same output of b1's coinbase k1; c spends p and a     *)
(* second output of k1.  Before b1 all three are orphans.                  *)
(***************************************************************************)
EXTENDS TxRelay, TLC

CONSTANTS g, b1, b2, b3, k1, k2, k3, p, d, c, f1, f2

ParentOf == b1 :> g @@ b2 :> b1 @@ b3 :> b2
BranchOf == g :> {g} @@ b1 :> {g, b1} @@ b2 :> {g, b1, b2} @@ b3 :> {g, b1, b2, b3}
HeightOf == [b \in Block |-> Cardinality(BranchOf[b]) - 1]
VtxOf == g :> <<>> @@ b1 :> <<k1>> @@ b2 :> <<k2>> @@ b3 :> <<k3, p>>
OutTxOf == "k1_0" :> k1 @@ "k1_1" :> k1 @@ "p_0" :> p
InputsOf == k1 :> {} @@ k2 :> {} @@ k3 :> {} @@ p :> {"k1_0"} @@ d :> {"k1_0"}
              @@ c :> {"p_0", "k1_1"}
FirstInputOf == p :> "k1_0" @@ d :> "k1_0" @@ c :> "p_0"
NoKernels == <<>>

(* From b2 on the output is old enough for a lock, whose height is then 5:  *)
(* one vote is for another height.                                          *)
Votes == {<<f1, p, 5>>, <<f2, p, 5>>, <<f2, p, 6>>, <<f1, d, 5>>, <<f2, d, 5>>}

====
