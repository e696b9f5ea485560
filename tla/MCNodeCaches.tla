---- MODULE MCNodeCaches ----
(***************************************************************************)
(* A small instance of NodeCaches: a chain of two blocks, a branch from    *)
(* the first that overtakes it with its second block, and a block with     *)
(* more trust than all of them that is larger than MIN_BLOCK_SIZE.         *)
(*                                                                         *)
(*     g - a1 - a2                                                         *)
(*       \    \- b2 - b3 - b4                                              *)
(*        \- z1                                                            *)
(***************************************************************************)
EXTENDS NodeCaches

CONSTANTS g, a1, a2, b2, b3, b4, z1, k1, k2, k3, k4, tt, t1

ParentOf == a1 :> g @@ a2 :> a1 @@ b2 :> a1 @@ b3 :> b2 @@ b4 :> b3 @@ z1 :> g
BranchOf == g :> {g} @@ a1 :> {g, a1} @@ a2 :> {g, a1, a2} @@ b2 :> {g, a1, b2}
              @@ b3 :> {g, a1, b2, b3} @@ b4 :> {g, a1, b2, b3, b4} @@ z1 :> {g, z1}
HeightOf == [b \in Block |-> Cardinality(BranchOf[b]) - 1]
TrustOf == g :> 1 @@ a1 :> 2 @@ b2 :> 3 @@ a2 :> 4 @@ b3 :> 5 @@ b4 :> 6 @@ z1 :> 7
VtxOf == [b \in Block |-> IF b = g THEN <<>> ELSE
            <<<<k1, k2, k3, k4>>[HeightOf[b]]>> \o IF b \in {a2, b3} THEN <<tt>> ELSE <<>>]
SizeOf == g :> 1 @@ a1 :> 2 @@ a2 :> 2 @@ b2 :> 1 @@ b3 :> 3 @@ b4 :> 2 @@ z1 :> 5

Coinbases == {k1, k2, k3, k4}
AllTxs == Coinbases \cup {tt}
OutTxOf == "k1_0" :> k1
InputsOf == [t \in AllTxs |-> IF t = tt THEN {"k1_0"} ELSE {}]
NoKernels == <<>>

====
