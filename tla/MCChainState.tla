----------------------------- MODULE MCChainState -----------------------------
(***************************************************************************)
(* Small instances of ChainState.                                          *)
(*                                                                         *)
(*        a1 - a2 - a3          the first branch                           *)
(*      /    \                                                             *)
(*     g      x2 - x3           x2 spends an output twice                  *)
(*     |\                                                                  *)
(*     | b1 - b2 - b3           the second branch                          *)
(*     |    \                                                              *)
(*      \     c2                a fork of the second branch                *)
(*        y1                    y1 spends an immature coinbase             *)
(*                                                                         *)
(* The k_i are coinbases, shared by the blocks of a height (so that their  *)
(* records move when the chain does), s is the coinstake of b2.  tt and v  *)
(* contradict each other, u spends tt, w is independent of them.           *)
(***************************************************************************)
EXTENDS ChainState, TLC

CONSTANTS g, a1, a2, a3, b1, b2, b3, c2, x2, x3, y1
CONSTANTS k1, k2, k3, s, tt, u, v, w

(* The tree; a run shows the blocks of its Block, with these attributes. *)
ParentTable ==
  a1 :> g @@ a2 :> a1 @@ a3 :> a2 @@ b1 :> g @@ b2 :> b1 @@ b3 :> b2
    @@ c2 :> b1 @@ x2 :> a1 @@ x3 :> x2 @@ y1 :> g
BranchTable ==
  g :> {g} @@ a1 :> {g, a1} @@ a2 :> {g, a1, a2} @@ a3 :> {g, a1, a2, a3}
    @@ b1 :> {g, b1} @@ b2 :> {g, b1, b2} @@ b3 :> {g, b1, b2, b3}
    @@ c2 :> {g, b1, c2} @@ x2 :> {g, a1, x2} @@ x3 :> {g, a1, x2, x3}
    @@ y1 :> {g, y1}
HeightTable ==
  g :> 0 @@ a1 :> 1 @@ b1 :> 1 @@ y1 :> 1 @@ a2 :> 2 @@ b2 :> 2 @@ c2 :> 2
    @@ x2 :> 2 @@ a3 :> 3 @@ b3 :> 3 @@ x3 :> 3

(* Trust makes the lead change at every height; a2 and b2 are a tie. *)
TrustTable ==
  g :> 1 @@ a1 :> 2 @@ b1 :> 3 @@ y1 :> 4 @@ a2 :> 5 @@ b2 :> 5 @@ x2 :> 6
    @@ c2 :> 7 @@ a3 :> 8 @@ b3 :> 9 @@ x3 :> 10
VtxTable ==
  g :> <<>> @@ a1 :> <<k1>> @@ a2 :> <<k2, tt, u>> @@ a3 :> <<k3>>
    @@ b1 :> <<k1>> @@ b2 :> <<k2, s, w>> @@ b3 :> <<k3>>
    @@ c2 :> <<k2, v>> @@ x2 :> <<k2, tt, v>> @@ x3 :> <<k3, w>>
    @@ y1 :> <<k1, tt>>

ParentOf == [b \in Block \ {g} |-> ParentTable[b]]
BranchOf == [b \in Block |-> BranchTable[b]]
HeightOf == [b \in Block |-> HeightTable[b]]
TrustOf == [b \in Block |-> TrustTable[b]]
VtxOf == [b \in Block |-> VtxTable[b]]

AllTxs == {k1, k2, k3, s, tt, u, v, w}
AllOutPoints == {"k1_0", "k1_1", "k1_2", "t_0"}
OutTxOf == "k1_0" :> k1 @@ "k1_1" :> k1 @@ "k1_2" :> k1 @@ "t_0" :> tt
InputsOf ==
  k1 :> {} @@ k2 :> {} @@ k3 :> {} @@ s :> {"k1_2"} @@ tt :> {"k1_0"}
    @@ u :> {"t_0"} @@ v :> {"k1_0"} @@ w :> {"k1_1"}
KernelOf == s :> "k1_2"

=============================================================================
