---------------------------- MODULE MCOrphanBlocks ----------------------------
(***************************************************************************)
(* Small instances of OrphanBlocks.                                        *)
(*                                                                         *)
(*     g - p1 - p2 - p3                                                    *)
(*           \                                                             *)
(*            q2 - q3        q2 has the stake of p2                        *)
(*             | \                                                         *)
(*             |  r3 - r4    r3 has the stake of q3                        *)
(*              \                                                          *)
(*               y3          and so has y3                                 *)
(***************************************************************************)
EXTENDS OrphanBlocks, TLC

CONSTANTS g, p1, p2, p3, q2, q3, r3, r4, y3
CONSTANTS k1, k2, k3, k4, s2, s3

ParentTable ==
  p1 :> g @@ p2 :> p1 @@ p3 :> p2 @@ q2 :> p1 @@ q3 :> q2 @@ r3 :> q2 @@ y3 :> q2
    @@ r4 :> r3
BranchTable ==
  g :> {g} @@ p1 :> {g, p1} @@ p2 :> {g, p1, p2} @@ p3 :> {g, p1, p2, p3}
    @@ q2 :> {g, p1, q2} @@ q3 :> {g, p1, q2, q3} @@ r3 :> {g, p1, q2, r3}
    @@ y3 :> {g, p1, q2, y3} @@ r4 :> {g, p1, q2, r3, r4}
HeightTable ==
  g :> 0 @@ p1 :> 1 @@ p2 :> 2 @@ q2 :> 2 @@ p3 :> 3 @@ q3 :> 3 @@ r3 :> 3 @@ y3 :> 3
    @@ r4 :> 4
VtxTable ==
  g :> <<>> @@ p1 :> <<k1>> @@ p2 :> <<k2, s2>> @@ p3 :> <<k3>> @@ q2 :> <<k2, s2>>
    @@ q3 :> <<k3, s3>> @@ r3 :> <<k3, s3>> @@ y3 :> <<k3, s3>> @@ r4 :> <<k4>>

ParentOf == [b \in Block \ {g} |-> ParentTable[b]]
BranchOf == [b \in Block |-> BranchTable[b]]
HeightOf == [b \in Block |-> HeightTable[b]]
VtxOf == [b \in Block |-> VtxTable[b]]
AllTxs == {k1, k2, k3, k4, s2, s3}
AllOutPoints == {"k1_0", "k1_1"}
OutTxOf == [o \in AllOutPoints |-> k1]
InputsOf == k1 :> {} @@ k2 :> {} @@ k3 :> {} @@ k4 :> {} @@ s2 :> {"k1_0"} @@ s3 :> {"k1_1"}
KernelOf == s2 :> "k1_0" @@ s3 :> "k1_1"
StakeTimeOf == s2 :> 2 @@ s3 :> 3

=============================================================================
