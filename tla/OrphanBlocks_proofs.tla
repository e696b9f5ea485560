------------------------- MODULE OrphanBlocks_proofs -------------------------
(***************************************************************************)
(* The invariants of the orphan pool, for every block tree, every limit    *)
(* and every choice of blocks that are rejected or do not connect.         *)
(***************************************************************************)
EXTENDS OrphanBlocks, TxIndex_proofs, FiniteSetTheorems

(***************************************************************************)
(* The inductive invariant.  What the properties say of the moments when   *)
(* ProcessBlock returns has to be said of every round of its work queue.   *)
(***************************************************************************)

(* A request is either still to be sent or on its way, and Genesis is       *)
(* always in the index.                                                     *)
RequestsApart == mapAskFor \cap asked = {} /\ Genesis \in mapBlockIndex

(* mapOrphanBlocksByPrev may have more than mapOrphanBlocks only for the    *)
(* block at the front of the queue: the orphans of it that are done.        *)
LeftoversOfHead ==
  /\ mapOrphanBlocks \subseteq mapOrphanBlocksByPrev
  /\ \A o \in mapOrphanBlocksByPrev \ mapOrphanBlocks :
       vWorkQueue # <<>> /\ Parent[o] = Head(vWorkQueue)
  /\ mapOrphanBlocks \cap mapBlockIndex = {}

(* An orphan whose parent is in the index will be processed, or its parent  *)
(* does not connect.                                                        *)
InQueue(b) == \E i \in 1..Len(vWorkQueue) : vWorkQueue[i] = b
WillBeProcessed ==
  \A o \in mapOrphanBlocks :
    Parent[o] \in mapBlockIndex => Parent[o] \in Unconnectable \/ InQueue(Parent[o])

(* PruneOrphanBlocks looks at the larger of the two maps. *)
ByPrevBounded ==
  /\ IsFiniteSet(mapOrphanBlocksByPrev)
  /\ Cardinality(mapOrphanBlocksByPrev) =< nMaxOrphanBlocks + 1

OrphanInv ==
  TypeOK /\ RequestsApart /\ LeftoversOfHead /\ WillBeProcessed /\ ByPrevBounded
    /\ OrphanStakesHeld

-----------------------------------------------------------------------------
(* The operators. *)

(* The block WantedByOrphan finds is a block of the branch; it is Genesis   *)
(* only if the whole branch above Genesis is in the pool.                   *)
LEMMA WantedByOrphanFacts ==
  ASSUME NEW b \in Block, NEW pool, Genesis \notin pool
  PROVE  LET w == WantedByOrphan(b, pool)
         IN  /\ w \in Branch[b] \ pool
             /\ w = Genesis => Branch[b] \ {Genesis} \subseteq pool
<1> DEFINE R == Branch[b] \ pool
           D == { n \in Nat : \E a \in R : n = Height[b] - Height[a] }
<1>1. \A a \in Branch[b] : a \in Block /\ Height[a] \in Nat /\ Height[a] =< Height[b]
  BY BranchOrder, BranchBasics
<1>2. Height[b] \in Nat /\ Genesis \in R
  BY BranchBasics
<1>3. \A a \in R : Height[b] - Height[a] \in D
  BY <1>1, <1>2
<1>4. PICK n \in D : \A m \in D : n =< m
  <2>1. D \in SUBSET Nat /\ D # {}
    BY <1>2, <1>3
  <2> HIDE DEF D
  <2> QED
    BY <2>1, LeastNatural
<1>5. PICK a \in R : n = Height[b] - Height[a]
  BY <1>4
<1>6. \A c \in R : Height[c] =< Height[a]
  BY <1>1, <1>2, <1>3, <1>4, <1>5
<1>7. /\ WantedByOrphan(b, pool) \in R
      /\ \A c \in R : Height[c] =< Height[WantedByOrphan(b, pool)]
  BY <1>6 DEF WantedByOrphan
<1>8. ASSUME WantedByOrphan(b, pool) = Genesis, NEW c \in R PROVE c = Genesis
  <2>1. Height[c] =< Height[Genesis] /\ Height[Genesis] = 0 /\ Height[c] \in Nat
    BY <1>1, <1>7, <1>8, TreeAssumption
  <2> QED
    BY <1>2, <2>1, BranchOrder
<1> QED
  BY <1>7, <1>8

(* A work queue of blocks that are in the index. *)
LEMMA QueueFacts ==
  ASSUME NEW S, NEW q \in Seq(S), NEW T, S \subseteq T
  PROVE  /\ q \in Seq(T)
         /\ \A x \in T : /\ Append(q, x) \in Seq(T)
                         /\ Append(q, x) # <<>>
                         /\ Len(Append(q, x)) = Len(q) + 1
                         /\ Append(q, x)[Len(q) + 1] = x
                         /\ \A i \in 1..Len(q) : Append(q, x)[i] = q[i]
                         /\ q # <<>> => Head(Append(q, x)) = Head(q)
                         /\ <<x>> \in Seq(T)
         /\ Len(q) \in Nat
         /\ q # <<>> => /\ Head(q) \in S
                        /\ Tail(q) \in Seq(S)
                        /\ Head(q) = q[1]
                        /\ Len(q) > 0
                        /\ Len(Tail(q)) = Len(q) - 1
                        /\ \A i \in 1..Len(q) - 1 : Tail(q)[i] = q[i + 1]
<1>1. q \in Seq(T)
  OBVIOUS
<1>2. ASSUME NEW x \in T PROVE Append(q, x) # <<>>
  BY <1>1
<1> QED
  BY <1>1, <1>2

-----------------------------------------------------------------------------
(* The initial state. *)
LEMMA InitOrphanInv == Init => OrphanInv
<1> SUFFICES ASSUME Init PROVE OrphanInv
  OBVIOUS
<1>1. IsFiniteSet({}) /\ Cardinality({}) = 0
  BY FS_EmptySet
<1>2. TypeOK
  BY TreeAssumption DEF Init, TypeOK
<1>3. ByPrevBounded
  BY <1>1, OrphanAssumption DEF Init, ByPrevBounded
<1> QED
  BY <1>2, <1>3 DEF Init, OrphanInv, RequestsApart, LeftoversOfHead, WillBeProcessed,
                    OrphanStakesHeld

-----------------------------------------------------------------------------
(* The steps. *)

(* ProcessBlock returns early. *)
LEMMA RefuseStep ==
  ASSUME OrphanInv, NEW b \in Block \ {Genesis}, Refuse(b)
  PROVE  OrphanInv'
BY DEF OrphanInv, Refuse, index, orphans, askfor, TypeOK, RequestsApart, LeftoversOfHead,
       WillBeProcessed, InQueue, ByPrevBounded, OrphanStakesHeld

(* The getdata message goes out. *)
LEMMA SendGetDataStep ==
  ASSUME OrphanInv, NEW b \in Block \ {Genesis}, SendGetData(b)
  PROVE  OrphanInv'
<1>1. /\ UNCHANGED <<mapBlockIndex, setStakeSeen, mapOrphanBlocks, mapOrphanBlocksByPrev,
                     setStakeSeenOrphan, vWorkQueue>>
      /\ b \in mapAskFor /\ mapAskFor' = mapAskFor \ {b}
      /\ \/ setAskFor' = setAskFor \ {b} /\ asked' = asked
         \/ setAskFor' = setAskFor /\ asked' = asked \cup {b}
  BY DEF SendGetData, index, orphans
<1>2. TypeOK' /\ RequestsApart'
  BY <1>1 DEF OrphanInv, TypeOK, RequestsApart
<1> QED
  BY <1>1, <1>2 DEF OrphanInv, LeftoversOfHead, WillBeProcessed, InQueue, ByPrevBounded,
                    OrphanStakesHeld

(* What AddToBlockIndex leaves behind, whatever AcceptBlock returns. *)
LEMMA IndexGrows ==
  ASSUME TypeOK, NEW b \in Block, NEW outcome \in Outcomes(b), AddToBlockIndex(b, outcome)
  PROVE  /\ mapBlockIndex \subseteq mapBlockIndex'
         /\ mapBlockIndex' \subseteq mapBlockIndex \cup {b}
         /\ mapBlockIndex' \subseteq Block
         /\ outcome = "accepted" => b \in mapBlockIndex'
         /\ outcome # "accepted" /\ b \in mapBlockIndex' => b \in mapBlockIndex \cup Unconnectable
BY DEF AddToBlockIndex, Outcomes, TypeOK, index

(* A block whose parent is known. *)
LEMMA AcceptStep ==
  ASSUME OrphanInv, NEW b \in Block \ {Genesis}, Accept(b)
  PROVE  OrphanInv'
<1>1. PICK outcome \in Outcomes(b) :
        /\ AddToBlockIndex(b, outcome)
        /\ vWorkQueue' = IF outcome = "accepted" THEN <<b>> ELSE <<>>
  BY DEF Accept
<1>2. /\ UNCHANGED <<mapOrphanBlocks, mapOrphanBlocksByPrev, setStakeSeenOrphan,
                     mapAskFor, setAskFor>>
      /\ asked' = asked \ {b} /\ vWorkQueue = <<>>
      /\ b \notin mapBlockIndex /\ b \notin mapOrphanBlocks
  BY DEF Accept, Wanted, orphans, askfor
<1>3. TypeOK
  BY DEF OrphanInv
<1>4. /\ mapBlockIndex \subseteq mapBlockIndex'
      /\ mapBlockIndex' \subseteq mapBlockIndex \cup {b}
      /\ mapBlockIndex' \subseteq Block
      /\ outcome = "accepted" => b \in mapBlockIndex'
      /\ outcome # "accepted" /\ b \in mapBlockIndex' => b \in Unconnectable
  BY <1>1, <1>2, <1>3, IndexGrows
<1>5. TypeOK' /\ RequestsApart'
  BY <1>1, <1>2, <1>3, <1>4 DEF OrphanInv, TypeOK, RequestsApart
<1>6. LeftoversOfHead'
  BY <1>2, <1>4 DEF OrphanInv, LeftoversOfHead
<1>7. WillBeProcessed'
  <2> SUFFICES ASSUME NEW o \in mapOrphanBlocks, Parent[o] \in mapBlockIndex'
               PROVE  Parent[o] \in Unconnectable \/ InQueue(Parent[o])'
    BY <1>2 DEF WillBeProcessed
  <2>1. CASE Parent[o] \in mapBlockIndex
    <3>1. ~ InQueue(Parent[o])
      BY <1>2 DEF InQueue
    <3> QED
      BY <2>1, <3>1 DEF OrphanInv, WillBeProcessed
  <2>2. CASE Parent[o] = b /\ outcome = "accepted"
    BY <1>1, <2>2 DEF InQueue
  <2>3. CASE Parent[o] = b /\ outcome # "accepted"
    BY <1>4, <2>3
  <2> QED
    BY <1>4, <2>1, <2>2, <2>3
<1> QED
  BY <1>2, <1>5, <1>6, <1>7 DEF OrphanInv, ByPrevBounded, OrphanStakesHeld

(* A block whose parent is unknown. *)
LEMMA AddOrphanStep ==
  ASSUME OrphanInv, NEW b \in Block \ {Genesis}, AddOrphan(b)
  PROVE  OrphanInv'
<1>1. PICK gone \in Prunable :
        /\ mapOrphanBlocks' = (mapOrphanBlocks \ {gone}) \cup {b}
        /\ mapOrphanBlocksByPrev' = (mapOrphanBlocksByPrev \ {gone}) \cup {b}
        /\ setStakeSeenOrphan' =
             (setStakeSeenOrphan \ (IF gone = None THEN {} ELSE {PrunedStake(gone)}))
               \cup (IF IsProofOfStake(b) THEN {GetProofOfStake(b)} ELSE {})
  BY DEF AddOrphan
<1> DEFINE w == WantedByOrphan(b, mapOrphanBlocks')
<1>2. /\ UNCHANGED <<mapBlockIndex, setStakeSeen, vWorkQueue>>
      /\ asked' = asked \ {b} /\ vWorkQueue = <<>>
      /\ b \notin mapBlockIndex /\ b \notin mapOrphanBlocks
      /\ Parent[b] \notin mapBlockIndex
      /\ mapAskFor' = mapAskFor \cup ({w} \ setAskFor)
      /\ setAskFor' = setAskFor \cup {w}
  BY DEF AddOrphan, Wanted, AskFor, index
<1>3. /\ mapOrphanBlocks = mapOrphanBlocksByPrev
      /\ mapOrphanBlocks \subseteq Block \ {Genesis}
      /\ mapOrphanBlocks \cap mapBlockIndex = {}
      /\ Genesis \in mapBlockIndex
      /\ \A o \in mapOrphanBlocks : Parent[o] \in mapBlockIndex => Parent[o] \in Unconnectable
  <2>1. \A o \in mapOrphanBlocks : ~ InQueue(Parent[o])
    BY <1>2 DEF InQueue
  <2> QED
    BY <1>2, <2>1 DEF OrphanInv, TypeOK, LeftoversOfHead, RequestsApart, WillBeProcessed
<1>4. w \in Block \ {Genesis}
  <2>1. Genesis \notin mapOrphanBlocks'
    BY <1>1, <1>3
  <2>2. /\ w \in Branch[b] /\ Branch[b] \subseteq Block
        /\ w = Genesis => Branch[b] \ {Genesis} \subseteq mapOrphanBlocks'
    BY <2>1, WantedByOrphanFacts, BranchBasics
  <2>3. PICK x \in ConnectedBlocks(b) : Parent[x] = Genesis
    BY ChildExists, BranchBasics
  <2>4. x \in mapOrphanBlocks' => x \in mapOrphanBlocks
    BY <1>1, <1>2, <1>3, <2>3
  <2>5. x \notin mapOrphanBlocks
    <3>1. Genesis \notin Unconnectable
      BY TreeAssumption, TxAssumption DEF Unconnectable
    <3> QED
      BY <1>3, <2>3, <3>1
  <2> QED
    BY <2>2, <2>3, <2>4, <2>5 DEF ConnectedBlocks
<1> HIDE DEF w
<1>5. TypeOK'
  BY <1>1, <1>2, <1>3, <1>4 DEF OrphanInv, TypeOK
<1>6. RequestsApart'
  BY <1>2 DEF OrphanInv, TypeOK, RequestsApart
<1>7. LeftoversOfHead'
  BY <1>1, <1>2, <1>3 DEF LeftoversOfHead
<1>8. WillBeProcessed'
  BY <1>1, <1>2, <1>3 DEF WillBeProcessed
<1>9. ByPrevBounded'
  <2> DEFINE M == mapOrphanBlocksByPrev
  <2>1. /\ IsFiniteSet(M) /\ Cardinality(M) \in Nat
        /\ Cardinality(M) =< nMaxOrphanBlocks + 1 /\ b \notin M
    BY <1>2, <1>3, FS_CardinalityType DEF OrphanInv, ByPrevBounded
  <2>2. /\ IsFiniteSet(M \ {gone})
        /\ Cardinality(M \ {gone}) =
             IF gone \in M THEN Cardinality(M) - 1 ELSE Cardinality(M)
    BY <2>1, FS_RemoveElement
  <2>3. /\ IsFiniteSet(M')
        /\ Cardinality(M') = Cardinality(M \ {gone}) + 1
    BY <1>1, <2>1, <2>2, FS_AddElement
  <2>4. CASE OverLimit
    BY <1>1, <1>3, <2>1, <2>2, <2>3, <2>4, OrphanAssumption DEF Prunable, ByPrevBounded
  <2>5. CASE ~ OverLimit
    BY <2>1, <2>2, <2>3, <2>5, OrphanAssumption DEF OverLimit, ByPrevBounded
  <2> QED
    BY <2>4, <2>5
<1>10. OrphanStakesHeld'
  <2> SUFFICES ASSUME NEW k \in setStakeSeenOrphan'
               PROVE  \E o \in mapOrphanBlocks' : k = GetProofOfStake(o)
    BY DEF OrphanStakesHeld, GetProofOfStake, IsProofOfStake
  <2>1. CASE k = GetProofOfStake(b)
    BY <1>1, <2>1
  <2>2. CASE k # GetProofOfStake(b)
    <3>1. /\ k \in setStakeSeenOrphan
          /\ gone # None => k # GetProofOfStake(gone)
      BY <1>1, <2>2 DEF PrunedStake
    <3>2. PICK o \in mapOrphanBlocks : k = GetProofOfStake(o)
      BY <3>1 DEF OrphanInv, OrphanStakesHeld
    <3>3. o # gone
      BY <1>3, <3>1, <3>2, TxAssumption
    <3> QED
      BY <1>1, <3>2, <3>3
  <2> QED
    BY <2>1, <2>2
<1> QED
  BY <1>5, <1>6, <1>7, <1>8, <1>9, <1>10 DEF OrphanInv

(* One orphan of the block at the front of the queue. *)
LEMMA ProcessOrphanStep ==
  ASSUME OrphanInv, NEW o \in mapOrphanBlocks, ProcessOrphan(o)
  PROVE  OrphanInv'
<1> DEFINE q == vWorkQueue
<1>1. PICK outcome \in Outcomes(o) :
        /\ AddToBlockIndex(o, outcome)
        /\ vWorkQueue' = Queued(o, outcome)
  BY DEF ProcessOrphan
<1>2. /\ UNCHANGED <<mapOrphanBlocksByPrev, mapAskFor, setAskFor, asked>>
      /\ mapOrphanBlocks' = mapOrphanBlocks \ {o}
      /\ setStakeSeenOrphan' = setStakeSeenOrphan \ {GetProofOfStake(o)}
      /\ q # <<>> /\ Parent[o] = Head(q)
  BY DEF ProcessOrphan, OrphansOf, askfor
<1>3. TypeOK /\ o \in Block \ {Genesis} /\ o \notin mapBlockIndex /\ q \in Seq(mapBlockIndex)
  BY DEF OrphanInv, TypeOK, LeftoversOfHead
<1>4. /\ mapBlockIndex \subseteq mapBlockIndex'
      /\ mapBlockIndex' \subseteq mapBlockIndex \cup {o}
      /\ mapBlockIndex' \subseteq Block
      /\ outcome = "accepted" => o \in mapBlockIndex'
      /\ outcome # "accepted" /\ o \in mapBlockIndex' => o \in Unconnectable
  BY <1>1, <1>3, IndexGrows
<1>5. /\ vWorkQueue' \in Seq(mapBlockIndex')
      /\ vWorkQueue' # <<>> /\ Head(vWorkQueue') = Head(q)
      /\ \A i \in 1..Len(q) : i \in 1..Len(vWorkQueue') /\ vWorkQueue'[i] = q[i]
      /\ outcome = "accepted" => \E i \in 1..Len(vWorkQueue') : vWorkQueue'[i] = o
  <2>1. CASE outcome = "accepted"
    <3>1. vWorkQueue' = Append(q, o) /\ o \in mapBlockIndex'
      BY <1>1, <1>4, <2>1 DEF Queued
    <3>2. /\ Append(q, o) \in Seq(mapBlockIndex')
          /\ Len(Append(q, o)) = Len(q) + 1 /\ Len(q) \in Nat
          /\ Append(q, o)[Len(q) + 1] = o
          /\ \A i \in 1..Len(q) : Append(q, o)[i] = q[i]
          /\ Head(Append(q, o)) = Head(q) /\ Append(q, o) # <<>>
      BY <1>2, <1>3, <1>4, <3>1, QueueFacts
    <3> QED
      BY <2>1, <3>1, <3>2
  <2>2. CASE outcome # "accepted"
    <3>1. vWorkQueue' = q
      BY <1>1, <2>2 DEF Queued
    <3> QED
      BY <1>2, <1>3, <1>4, <2>2, <3>1, QueueFacts
  <2> QED
    BY <2>1, <2>2
<1>6. TypeOK' /\ RequestsApart'
  BY <1>2, <1>3, <1>4, <1>5 DEF OrphanInv, TypeOK, RequestsApart
<1>7. LeftoversOfHead'
  BY <1>2, <1>3, <1>4, <1>5 DEF OrphanInv, LeftoversOfHead
<1>8. WillBeProcessed'
  <2> SUFFICES ASSUME NEW x \in mapOrphanBlocks', Parent[x] \in mapBlockIndex'
               PROVE  Parent[x] \in Unconnectable \/ InQueue(Parent[x])'
    BY DEF WillBeProcessed
  <2>1. CASE Parent[x] \in mapBlockIndex
    <3>1. Parent[x] \in Unconnectable \/ InQueue(Parent[x])
      BY <1>2, <2>1 DEF OrphanInv, WillBeProcessed
    <3> QED
      BY <1>5, <3>1 DEF InQueue
  <2>2. CASE Parent[x] = o
    BY <1>4, <1>5, <2>2 DEF InQueue
  <2> QED
    BY <1>4, <2>1, <2>2
<1>9. OrphanStakesHeld'
  <2> SUFFICES ASSUME NEW k \in setStakeSeenOrphan'
               PROVE  \E x \in mapOrphanBlocks' : k = GetProofOfStake(x)
    BY DEF OrphanStakesHeld, GetProofOfStake, IsProofOfStake
  <2>1. k \in setStakeSeenOrphan /\ k # GetProofOfStake(o)
    BY <1>2
  <2>2. PICK x \in mapOrphanBlocks : k = GetProofOfStake(x)
    BY <2>1 DEF OrphanInv, OrphanStakesHeld
  <2> QED
    BY <1>2, <2>1, <2>2
<1> QED
  BY <1>2, <1>6, <1>7, <1>8, <1>9 DEF OrphanInv, ByPrevBounded

(* The end of a round. *)
LEMMA FinishRoundStep ==
  ASSUME OrphanInv, FinishRound
  PROVE  OrphanInv'
<1> DEFINE q == vWorkQueue
<1>1. /\ UNCHANGED <<mapBlockIndex, setStakeSeen, mapOrphanBlocks, setStakeSeenOrphan,
                     mapAskFor, setAskFor, asked>>
      /\ q # <<>> /\ vWorkQueue' = Tail(q)
      /\ mapOrphanBlocksByPrev' = mapOrphanBlocksByPrev \ OrphansOf(Head(q))
      /\ \A o \in mapOrphanBlocks \cap mapOrphanBlocksByPrev : Parent[o] # Head(q)
  BY DEF FinishRound, EraseByPrev, OrphansOf, index, askfor
<1>2. q \in Seq(mapBlockIndex)
  BY DEF OrphanInv, TypeOK
<1>3. /\ Tail(q) \in Seq(mapBlockIndex) /\ Head(q) = q[1] /\ Len(q) \in Nat /\ Len(q) > 0
      /\ Len(Tail(q)) = Len(q) - 1
      /\ \A i \in 1..Len(q) - 1 : Tail(q)[i] = q[i + 1]
  BY <1>1, <1>2, QueueFacts
<1>4. mapOrphanBlocksByPrev' = mapOrphanBlocks
  BY <1>1 DEF OrphanInv, LeftoversOfHead, OrphansOf
<1>5. TypeOK' /\ RequestsApart'
  BY <1>1, <1>3, <1>4 DEF OrphanInv, TypeOK, RequestsApart
<1>6. LeftoversOfHead'
  BY <1>1, <1>4 DEF OrphanInv, LeftoversOfHead
<1>7. WillBeProcessed'
  <2> SUFFICES ASSUME NEW o \in mapOrphanBlocks, Parent[o] \in mapBlockIndex,
                      Parent[o] \notin Unconnectable
               PROVE  InQueue(Parent[o])'
    BY <1>1 DEF WillBeProcessed
  <2>1. PICK i \in 1..Len(q) : q[i] = Parent[o]
    BY DEF OrphanInv, WillBeProcessed, InQueue
  <2>2. i # 1
    BY <1>1, <1>3, <2>1 DEF OrphanInv, LeftoversOfHead
  <2>3. i - 1 \in 1..Len(Tail(q)) /\ Tail(q)[i - 1] = Parent[o]
    BY <1>3, <2>1, <2>2
  <2> QED
    BY <1>1, <2>3 DEF InQueue
<1>8. ByPrevBounded'
  <2>1. /\ IsFiniteSet(mapOrphanBlocks)
        /\ Cardinality(mapOrphanBlocks) =< Cardinality(mapOrphanBlocksByPrev)
        /\ Cardinality(mapOrphanBlocks) \in Nat /\ Cardinality(mapOrphanBlocksByPrev) \in Nat
    BY FS_Subset, FS_CardinalityType DEF OrphanInv, ByPrevBounded, LeftoversOfHead
  <2> QED
    BY <1>4, <2>1, OrphanAssumption DEF OrphanInv, ByPrevBounded
<1> QED
  BY <1>1, <1>5, <1>6, <1>7, <1>8 DEF OrphanInv, OrphanStakesHeld

-----------------------------------------------------------------------------
(* Every step of the orphan pool keeps its invariant. *)
THEOREM OrphansInductive == Spec => []OrphanInv
<1>1. ASSUME OrphanInv, [Next]_vars PROVE OrphanInv'
  <2>1. ASSUME NEW b \in Block \ {Genesis}, Receive(b) PROVE OrphanInv'
    BY <1>1, <2>1, RefuseStep, AddOrphanStep, AcceptStep DEF Receive
  <2>2. ASSUME NEW b \in Block \ {Genesis}, SendGetData(b) PROVE OrphanInv'
    BY <1>1, <2>2, SendGetDataStep
  <2>3. CASE Work
    BY <1>1, <2>3, ProcessOrphanStep, FinishRoundStep DEF Work
  <2>4. CASE UNCHANGED vars
    BY <1>1, <2>4 DEF OrphanInv, vars, index, orphans, askfor, TypeOK, RequestsApart,
       LeftoversOfHead, WillBeProcessed, InQueue, ByPrevBounded, OrphanStakesHeld
  <2> QED
    BY <1>1, <2>1, <2>2, <2>3, <2>4 DEF Next
<1> QED
  BY <1>1, InitOrphanInv, PTL DEF Spec

(* Every variable of ProcessBlock keeps its type; in particular only blocks *)
(* in the index are in the work queue, and the peer is never asked for      *)
(* Genesis.                                                                 *)
THEOREM OrphansTyped == Spec => []TypeOK
<1>1. OrphanInv => TypeOK
  BY DEF OrphanInv
<1> QED
  BY <1>1, OrphansInductive, PTL

(* Whenever ProcessBlock returns, mapOrphanBlocks and mapOrphanBlocksByPrev *)
(* hold the same orphans, and none of them is in the index.                 *)
THEOREM OrphanMapsAlwaysAgree == Spec => []OrphanMapsAgree
<1>1. OrphanInv => OrphanMapsAgree
  BY DEF OrphanInv, LeftoversOfHead, OrphanMapsAgree, Idle
<1> QED
  BY <1>1, OrphansInductive, PTL

(* PruneOrphanBlocks keeps the pool within one block more than the          *)
(* documented limit, in the middle of a work queue as well.                 *)
THEOREM OrphansAlwaysBounded == Spec => []OrphansBounded
<1>1. ASSUME OrphanInv PROVE OrphansBounded
  <2>1. /\ Cardinality(mapOrphanBlocks) =< Cardinality(mapOrphanBlocksByPrev)
        /\ Cardinality(mapOrphanBlocks) \in Nat /\ Cardinality(mapOrphanBlocksByPrev) \in Nat
    BY <1>1, FS_Subset, FS_CardinalityType DEF OrphanInv, ByPrevBounded, LeftoversOfHead
  <2> QED
    BY <1>1, <2>1, OrphanAssumption DEF OrphanInv, ByPrevBounded, OrphansBounded
<1> QED
  BY <1>1, OrphansInductive, PTL

(* No stake stays in setStakeSeenOrphan after its last orphan has left the  *)
(* pool.                                                                    *)
THEOREM OrphanStakesAlwaysHeld == Spec => []OrphanStakesHeld
<1>1. OrphanInv => OrphanStakesHeld
  BY DEF OrphanInv
<1> QED
  BY <1>1, OrphansInductive, PTL

(* ProcessBlock does not return while an orphan waits for a block that was  *)
(* accepted.                                                                *)
THEOREM NoneEverLeftBehind == Spec => []NoneLeftBehind
<1>1. OrphanInv => NoneLeftBehind
  BY DEF OrphanInv, WillBeProcessed, InQueue, NoneLeftBehind, Idle
<1> QED
  BY <1>1, OrphansInductive, PTL

=============================================================================
