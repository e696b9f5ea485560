---------------------------- MODULE TxIndex_proofs ----------------------------
(***************************************************************************)
(* Lemmas about the block tree and the transaction index, for every tree   *)
(* and every set of transactions that satisfies the assumptions.           *)
(***************************************************************************)
EXTENDS TxIndex, WellFoundedInduction, TLAPS

(* All occurrences of transactions in blocks. *)
Occurrence == { p \in Block \X Nat : p[2] \in 1..Len(Vtx[p[1]]) }

-----------------------------------------------------------------------------
LessThan == { p \in Nat \X Nat : p[1] < p[2] }

(* A nonempty set of natural numbers has a least element.  (The induction   *)
(* rules of the library take an operator, this one a set.)                  *)
LEMMA LeastNatural ==
  ASSUME NEW T \in SUBSET Nat, T # {}
  PROVE  \E n \in T : \A m \in T : n =< m
<1>1. IsWellFoundedOn(LessThan, Nat)
  BY NatLessThanWellFounded DEF OpToRel, LessThan
<1>2. PICK n \in T : \A m \in T : ~ (<<m, n>> \in LessThan)
  BY <1>1, WFMin
<1>3. ASSUME NEW m \in T PROVE n =< m
  <2>1. m \in Nat /\ n \in Nat
    OBVIOUS
  <2>2. ~ (<<m, n>> \in LessThan)
    BY <1>2
  <2>3. <<m, n>> \in Nat \X Nat /\ <<m, n>>[1] = m /\ <<m, n>>[2] = n
    BY <2>1
  <2>4. ~ (m < n)
    BY <2>2, <2>3 DEF LessThan
  <2> QED
    BY <2>1, <2>4
<1> QED
  BY <1>3

-----------------------------------------------------------------------------
(* The block tree. *)

(* The ancestors of a block are the path down to Genesis: the lower of two  *)
(* is an ancestor of the other, and two of the same height are the same.    *)
IsPath(b) ==
  \A a \in Branch[b] :
    /\ Branch[a] \subseteq Branch[b]
    /\ Height[a] =< Height[b]
    /\ ChainTrust[a] =< ChainTrust[b]
    /\ Genesis \in Branch[a]
    /\ \A c \in Branch[b] : /\ Height[a] = Height[c] => a = c
                            /\ Height[a] =< Height[c] => a \in Branch[c]

(* By induction over the height. *)
LEMMA BranchIsPath ==
  \A b \in Block : IsPath(b)
<1> DEFINE S == { n \in Nat : \E b \in Block : Height[b] = n /\ ~ IsPath(b) }
<1>1. SUFFICES ASSUME NEW b \in Block, ~ IsPath(b) PROVE FALSE
  OBVIOUS
<1>s. Height[b] \in S
  BY <1>1, TreeAssumption
<1>2. PICK n \in S : \A m \in S : n =< m
  <2>1. S \in SUBSET Nat /\ S # {}
    BY <1>s
  <2> HIDE DEF S
  <2> QED
    BY <2>1, LeastNatural
<1>3. PICK x \in Block : Height[x] = n /\ ~ IsPath(x)
  BY <1>2
<1>4. x # Genesis
  BY <1>3, TreeAssumption DEF IsPath
<1>5. /\ Parent[x] \in Block
      /\ Height[Parent[x]] \in Nat /\ Height[x] = Height[Parent[x]] + 1
      /\ Branch[x] = Branch[Parent[x]] \cup {x}
      /\ Branch[Parent[x]] \subseteq Block
      /\ \A y \in Block : Height[y] \in Nat /\ ChainTrust[y] \in Nat
      /\ ChainTrust[x] > ChainTrust[Parent[x]]
  BY <1>4, TreeAssumption
<1>6. IsPath(Parent[x])
  BY <1>2, <1>3, <1>5
<1>7. Parent[x] \in Branch[Parent[x]]
  BY <1>5, TreeAssumption
<1>8. IsPath(x)
  <2> SUFFICES ASSUME NEW a \in Branch[x]
               PROVE  /\ Branch[a] \subseteq Branch[x]
                      /\ Height[a] =< Height[x]
                      /\ ChainTrust[a] =< ChainTrust[x]
                      /\ Genesis \in Branch[a]
                      /\ \A c \in Branch[x] :
                           /\ Height[a] = Height[c] => a = c
                           /\ Height[a] =< Height[c] => a \in Branch[c]
    BY DEF IsPath
  <2>1. \A y \in Branch[Parent[x]] : y \in Block /\ Height[y] =< Height[Parent[x]]
    BY <1>5, <1>6 DEF IsPath
  <2>2. Genesis \in Branch[Parent[x]]
    BY <1>6, <1>7 DEF IsPath
  <2>3. CASE a = x
    BY <1>5, <2>1, <2>2, <2>3
  <2>4. CASE a \in Branch[Parent[x]]
    BY <1>5, <1>6, <2>1, <2>4 DEF IsPath
  <2> QED
    BY <1>5, <2>3, <2>4
<1> QED
  BY <1>3, <1>8

(* A block is on its own branch, and so is its parent; a branch consists of *)
(* blocks.                                                                  *)
LEMMA BranchBasics ==
  ASSUME NEW b \in Block
  PROVE  /\ b \in Branch[b]
         /\ Branch[b] \subseteq Block
         /\ Genesis \in Branch[b]
         /\ Height[b] \in Nat /\ ChainTrust[b] \in Nat
         /\ b # Genesis => /\ Parent[b] \in Block
                           /\ Parent[b] \in Branch[b]
                           /\ Height[b] = Height[Parent[b]] + 1
                           /\ Branch[b] = Branch[Parent[b]] \cup {b}
                           /\ b \notin Branch[Parent[b]]
                           /\ ChainTrust[b] > ChainTrust[Parent[b]]
<1>1. \A x \in Block : x \in Branch[x]
  BY TreeAssumption
<1>2. \A x \in Block : \A a \in Branch[x] : Height[a] =< Height[x] /\ Genesis \in Branch[a]
  BY BranchIsPath DEF IsPath
<1>3. ASSUME b # Genesis PROVE b \notin Branch[Parent[b]]
  BY <1>2, <1>3, TreeAssumption
<1> QED
  BY <1>1, <1>2, <1>3, TreeAssumption

(* Ancestry is transitive, and ancestors are ordered by height. *)
LEMMA BranchOrder ==
  ASSUME NEW b \in Block, NEW a \in Branch[b]
  PROVE  /\ a \in Block
         /\ Branch[a] \subseteq Branch[b]
         /\ Height[a] =< Height[b]
         /\ ChainTrust[a] =< ChainTrust[b]
         /\ \A c \in Branch[b] : /\ Height[a] = Height[c] => a = c
                                 /\ Height[a] =< Height[c] => a \in Branch[c]
BY BranchIsPath, BranchBasics DEF IsPath

(* An ancestor that is as high as the block is the block. *)
LEMMA TopOfBranch ==
  ASSUME NEW b \in Block, NEW a \in Branch[b], a # b
  PROVE  Height[a] < Height[b]
<1>1. Height[a] =< Height[b] /\ Height[a] # Height[b]
  BY BranchOrder, BranchBasics
<1> QED
  BY <1>1, BranchOrder, BranchBasics

(* Every proper ancestor of b has a child on the way up to b. *)
LEMMA ChildExists ==
  ASSUME NEW b \in Block, NEW a \in Branch[b], a # b
  PROVE  \E x \in ConnectedBlocks(b) : Parent[x] = a
<1> DEFINE H == { n \in Nat : n > Height[a] /\ \E x \in Branch[b] : Height[x] = n }
<1>1. a \in Block /\ Height[a] \in Nat /\ Height[b] \in Nat /\ Height[a] < Height[b]
  BY TopOfBranch, BranchOrder, BranchBasics
<1>2. Height[b] \in H
  BY <1>1, BranchBasics
<1>3. PICK n \in H : \A m \in H : n =< m
  <2>1. H \in SUBSET Nat /\ H # {}
    BY <1>2
  <2> HIDE DEF H
  <2> QED
    BY <2>1, LeastNatural
<1>4. PICK x \in Branch[b] : Height[x] = n
  BY <1>3
<1>g. Height[Genesis] = 0
  BY TreeAssumption
<1>5. x \in Block /\ x # Genesis
  BY <1>1, <1>3, <1>4, <1>g, BranchOrder
<1>6. /\ Parent[x] \in Branch[b] /\ Height[Parent[x]] \in Nat
      /\ Height[x] = Height[Parent[x]] + 1
  BY <1>4, <1>5, BranchBasics, BranchOrder
<1>7. Height[Parent[x]] = Height[a]
  BY <1>1, <1>3, <1>4, <1>6
<1>8. Parent[x] = a
  BY <1>6, <1>7, BranchOrder
<1> QED
  BY <1>4, <1>5, <1>8 DEF ConnectedBlocks

(* The child of a proper ancestor on the way up to b. *)
LEMMA ChildTowardFacts ==
  ASSUME NEW b \in Block, NEW a \in Branch[b], a # b
  PROVE  LET x == ChildToward(a, b)
         IN  /\ x \in Block \ {Genesis} /\ x \in Branch[b] /\ Parent[x] = a
             /\ \A c \in ConnectedBlocks(b) : Parent[c] = a => c = x
<1> DEFINE x == ChildToward(a, b)
<1>1. x \in ConnectedBlocks(b) /\ Parent[x] = a
  BY ChildExists DEF ChildToward
<1>2. \A c \in ConnectedBlocks(b) : c \in Block \ {Genesis} /\ c \in Branch[b]
  BY BranchBasics DEF ConnectedBlocks
<1>3. \A c \in ConnectedBlocks(b) : Parent[c] = a => Height[c] = Height[x]
  BY <1>1, <1>2, BranchBasics
<1> QED
  BY <1>1, <1>2, <1>3, BranchOrder

-----------------------------------------------------------------------------
(* Occurrences. *)

(* What an occurrence is made of. *)
LEMMA OccurrenceFacts ==
  ASSUME NEW p \in Occurrence
  PROVE  /\ p[1] \in Block /\ p[2] \in Nat /\ p = <<p[1], p[2]>>
         /\ p[2] \in 1..Len(Vtx[p[1]])
         /\ TxAt(p) \in Tx
BY TxAssumption DEF Occurrence, TxAt

(* The occurrences of a chain are those in its connected blocks. *)
LEMMA OccurrencesFacts ==
  ASSUME NEW b \in Block
  PROVE  /\ Occurrences(b) \subseteq Occurrence
         /\ \A p \in Occurrence : p \in Occurrences(b) <=> p[1] \in ConnectedBlocks(b)
<1>1. \A a \in ConnectedBlocks(b) : a \in Block
  BY BranchBasics DEF ConnectedBlocks
<1>2. \A a \in Block : Len(Vtx[a]) \in Nat
  BY TxAssumption
<1> QED
  BY <1>1, <1>2 DEF Occurrences, OccurrencesIn, Occurrence

(* The occurrences of a block and of the chain below it. *)
LEMMA OccurrencesOfChild ==
  ASSUME NEW b \in Block \ {Genesis}
  PROVE  Occurrences(b) =
           Occurrences(Parent[b]) \cup OccurrencesIn(b, Len(Vtx[b]))
<1>1. ConnectedBlocks(b) = ConnectedBlocks(Parent[b]) \cup {b}
  BY BranchBasics DEF ConnectedBlocks
<1> QED
  BY <1>1 DEF Occurrences

(* Two occurrences of one coinbase are in blocks of the same height. *)
LEMMA CoinBaseOnce ==
  ASSUME NEW p \in Occurrence, NEW q \in Occurrence,
         TxAt(p) = TxAt(q), TxAt(p) \in CoinBase
  PROVE  ~ Earlier(p, q)
<1>1. p[2] = 1 /\ q[2] = 1
  BY OccurrenceFacts, BlockAssumption DEF TxAt
<1>2. Len(Vtx[p[1]]) \in Nat /\ Len(Vtx[q[1]]) \in Nat
  BY OccurrenceFacts, TxAssumption
<1>3. Len(Vtx[p[1]]) > 0 /\ Len(Vtx[q[1]]) > 0
  BY <1>1, <1>2, OccurrenceFacts
<1>4. Height[p[1]] = Height[q[1]]
  BY <1>1, <1>3, OccurrenceFacts, BlockAssumption DEF TxAt
<1>5. Height[p[1]] \in Nat
  BY OccurrenceFacts, BranchBasics
<1> QED
  BY <1>1, <1>4, <1>5 DEF Earlier

-----------------------------------------------------------------------------
(* Connecting one more transaction. *)

(* A transaction whose inputs connect has not occurred before: what it      *)
(* spends is unspent, so it cannot have been spent by itself.               *)
LEMMA NotConnectedTwice ==
  ASSUME NEW O \in SUBSET Occurrence, NEW q \in Occurrence,
         \A p \in O : Earlier(p, q),
         NEW pos, NEW spent, NEW from,
         SpentMatches(spent, O),
         InputsConnect(TxAt(q), pos, spent, from)
  PROVE  \A p \in O : TxAt(p) # TxAt(q)
<1> SUFFICES ASSUME NEW p \in O, TxAt(p) = TxAt(q) PROVE FALSE
  OBVIOUS
<1>1. CASE TxAt(q) \in CoinBase
  BY <1>1, CoinBaseOnce
<1>2. CASE TxAt(q) \notin CoinBase
  <2>1. PICK o \in Inputs[TxAt(q)] : TRUE
    BY <1>2, OccurrenceFacts, TxAssumption
  <2>2. spent[o] = TxAt(q)
    BY <2>1 DEF SpentMatches
  <2>3. spent[o] = None
    BY <2>1 DEF InputsConnect
  <2> QED
    BY <2>2, <2>3, OccurrenceFacts, TxAssumption
<1> QED
  BY <1>1, <1>2

(* ConnectInputs accepts the next transaction exactly when the ledger with  *)
(* it obeys the rules.                                                      *)
LEMMA InputsConnectIsValidity ==
  ASSUME NEW O \in SUBSET Occurrence, NEW q \in Occurrence,
         q \notin O,
         \A p \in O : Earlier(p, q) /\ p[1] \in Branch[q[1]],
         ~ Earlier(q, q),
         NEW pos, NEW spent,
         IndexMatches(pos, spent, O),
         ValidLedger(O)
  PROVE  InputsConnect(TxAt(q), pos, spent, q[1]) <=> ValidLedger(O \cup {q})
<1> DEFINE t == TxAt(q)
<1>t. t \in Tx /\ q[1] \in Block /\ Height[q[1]] \in Nat
  BY OccurrenceFacts, BranchBasics
<1>h. \A p \in O : p[1] \in Block /\ Height[p[1]] \in Nat /\ TxAt(p) \in Tx
  BY OccurrenceFacts, BranchBasics
<1>n. None \notin Tx /\ None \notin Block
  BY TxAssumption
<1>i. \A o \in Inputs[t] : o \in OutPoint /\ OutTx[o] \in Tx
  BY <1>t, TxAssumption
<1>m. nCoinbaseMaturity \in Nat
  BY MaturityAssumption
<1>1. ASSUME InputsConnect(t, pos, spent, q[1])
      PROVE  ValidLedger(O \cup {q})
  <2>1. \A p \in O : Inputs[TxAt(p)] \cap Inputs[t] = {}
    BY <1>1, <1>n, <1>h DEF InputsConnect, IndexMatches, SpentMatches
  <2>2. NoDoubleSpend(O \cup {q})
    BY <2>1 DEF NoDoubleSpend, ValidLedger
  <2>3. ASSUME NEW o \in Inputs[t] PROVE \E p \in O : CreatedFor(p, q, o)
    <3>1. PICK p \in O : TxAt(p) = OutTx[o]
      BY <1>1, <1>i, <2>3 DEF InputsConnect, IndexMatches, PosMatches
    <3>2. pos[OutTx[o]] = p[1]
      BY <3>1 DEF IndexMatches, PosMatches
    <3>3. OutTx[o] \in CoinBase \cup CoinStake =>
            Height[q[1]] >= Height[p[1]] + nCoinbaseMaturity
      BY <1>1, <1>t, <1>h, <1>m, <3>1, <3>2
      DEF InputsConnect, IsConfirmedInNPrevBlocks
    <3> QED
      BY <3>1, <3>3 DEF CreatedFor
  <2>4. InputsCreated(O \cup {q})
    BY <2>3 DEF InputsCreated, ValidLedger
  <2> QED
    BY <2>2, <2>4 DEF ValidLedger
<1>2. ASSUME ValidLedger(O \cup {q})
      PROVE  InputsConnect(t, pos, spent, q[1])
  <2> SUFFICES ASSUME NEW o \in Inputs[t]
               PROVE  /\ pos[OutTx[o]] # None
                      /\ OutTx[o] \in CoinBase \cup CoinStake =>
                           ~ IsConfirmedInNPrevBlocks(pos[OutTx[o]], q[1],
                                                      nCoinbaseMaturity)
                      /\ spent[o] = None
    BY DEF InputsConnect
  <2>1. PICK p \in O \cup {q} : CreatedFor(p, q, o)
    BY <1>2 DEF ValidLedger, InputsCreated
  <2>2. p \in O /\ TxAt(p) = OutTx[o]
    BY <2>1 DEF CreatedFor
  <2>3. pos[OutTx[o]] = p[1]
    BY <2>2 DEF IndexMatches, PosMatches
  <2>4. OutTx[o] \in CoinBase \cup CoinStake =>
          ~ IsConfirmedInNPrevBlocks(p[1], q[1], nCoinbaseMaturity)
    BY <1>t, <1>h, <1>m, <2>1, <2>2 DEF CreatedFor, IsConfirmedInNPrevBlocks
  <2>5. spent[o] = None
    <3>1. SUFFICES ASSUME spent[o] # None PROVE FALSE
      OBVIOUS
    <3>2. PICK r \in O : o \in Inputs[TxAt(r)]
      BY <1>i, <3>1 DEF IndexMatches, SpentMatches
    <3>3. Inputs[TxAt(r)] \cap Inputs[TxAt(q)] = {}
      BY <1>2, <3>2 DEF ValidLedger, NoDoubleSpend
    <3> QED
      BY <3>2, <3>3
  <2> QED
    BY <1>n, <1>h, <2>2, <2>3, <2>4, <2>5
<1> QED
  BY <1>1, <1>2

(* The index of the ledger with one more transaction. *)
LEMMA ConnectedIndexMatches ==
  ASSUME NEW O \in SUBSET Occurrence, NEW q \in Occurrence,
         \A p \in O : Earlier(p, q),
         NEW pos \in [Tx -> Block \cup {None}],
         NEW spent \in [OutPoint -> Tx \cup {None}],
         IndexMatches(pos, spent, O),
         ValidLedger(O),
         InputsConnect(TxAt(q), pos, spent, q[1])
  PROVE  IndexMatches(ConnectPos(TxAt(q), q[1], pos),
                      ConnectSpent(TxAt(q), spent), O \cup {q})
<1> DEFINE t == TxAt(q)
           pos2 == ConnectPos(t, q[1], pos)
           spent2 == ConnectSpent(t, spent)
<1>t. t \in Tx
  BY OccurrenceFacts
<1>u. \A p \in O : TxAt(p) \in Tx /\ TxAt(p) # t
  <2>1. SpentMatches(spent, O)
    BY DEF IndexMatches
  <2> QED
    BY <2>1, NotConnectedTwice, OccurrenceFacts
<1>n. None \notin Tx
  BY TxAssumption
<1>i. \A x \in Tx : \A o \in Inputs[x] : o \in OutPoint /\ OutTx[o] \in Tx
  BY TxAssumption
<1>1. PosMatches(pos2, O \cup {q})
  <2>1. \A p \in O : pos2[TxAt(p)] = p[1]
    BY <1>t, <1>u DEF IndexMatches, PosMatches, ConnectPos
  <2>2. pos2[t] = q[1]
    BY <1>t DEF ConnectPos
  <2>3. \A x \in Tx : pos2[x] # None => \E p \in O \cup {q} : TxAt(p) = x
    BY <1>t DEF IndexMatches, PosMatches, ConnectPos
  <2> QED
    BY <2>1, <2>2, <2>3 DEF PosMatches
<1>2. \A o \in Inputs[t] : OutTx[o] # t
  <2>1. \A o \in Inputs[t] : pos[OutTx[o]] # None
    BY DEF InputsConnect
  <2> QED
    BY <1>t, <1>i, <1>u, <2>1 DEF IndexMatches, PosMatches
<1>3. \A p \in O : \A o \in Inputs[TxAt(p)] : OutTx[o] # t /\ o \notin Inputs[t]
  <2>1. \A p \in O : \A o \in Inputs[TxAt(p)] : \E r \in O : TxAt(r) = OutTx[o]
    BY DEF ValidLedger, InputsCreated, CreatedFor
  <2>2. \A p \in O : \A o \in Inputs[TxAt(p)] : spent[o] = TxAt(p)
    BY DEF IndexMatches, SpentMatches
  <2>3. \A o \in Inputs[t] : spent[o] = None
    BY DEF InputsConnect
  <2> QED
    BY <1>n, <1>u, <2>1, <2>2, <2>3
<1>4. SpentMatches(spent2, O \cup {q})
  <2>1. \A o \in Inputs[t] : spent2[o] = t
    BY <1>t, <1>i, <1>2 DEF ConnectSpent
  <2>2. \A p \in O : \A o \in Inputs[TxAt(p)] : spent2[o] = TxAt(p)
    BY <1>i, <1>u, <1>3 DEF ConnectSpent, IndexMatches, SpentMatches
  <2>3. ASSUME NEW o \in OutPoint, spent2[o] # None
        PROVE  \E p \in O \cup {q} : TxAt(p) = spent2[o] /\ o \in Inputs[TxAt(p)]
    BY <2>3 DEF ConnectSpent, IndexMatches, SpentMatches
  <2> QED
    BY <2>1, <2>2, <2>3 DEF SpentMatches
<1> QED
  BY <1>1, <1>4 DEF IndexMatches

-----------------------------------------------------------------------------
(* Shortening the ledger. *)

(* A ledger that obeys the rules still does when only its first part is     *)
(* taken.                                                                   *)
LEMMA PrefixValid ==
  ASSUME NEW O, NEW P \in SUBSET O,
         \A p \in O : \A q \in P : Earlier(p, q) => p \in P,
         ValidLedger(O)
  PROVE  ValidLedger(P)
<1>1. NoDoubleSpend(P)
  BY DEF ValidLedger, NoDoubleSpend
<1>2. InputsCreated(P)
  BY DEF ValidLedger, InputsCreated, CreatedFor
<1> QED
  BY <1>1, <1>2 DEF ValidLedger

(* Everything earlier than an occurrence of a chain is on the chain below   *)
(* it.                                                                      *)
LEMMA EarlierInChain ==
  ASSUME NEW b \in Block, NEW p \in Occurrences(b), NEW q \in Occurrences(b),
         Earlier(p, q)
  PROVE  p[1] \in ConnectedBlocks(q[1])
<1>1. p \in Occurrence /\ q \in Occurrence
  BY OccurrencesFacts
<1>2. p[1] \in Branch[b] /\ q[1] \in Branch[b] /\ p[1] # Genesis
  BY <1>1, OccurrencesFacts DEF ConnectedBlocks
<1>3. /\ p[1] \in Block /\ q[1] \in Block
      /\ Height[p[1]] \in Nat /\ Height[q[1]] \in Nat
  BY <1>1, OccurrenceFacts, BranchBasics
<1>4. p[1] \in Branch[q[1]]
  BY <1>2, <1>3, BranchOrder DEF Earlier
<1> QED
  BY <1>2, <1>4 DEF ConnectedBlocks

(* The chain below a valid chain's block is valid. *)
LEMMA AncestorValid ==
  ASSUME NEW b \in Block, NEW a \in Branch[b], ValidChain(b)
  PROVE  ValidChain(a)
<1>a. a \in Block /\ Branch[a] \subseteq Branch[b]
  BY BranchOrder
<1>1. Occurrences(a) \subseteq Occurrences(b)
  BY <1>a, OccurrencesFacts DEF ConnectedBlocks
<1>2. ASSUME NEW p \in Occurrences(b), NEW q \in Occurrences(a), Earlier(p, q)
      PROVE  p \in Occurrences(a)
  <2>1. p \in Occurrence /\ q \in Occurrence
    BY <1>a, OccurrencesFacts
  <2>2. p[1] \in ConnectedBlocks(q[1]) /\ q[1] \in Branch[a]
    BY <1>1, <1>2, <1>a, <2>1, EarlierInChain, OccurrencesFacts DEF ConnectedBlocks
  <2>3. Branch[q[1]] \subseteq Branch[a]
    BY <1>a, <2>2, BranchOrder
  <2> QED
    BY <1>a, <2>1, <2>2, <2>3, OccurrencesFacts DEF ConnectedBlocks
<1>3. ValidLedger(Occurrences(a))
  BY <1>1, <1>2, PrefixValid DEF ValidChain
<1> QED
  BY <1>a, <1>3 DEF ValidChain

(* In a valid chain no transaction occurs twice. *)
LEMMA OccursOnce ==
  ASSUME NEW b \in Block, ValidLedger(Occurrences(b)),
         NEW p \in Occurrences(b), NEW q \in Occurrences(b), TxAt(p) = TxAt(q)
  PROVE  p = q
<1>1. p \in Occurrence /\ q \in Occurrence
  BY OccurrencesFacts
<1>2. CASE TxAt(p) \in CoinBase
  <2>1. ~ Earlier(p, q) /\ ~ Earlier(q, p)
    BY <1>1, <1>2, CoinBaseOnce
  <2>2. p[1] \in Branch[b] /\ q[1] \in Branch[b]
    BY <1>1, OccurrencesFacts DEF ConnectedBlocks
  <2>3. Height[p[1]] = Height[q[1]]
    BY <1>1, <2>1, OccurrenceFacts, BranchBasics DEF Earlier
  <2>4. p[1] = q[1]
    BY <2>2, <2>3, BranchOrder
  <2> QED
    BY <1>1, <2>1, <2>4, OccurrenceFacts DEF Earlier
<1>3. CASE TxAt(p) \notin CoinBase
  <2>1. Inputs[TxAt(p)] # {}
    BY <1>1, <1>3, OccurrenceFacts, TxAssumption
  <2> QED
    BY <2>1 DEF ValidLedger, NoDoubleSpend
<1> QED
  BY <1>2, <1>3

(* DisconnectBlock succeeds on the index of a valid chain, and leaves the   *)
(* index of the chain below.                                                *)
LEMMA DisconnectedIndexMatches ==
  ASSUME NEW b \in Block \ {Genesis},
         NEW pos \in [Tx -> Block \cup {None}],
         NEW spent \in [OutPoint -> Tx \cup {None}],
         ValidLedger(Occurrences(b)),
         IndexMatches(pos, spent, Occurrences(b))
  PROVE  /\ CanDisconnect(b, pos)
         /\ IndexMatches(DisconnectPos(b, pos), DisconnectSpent(b, spent),
                         Occurrences(Parent[b]))
<1> DEFINE O == Occurrences(b)
           P == Occurrences(Parent[b])
           pos2 == DisconnectPos(b, pos)
           spent2 == DisconnectSpent(b, spent)
<1>o. O = P \cup OccurrencesIn(b, Len(Vtx[b])) /\ O \subseteq Occurrence
  BY OccurrencesOfChild, OccurrencesFacts
<1>b. \A x : x \in TxsOf(b) <=> \E p \in OccurrencesIn(b, Len(Vtx[b])) : TxAt(p) = x
  <2>1. ASSUME NEW i \in 1..Len(Vtx[b])
        PROVE  <<b, i>> \in OccurrencesIn(b, Len(Vtx[b])) /\ TxAt(<<b, i>>) = Vtx[b][i]
    BY DEF TxAt, OccurrencesIn
  <2>2. ASSUME NEW p \in OccurrencesIn(b, Len(Vtx[b]))
        PROVE  p[2] \in 1..Len(Vtx[b]) /\ TxAt(p) = Vtx[b][p[2]]
    BY DEF TxAt, OccurrencesIn
  <2>3. ASSUME NEW x \in TxsOf(b)
        PROVE  \E p \in OccurrencesIn(b, Len(Vtx[b])) : TxAt(p) = x
    <3>1. PICK i \in 1..Len(Vtx[b]) : x = Vtx[b][i]
      BY DEF TxsOf
    <3> QED
      BY <2>1, <3>1
  <2>4. ASSUME NEW p \in OccurrencesIn(b, Len(Vtx[b])) PROVE TxAt(p) \in TxsOf(b)
    BY <2>2 DEF TxsOf
  <2> QED
    BY <2>3, <2>4
<1>d. \A p \in P : p \notin OccurrencesIn(b, Len(Vtx[b]))
  <2>1. \A p \in P : p \in Occurrence /\ p[1] \in Branch[Parent[b]]
    BY BranchBasics, OccurrencesFacts DEF ConnectedBlocks
  <2>2. b \notin Branch[Parent[b]]
    BY BranchBasics
  <2> QED
    BY <2>1, <2>2 DEF OccurrencesIn
<1>u. \A p \in P : TxAt(p) \in Tx /\ TxAt(p) \notin TxsOf(b)
  <2>1. ASSUME NEW p \in P, TxAt(p) \in TxsOf(b) PROVE FALSE
    <3>1. PICK q \in OccurrencesIn(b, Len(Vtx[b])) : TxAt(q) = TxAt(p)
      BY <1>b, <2>1
    <3>2. p \in O /\ q \in O
      BY <1>o
    <3>3. p = q
      BY <3>1, <3>2, OccursOnce
    <3> QED
      BY <1>d, <3>3
  <2> QED
    BY <1>o, <2>1, OccurrenceFacts
<1>n. None \notin Tx /\ None \notin Block
  BY TxAssumption
<1>p. \A p \in O : p[1] \in Block /\ TxAt(p) \in Tx
  BY <1>o, OccurrenceFacts
<1>i. \A x \in Tx : \A o \in Inputs[x] : o \in OutPoint /\ OutTx[o] \in Tx
  BY TxAssumption
<1>c. \A q \in O : \A o \in Inputs[TxAt(q)] : \E p \in O : TxAt(p) = OutTx[o] /\ Earlier(p, q)
  BY DEF ValidLedger, InputsCreated, CreatedFor
<1>1. CanDisconnect(b, pos)
  BY <1>o, <1>b, <1>c, <1>n, <1>p DEF CanDisconnect, IndexMatches, PosMatches
<1>2. PosMatches(pos2, P)
  <2>1. \A p \in P : pos2[TxAt(p)] = p[1]
    BY <1>o, <1>u DEF DisconnectPos, IndexMatches, PosMatches
  <2>2. ASSUME NEW x \in Tx, pos2[x] # None PROVE \E p \in P : TxAt(p) = x
    <3>1. x \notin TxsOf(b) /\ pos[x] # None
      BY <2>2 DEF DisconnectPos
    <3>2. PICK p \in O : TxAt(p) = x
      BY <3>1 DEF IndexMatches, PosMatches
    <3> QED
      BY <1>o, <1>b, <3>1, <3>2
  <2> QED
    BY <2>1, <2>2 DEF PosMatches
<1>3. ASSUME NEW q \in P, NEW o \in Inputs[TxAt(q)]
      PROVE  OutTx[o] \notin TxsOf(b) /\ \A x \in TxsOf(b) : o \notin Inputs[x]
  <2>1. PICK p \in O : TxAt(p) = OutTx[o] /\ Earlier(p, q)
    BY <1>o, <1>c, <1>3
  <2>2. p \in P
    <3>1. p \in Occurrence /\ q \in Occurrence /\ q \in O
      BY <1>o
    <3>2. p[1] \in ConnectedBlocks(q[1])
      BY <2>1, <3>1, EarlierInChain
    <3>3. q[1] \in Branch[Parent[b]]
      BY <3>1, BranchBasics, OccurrencesFacts DEF ConnectedBlocks
    <3>4. p[1] \in ConnectedBlocks(Parent[b])
      BY <3>2, <3>3, BranchBasics, BranchOrder DEF ConnectedBlocks
    <3> QED
      BY <3>1, <3>4, BranchBasics, OccurrencesFacts
  <2>3. \A r \in O : o \in Inputs[TxAt(r)] => r = q
    BY <1>o DEF ValidLedger, NoDoubleSpend
  <2> QED
    BY <1>o, <1>u, <1>b, <1>d, <2>1, <2>2, <2>3
<1>4. SpentMatches(spent2, P)
  <2>1. \A p \in P : \A o \in Inputs[TxAt(p)] : spent2[o] = TxAt(p)
    BY <1>3, <1>o, <1>i, <1>u DEF DisconnectSpent, IndexMatches, SpentMatches
  <2>2. ASSUME NEW o \in OutPoint, spent2[o] # None
        PROVE  \E p \in P : TxAt(p) = spent2[o] /\ o \in Inputs[TxAt(p)]
    <3>1. /\ spent2[o] = spent[o]
          /\ \A x \in TxsOf(b) : o \notin Inputs[x]
      BY <2>2 DEF DisconnectSpent
    <3>2. PICK p \in O : TxAt(p) = spent[o] /\ o \in Inputs[TxAt(p)]
      BY <2>2, <3>1 DEF IndexMatches, SpentMatches
    <3> QED
      BY <1>o, <1>b, <3>1, <3>2
  <2> QED
    BY <2>1, <2>2 DEF SpentMatches
<1> QED
  BY <1>1, <1>2, <1>4 DEF IndexMatches

=============================================================================
