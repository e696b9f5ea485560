---- MODULE AddrMan_proofs ----
(***************************************************************************)
(* The tables of the address manager stay consistent, for every number of  *)
(* addresses and buckets: Check_, which only debugging builds run, never   *)
(* fails.                                                                  *)
(***************************************************************************)
EXTENDS AddrMan, FiniteSetTheorems, SequenceTheorems, TLAPS

(* The parts of the invariant, of a manager m. *)
Info == [addr : Addr, source : Source, nRefCount : Nat, fInTried : BOOLEAN, nRandomPos : Nat]

IsManager(m) ==
  m = [mapInfo |-> m.mapInfo, mapAddr |-> m.mapAddr, vRandom |-> m.vRandom,
       nTried |-> m.nTried, vvTried |-> m.vvTried, nNew |-> m.nNew, vvNew |-> m.vvNew]

Typed(m) ==
  /\ IsManager(m)
  /\ Ids(m) \subseteq Nat /\ IsFiniteSet(Ids(m))
  /\ m.mapInfo \in [Ids(m) -> Info]
  /\ m.mapAddr \in [Hosts -> Ids(m) \cup {None}]
  /\ m.vRandom \in Seq(Ids(m))
  /\ m.nTried \in Nat /\ m.nNew \in Nat
  /\ m.vvTried \in [TriedBucket -> Seq(Ids(m))]
  /\ m.vvNew \in [NewBucket -> SUBSET Ids(m)]

(* mapAddr and vRandom lead to the entries, and these back. *)
Indexed(m) ==
  /\ \A n \in Ids(m) : /\ m.mapAddr[Host[m.mapInfo[n].addr]] = n
                       /\ m.mapInfo[n].nRandomPos \in 1..Len(m.vRandom)
                       /\ m.vRandom[m.mapInfo[n].nRandomPos] = n
  /\ \A h \in Hosts : m.mapAddr[h] # None => Host[m.mapInfo[m.mapAddr[h]].addr] = h
  /\ \A i \in 1..Len(m.vRandom) : m.mapInfo[m.vRandom[i]].nRandomPos = i

(* The new buckets an entry is in. *)
Refs(m, n) == { b \in NewBucket : n \in m.vvNew[b] }

NewPlaced(m) ==
  \A n \in Ids(m) : /\ m.mapInfo[n].nRefCount = Cardinality(Refs(m, n))
                    /\ m.mapInfo[n].fInTried <=> Refs(m, n) = {}

(* Position i of tried bucket b has entry n. *)
At(m, b, i, n) == i \in 1..Len(m.vvTried[b]) /\ m.vvTried[b][i] = n
TriedPlaced(m) ==
  /\ \A b \in TriedBucket : \A i, n : At(m, b, i, n) =>
       n \in TriedIds(m) /\ GetTriedBucket[m.mapInfo[n].addr] = b
  /\ \A b \in TriedBucket : \A i, j, n : At(m, b, i, n) /\ At(m, b, j, n) => i = j
  /\ \A n \in TriedIds(m) : \E i : At(m, GetTriedBucket[m.mapInfo[n].addr], i, n)

Counted(m) == m.nTried = Cardinality(TriedIds(m)) /\ m.nNew = Cardinality(NewIds(m))

NewBounded(m) ==
  /\ \A b \in NewBucket : Cardinality(m.vvNew[b]) =< ADDRMAN_NEW_BUCKET_SIZE
  /\ \A n \in Ids(m) : m.mapInfo[n].nRefCount =< ADDRMAN_NEW_BUCKETS_PER_ADDRESS
TriedBounded(m) == \A b \in TriedBucket : Len(m.vvTried[b]) =< ADDRMAN_TRIED_BUCKET_SIZE

Placed(m) == NewPlaced(m) /\ TriedPlaced(m) /\ Counted(m)
Consistent(m) == Typed(m) /\ Indexed(m) /\ Placed(m) /\ NewBounded(m) /\ TriedBounded(m)

-----------------------------------------------------------------------------
(* Sets and sequences. *)

(* The library's order of the naturals, as a fact about subsets of them. *)
LEMMA LeastNatural ==
  ASSUME NEW T \in SUBSET Nat, T # {}
  PROVE  \E n \in T : \A m \in T : n =< m
<1> DEFINE R == OpToRel(<, Nat)
<1>1. IsWellFoundedOn(R, Nat)
  BY NatLessThanWellFounded
<1>2. PICK n \in T : \A m \in T : ~ (<<m, n>> \in R)
  BY <1>1, WFMin
<1>3. ASSUME NEW m \in T PROVE n =< m
  <2>1. m \in Nat /\ n \in Nat
    OBVIOUS
  <2>2. ~ (<<m, n>> \in R)
    BY <1>2
  <2>3. ~ (m < n)
    BY <2>1, <2>2 DEF OpToRel
  <2> QED
    BY <2>1, <2>3
<1> QED
  BY <1>3

(* One element more, or less, in a finite set. *)
LEMMA OneMore ==
  ASSUME NEW S, IsFiniteSet(S), NEW x, x \notin S
  PROVE  /\ IsFiniteSet(S \cup {x}) /\ Cardinality(S) \in Nat
         /\ Cardinality(S \cup {x}) = Cardinality(S) + 1
  BY FS_AddElement, FS_CardinalityType

LEMMA OneLess ==
  ASSUME NEW S, IsFiniteSet(S), NEW x \in S
  PROVE  /\ IsFiniteSet(S \ {x}) /\ Cardinality(S) \in Nat \ {0}
         /\ Cardinality(S \ {x}) \in Nat /\ Cardinality(S \ {x}) = Cardinality(S) - 1
<1>1. Cardinality(S) \in Nat /\ Cardinality(S \ {x}) = Cardinality(S) - 1 /\ IsFiniteSet(S \ {x})
  BY FS_RemoveElement, FS_CardinalityType
<1>2. Cardinality(S \ {x}) \in Nat
  BY <1>1, FS_CardinalityType
<1> QED
  BY <1>1, <1>2

(* The entries of each kind, and the buckets of an entry, are finitely many. *)
LEMMA FiniteParts ==
  ASSUME NEW m, Typed(m)
  PROVE  /\ IsFiniteSet(NewIds(m)) /\ IsFiniteSet(TriedIds(m))
         /\ \A n : IsFiniteSet(Refs(m, n)) /\ Cardinality(Refs(m, n)) \in Nat
         /\ \A b \in NewBucket : IsFiniteSet(m.vvNew[b]) /\ Cardinality(m.vvNew[b]) \in Nat
<1>1. IsFiniteSet(NewIds(m)) /\ IsFiniteSet(TriedIds(m))
  <2>1. NewIds(m) \in SUBSET Ids(m) /\ TriedIds(m) \in SUBSET Ids(m)
    BY DEF NewIds, TriedIds
  <2> QED
    BY <2>1, FS_Subset DEF Typed
<1>2. ASSUME NEW n PROVE IsFiniteSet(Refs(m, n)) /\ Cardinality(Refs(m, n)) \in Nat
  <2>1. Refs(m, n) \in SUBSET NewBucket
    BY DEF Refs
  <2>2. IsFiniteSet(Refs(m, n))
    BY <2>1, FS_Subset, AddrManAssumption
  <2> QED
    BY <2>2, FS_CardinalityType
<1>3. ASSUME NEW b \in NewBucket PROVE IsFiniteSet(m.vvNew[b]) /\ Cardinality(m.vvNew[b]) \in Nat
  <2>1. m.vvNew[b] \in SUBSET Ids(m)
    BY DEF Typed
  <2>2. IsFiniteSet(m.vvNew[b])
    BY <2>1, FS_Subset DEF Typed
  <2> QED
    BY <2>2, FS_CardinalityType
<1> QED
  BY <1>1, <1>2, <1>3

(* The tried buckets are right as long as they and the tried entries stay. *)
LEMMA TriedSame ==
  ASSUME NEW m, NEW s, TriedPlaced(m), s.vvTried = m.vvTried, TriedIds(s) = TriedIds(m),
         \A n \in TriedIds(m) : s.mapInfo[n].addr = m.mapInfo[n].addr
  PROVE  TriedPlaced(s)
<1>1. \A b, i, n : At(s, b, i, n) <=> At(m, b, i, n)
  BY DEF At
<1> QED
  BY <1>1 DEF TriedPlaced

-----------------------------------------------------------------------------
(* vRandom. *)

(* The two entries are the same but for their place in vRandom. *)
SameEntry(e, f) ==
  /\ e.addr = f.addr /\ e.source = f.source
  /\ e.nRefCount = f.nRefCount /\ e.fInTried = f.fInTried

(* The tables of s and m are the same but for vRandom. *)
SameTables(s, m) ==
  /\ Ids(s) = Ids(m)
  /\ \A n \in Ids(m) : SameEntry(s.mapInfo[n], m.mapInfo[n])
  /\ s.mapAddr = m.mapAddr /\ s.nTried = m.nTried /\ s.nNew = m.nNew
  /\ s.vvTried = m.vvTried /\ s.vvNew = m.vvNew

LEMMA SameTablesPlaced ==
  ASSUME NEW m, NEW s, SameTables(s, m)
  PROVE  /\ \A n : Refs(s, n) = Refs(m, n)
         /\ NewIds(s) = NewIds(m) /\ TriedIds(s) = TriedIds(m)
         /\ Placed(m) => Placed(s)
         /\ NewBounded(m) => NewBounded(s)
         /\ TriedBounded(m) => TriedBounded(s)
<1> USE DEF SameTables, SameEntry
<1>1. \A n : Refs(s, n) = Refs(m, n)
  BY DEF Refs
<1>2. NewIds(s) = NewIds(m) /\ TriedIds(s) = TriedIds(m)
  BY DEF NewIds, TriedIds
<1>3. ASSUME Placed(m) PROVE NewPlaced(s)
  BY <1>1, <1>3 DEF Placed, NewPlaced
<1>4. ASSUME Placed(m) PROVE TriedPlaced(s)
  <2>1. TriedPlaced(m)
    BY <1>4 DEF Placed
  <2>2. \A n \in TriedIds(m) : n \in Ids(m)
    BY DEF TriedIds
  <2> QED
    BY <1>2, <2>1, <2>2, TriedSame
<1>5. ASSUME Placed(m) PROVE Counted(s)
  BY <1>2, <1>5 DEF Placed, Counted
<1>6. (NewBounded(m) => NewBounded(s)) /\ (TriedBounded(m) => TriedBounded(s))
  BY DEF NewBounded, TriedBounded
<1> QED
  BY <1>1, <1>2, <1>3, <1>4, <1>5, <1>6 DEF Placed

(* SwapRandom exchanges two positions of vRandom and tells the entries. *)
LEMMA SwapRandomKeeps ==
  ASSUME NEW m, Typed(m), Indexed(m),
         NEW i \in 1..Len(m.vRandom), NEW j \in 1..Len(m.vRandom)
  PROVE  LET s == SwapRandom(m, i, j)
         IN  /\ Typed(s) /\ Indexed(s) /\ SameTables(s, m)
             /\ Len(s.vRandom) = Len(m.vRandom) /\ s.vRandom[j] = m.vRandom[i]
<1> DEFINE s == SwapRandom(m, i, j)
<1>1. CASE i = j
  BY <1>1 DEF SwapRandom, SameTables, SameEntry
<1>2. CASE i # j
  <2> DEFINE L == Len(m.vRandom)
             v == m.vRandom
             x == v[i]
             y == v[j]
             w == [v EXCEPT ![i] = y, ![j] = x]
             f == [m.mapInfo EXCEPT ![x].nRandomPos = j, ![y].nRandomPos = i]
  <2>1. s = [m EXCEPT !.vRandom = w, !.mapInfo = f]
    BY <1>2 DEF SwapRandom
  <2>2. /\ v \in Seq(Ids(m)) /\ L \in Nat /\ DOMAIN v = 1..L
        /\ x \in Ids(m) /\ y \in Ids(m) /\ m.mapInfo \in [Ids(m) -> Info]
    BY DEF Typed
  <2>3. x # y
    BY <1>2 DEF Indexed
  <2>4. w \in Seq(Ids(m)) /\ Len(w) = L
    BY <2>2
  <2>5. \A k \in 1..L : w[k] = IF k = i THEN y ELSE IF k = j THEN x ELSE v[k]
    BY <1>2, <2>2
  <2>6. /\ f \in [Ids(m) -> Info]
        /\ \A n \in Ids(m) : SameEntry(f[n], m.mapInfo[n])
        /\ \A n \in Ids(m) : f[n].nRandomPos = IF n = x THEN j ELSE IF n = y THEN i
                                                 ELSE m.mapInfo[n].nRandomPos
    <3>0. i \in Nat /\ j \in Nat
      BY <2>2
    <3>1. ASSUME NEW n \in Ids(m)
          PROVE  f[n] = IF n = x THEN [m.mapInfo[n] EXCEPT !.nRandomPos = j]
                        ELSE IF n = y THEN [m.mapInfo[n] EXCEPT !.nRandomPos = i]
                        ELSE m.mapInfo[n]
      BY <2>2, <2>3
    <3>2. f = [n \in Ids(m) |-> f[n]]
      BY <2>2
    <3> HIDE DEF f, x, y
    <3>3. ASSUME NEW n \in Ids(m), NEW k \in Nat
          PROVE  LET e == [m.mapInfo[n] EXCEPT !.nRandomPos = k]
                 IN  e \in Info /\ SameEntry(e, m.mapInfo[n]) /\ e.nRandomPos = k
      <4>1. m.mapInfo[n] \in Info
        BY <2>2
      <4> QED
        BY <4>1 DEF Info, SameEntry
    <3>4. \A n \in Ids(m) : m.mapInfo[n] \in Info /\ SameEntry(m.mapInfo[n], m.mapInfo[n])
      BY <2>2 DEF SameEntry
    <3>5. ASSUME NEW n \in Ids(m)
          PROVE  /\ f[n] \in Info /\ SameEntry(f[n], m.mapInfo[n])
                 /\ f[n].nRandomPos = IF n = x THEN j ELSE IF n = y THEN i
                                                 ELSE m.mapInfo[n].nRandomPos
      <4>1. CASE n = x
        <5>1. f[n] = [m.mapInfo[n] EXCEPT !.nRandomPos = j]
          BY <3>1, <4>1
        <5> QED
          BY <3>0, <3>3, <4>1, <5>1
      <4>2. CASE n # x /\ n = y
        <5>1. f[n] = [m.mapInfo[n] EXCEPT !.nRandomPos = i]
          BY <3>1, <4>2
        <5> QED
          BY <3>0, <3>3, <4>2, <5>1
      <4>3. CASE n # x /\ n # y
        BY <3>1, <3>4, <4>3
      <4> QED
        BY <4>1, <4>2, <4>3
    <3> QED
      BY <3>2, <3>5
  <2> HIDE DEF w, f
  <2>7. /\ s.mapInfo = f /\ s.vRandom = w /\ s.mapAddr = m.mapAddr /\ s.nTried = m.nTried
        /\ s.nNew = m.nNew /\ s.vvTried = m.vvTried /\ s.vvNew = m.vvNew
        /\ IsManager(s)
    BY <2>1 DEF Typed, IsManager
  <2> HIDE DEF s
  <2>8. Ids(s) = Ids(m)
    BY <2>6, <2>7 DEF Ids
  <2>9. Typed(s)
    BY <2>4, <2>6, <2>7, <2>8 DEF Typed
  <2>10. SameTables(s, m)
    BY <2>6, <2>7, <2>8 DEF SameTables
  <2>11. Indexed(s)
    <3>1. ASSUME NEW n \in Ids(m)
          PROVE  /\ w[f[n].nRandomPos] = n /\ f[n].nRandomPos \in 1..L
                 /\ m.mapAddr[Host[f[n].addr]] = n
      BY <2>3, <2>5, <2>6 DEF Indexed, SameEntry
    <3>2. ASSUME NEW k \in 1..L PROVE f[w[k]].nRandomPos = k
      <4>1. w[k] \in Ids(m) /\ v[k] \in Ids(m)
        BY <2>2, <2>5
      <4>2. m.mapInfo[v[k]].nRandomPos = k
        BY DEF Indexed
      <4> QED
        BY <1>2, <2>3, <2>5, <2>6, <4>1, <4>2 DEF Indexed
    <3>3. ASSUME NEW h \in Hosts, m.mapAddr[h] # None PROVE Host[f[m.mapAddr[h]].addr] = h
      <4>1. m.mapAddr[h] \in Ids(m)
        BY <3>3 DEF Typed
      <4> QED
        BY <2>6, <3>3, <4>1 DEF Indexed, SameEntry
    <3> QED
      BY <2>4, <2>7, <2>8, <3>1, <3>2, <3>3 DEF Indexed
  <2> QED
    BY <2>4, <2>5, <2>7, <2>9, <2>10, <2>11 DEF s
<1> QED
  BY <1>1, <1>2

-----------------------------------------------------------------------------
(* An entry comes and goes. *)

(* Not all of the first numbers are in use. *)
LEMMA nIdCountFree ==
  ASSUME NEW m, Ids(m) \subseteq Nat, IsFiniteSet(Ids(m))
  PROVE  /\ nIdCount(m) \in Nat /\ nIdCount(m) \notin Ids(m)
         /\ 0..(nIdCount(m) - 1) \subseteq Ids(m)
<1> DEFINE c == Cardinality(Ids(m))
           T == Nat \ Ids(m)
<1>1. c \in Nat
  BY FS_CardinalityType
<1>2. \E n \in 0..c : n \notin Ids(m)
  <2> SUFFICES ASSUME 0..c \subseteq Ids(m) PROVE FALSE
    OBVIOUS
  <2>1. Cardinality(0..c) = c + 1
    BY <1>1, FS_Interval
  <2>2. Cardinality(0..c) =< c
    BY FS_Subset
  <2> QED
    BY <1>1, <2>1, <2>2
<1>3. PICK n \in T : \A k \in T : n =< k
  <2>1. T \in SUBSET Nat /\ T # {}
    BY <1>1, <1>2
  <2> HIDE DEF T
  <2> QED
    BY <2>1, LeastNatural
<1>4. n \in 0..c
  BY <1>1, <1>2, <1>3
<1>5. 0..(n - 1) \subseteq Ids(m)
  BY <1>3
<1>6. n \in 0..c /\ n \notin Ids(m) /\ 0..(n - 1) \subseteq Ids(m)
  BY <1>3, <1>4, <1>5
<1>7. nIdCount(m) \in 0..c /\ nIdCount(m) \notin Ids(m) /\ 0..(nIdCount(m) - 1) \subseteq Ids(m)
  BY <1>6 DEF nIdCount
<1> QED
  BY <1>1, <1>7

(* The fields that Create and Delete leave alone. *)
SameBuckets(s, m) == s.nTried = m.nTried /\ s.vvTried = m.vvTried /\ s.vvNew = m.vvNew

(* Create makes an entry that no bucket has, and that the indexes lead to. *)
Created(c, m, nId, addr, source) ==
  /\ Typed(c) /\ Indexed(c) /\ SameBuckets(c, m) /\ c.nNew = m.nNew
  /\ nId \in Nat /\ nId \notin Ids(m) /\ Ids(c) = Ids(m) \cup {nId}
  /\ \A n \in Ids(m) : c.mapInfo[n] = m.mapInfo[n]
  /\ c.mapInfo[nId].addr = addr /\ c.mapInfo[nId].source = source
  /\ c.mapInfo[nId].nRefCount = 0 /\ ~ c.mapInfo[nId].fInTried
  /\ c.mapInfo[nId] \in Info
  /\ c.mapAddr = [m.mapAddr EXCEPT ![Host[addr]] = nId]
  /\ c.vRandom = Append(m.vRandom, nId)
  /\ c.mapInfo[nId].nRandomPos = Len(m.vRandom) + 1
LEMMA CreateKeeps ==
  ASSUME NEW m, Typed(m), Indexed(m), NEW addr \in Addr, NEW source \in Source,
         m.mapAddr[Host[addr]] = None
  PROVE  Created(Create(m, addr, source), m, nIdCount(m), addr, source)
<1> DEFINE nId == nIdCount(m)
           L == Len(m.vRandom)
           info == [addr |-> addr, source |-> source, nRefCount |-> 0, fInTried |-> FALSE,
                    nRandomPos |-> L + 1]
           f == [n \in Ids(m) \cup {nId} |-> IF n = nId THEN info ELSE m.mapInfo[n]]
           a == [m.mapAddr EXCEPT ![Host[addr]] = nId]
           v == Append(m.vRandom, nId)
           c == Create(m, addr, source)
<1>1. c = [m EXCEPT !.mapInfo = f, !.mapAddr = a, !.vRandom = v]
  BY DEF Create, Typed
<1>2. nId \in Nat /\ nId \notin Ids(m)
  BY nIdCountFree DEF Typed
<1>3. L \in Nat /\ m.vRandom \in Seq(Ids(m))
  BY DEF Typed
<1> DEFINE I == Ids(m) \cup {nId}
<1>4. info \in Info
  BY <1>3 DEF Info
<1>5. f \in [I -> Info] /\ f[nId] = info /\ \A n \in Ids(m) : f[n] = m.mapInfo[n]
  BY <1>2, <1>4 DEF Typed
<1>6. Host[addr] \in Hosts
  BY DEF Hosts
<1>7. a \in [Hosts -> I \cup {None}]
      /\ \A h \in Hosts : a[h] = IF h = Host[addr] THEN nId ELSE m.mapAddr[h]
  BY <1>6 DEF Typed
<1>8. /\ v \in Seq(I) /\ Len(v) = L + 1 /\ v[L + 1] = nId
      /\ \A k \in 1..L : v[k] = m.vRandom[k] /\ m.vRandom[k] \in Ids(m)
  BY <1>3
<1>9. info.addr = addr /\ info.source = source /\ info.nRefCount = 0 /\ info.fInTried = FALSE
      /\ info.nRandomPos = L + 1
  OBVIOUS
<1> HIDE DEF nId, L, info, f, a, v
<1>10. /\ c.mapInfo = f /\ c.mapAddr = a /\ c.vRandom = v /\ SameBuckets(c, m) /\ c.nNew = m.nNew
       /\ IsManager(c)
  BY <1>1 DEF Typed, SameBuckets, IsManager
<1> HIDE DEF c
<1>11. Ids(c) = I
  BY <1>5, <1>10 DEF Ids
<1>12. Typed(c)
  <2>1. I \subseteq Nat /\ IsFiniteSet(I)
    BY <1>2, FS_AddElement DEF Typed
  <2>2. m.vvTried \in [TriedBucket -> Seq(I)] /\ m.vvNew \in [NewBucket -> SUBSET I]
    BY DEF Typed
  <2> HIDE DEF I
  <2> QED
    BY <1>5, <1>7, <1>8, <1>10, <1>11, <2>1, <2>2 DEF Typed, SameBuckets
<1>13. Indexed(c)
  <2>1. ASSUME NEW n \in Ids(m)
        PROVE  /\ a[Host[f[n].addr]] = n /\ f[n].nRandomPos \in 1..(L + 1)
               /\ v[f[n].nRandomPos] = n
    <3>1. m.mapInfo[n].addr \in Addr /\ m.mapAddr[Host[m.mapInfo[n].addr]] = n /\ n # None
      BY AddrManAssumption DEF Typed, Info, Indexed
    <3>2. Host[m.mapInfo[n].addr] \in Hosts /\ Host[m.mapInfo[n].addr] # Host[addr]
      BY <3>1 DEF Hosts
    <3>3. m.mapInfo[n].nRandomPos \in 1..L /\ m.vRandom[m.mapInfo[n].nRandomPos] = n
      BY DEF Indexed, L
    <3> QED
      BY <1>3, <1>5, <1>7, <1>8, <3>1, <3>2, <3>3
  <2>2. a[Host[f[nId].addr]] = nId /\ f[nId].nRandomPos \in 1..(L + 1) /\ v[f[nId].nRandomPos] = nId
    BY <1>3, <1>5, <1>6, <1>7, <1>8, <1>9
  <2>3. ASSUME NEW h \in Hosts, a[h] # None PROVE Host[f[a[h]].addr] = h
    <3>1. CASE h = Host[addr]
      BY <1>5, <1>7, <1>9, <3>1
    <3>2. CASE h # Host[addr]
      <4>1. a[h] = m.mapAddr[h] /\ a[h] \in Ids(m)
        BY <1>7, <2>3, <3>2 DEF Typed
      <4> QED
        BY <1>5, <2>3, <4>1 DEF Indexed
    <3> QED
      BY <3>1, <3>2
  <2>4. ASSUME NEW k \in 1..(L + 1) PROVE f[v[k]].nRandomPos = k
    <3>1. CASE k = L + 1
      BY <1>5, <1>8, <1>9, <3>1
    <3>2. CASE k # L + 1
      <4>1. k \in 1..L
        BY <1>3, <3>2
      <4>2. m.mapInfo[m.vRandom[k]].nRandomPos = k
        BY <4>1 DEF Indexed, L
      <4> QED
        BY <1>5, <1>8, <4>1, <4>2
    <3> QED
      BY <3>1, <3>2
  <2> QED
    BY <1>8, <1>10, <1>11, <2>1, <2>2, <2>3, <2>4 DEF Indexed
<1>14. Created(c, m, nId, addr, source)
  BY <1>2, <1>4, <1>5, <1>9, <1>10, <1>11, <1>12, <1>13 DEF Created, L, a, v
<1> QED
  BY <1>14 DEF nId, c

(* Delete takes an entry that no bucket has out of the indexes. *)
LEMMA DeleteKeeps ==
  ASSUME NEW m, Typed(m), Indexed(m), NEW nId \in Ids(m), m.nNew # 0,
         m.vvTried \in [TriedBucket -> Seq(Ids(m) \ {nId})],
         m.vvNew \in [NewBucket -> SUBSET (Ids(m) \ {nId})]
  PROVE  LET d == Delete(m, nId)
         IN  /\ Typed(d) /\ Indexed(d) /\ SameBuckets(d, m) /\ d.nNew = m.nNew - 1
             /\ Ids(d) = Ids(m) \ {nId}
             /\ \A n \in Ids(d) : SameEntry(d.mapInfo[n], m.mapInfo[n])
<1> DEFINE L == Len(m.vRandom)
           p == m.mapInfo[nId].nRandomPos
           s == SwapRandom(m, p, L)
           I == Ids(m) \ {nId}
           h0 == Host[m.mapInfo[nId].addr]
           f == [n \in I |-> s.mapInfo[n]]
           a == [s.mapAddr EXCEPT ![h0] = None]
           v == Front(s.vRandom)
           d == Delete(m, nId)
<1>1. L \in Nat /\ p \in 1..L /\ m.vRandom[p] = nId
  BY DEF Typed, Indexed
<1>2. L \in 1..L
  BY <1>1
<1>3. Typed(s) /\ Indexed(s) /\ SameTables(s, m) /\ Len(s.vRandom) = L /\ s.vRandom[L] = nId
  BY <1>1, <1>2, SwapRandomKeeps
<1>4. d = [s EXCEPT !.vRandom = v, !.mapAddr = a, !.mapInfo = f, !.nNew = s.nNew - 1]
  BY <1>3 DEF Delete, Typed
<1> HIDE DEF s
<1>5. /\ Ids(s) = Ids(m) /\ s.nNew = m.nNew /\ SameBuckets(s, m) /\ s.mapAddr = m.mapAddr
      /\ \A n \in Ids(m) : SameEntry(s.mapInfo[n], m.mapInfo[n])
  BY <1>3 DEF SameTables, SameBuckets
<1>6. f \in [I -> Info] /\ \A n \in I : f[n] = s.mapInfo[n]
  BY <1>3, <1>5 DEF Typed
<1>7. h0 \in Hosts
  BY DEF Hosts, Typed, Info
<1>8. /\ \A h \in Hosts : a[h] = IF h = h0 THEN None ELSE m.mapAddr[h]
      /\ a \in [Hosts -> Ids(m) \cup {None}]
  BY <1>3, <1>5 DEF Typed
<1>9. \A n \in Ids(m) : s.mapInfo[n].addr = m.mapInfo[n].addr /\ Host[m.mapInfo[n].addr] \in Hosts
  BY <1>5 DEF SameEntry, Hosts, Typed, Info
<1>10. a \in [Hosts -> I \cup {None}]
  <2>1. ASSUME NEW h \in Hosts, h # h0 PROVE m.mapAddr[h] # nId
    <3> SUFFICES ASSUME m.mapAddr[h] = nId PROVE FALSE
      OBVIOUS
    <3>1. m.mapAddr[h] # None
      BY AddrManAssumption DEF Typed
    <3> QED
      BY <2>1, <3>1 DEF Indexed
  <2> QED
    BY <1>8, <2>1
<1>11. \A k \in 1..L : s.vRandom[k] \in Ids(m) /\ s.mapInfo[s.vRandom[k]].nRandomPos = k
  BY <1>3, <1>5 DEF Typed, Indexed
<1>12. v \in Seq(I) /\ Len(v) = L - 1 /\ \A k \in 1..(L - 1) : v[k] = s.vRandom[k]
  <2>1. s.vRandom \in Seq(Ids(m))
    BY <1>3, <1>5 DEF Typed
  <2>2. v = SubSeq(s.vRandom, 1, L - 1)
    BY <1>3 DEF Front
  <2>3. v = [k \in 1..(L - 1) |-> s.vRandom[k]]
    BY <1>1, <1>3, <2>1, <2>2
  <2>4. ASSUME NEW k \in 1..(L - 1) PROVE s.vRandom[k] \in I
    <3>1. k \in 1..L /\ k # L
      BY <1>1
    <3> QED
      BY <1>3, <1>1, <1>2, <1>11, <3>1
  <2>5. L - 1 \in Nat
    BY <1>1
  <2> HIDE DEF v
  <2>6. v \in Seq(I)
    BY <2>3, <2>4, <2>5
  <2>7. DOMAIN v = 1..(L - 1)
    BY <2>3
  <2> QED
    BY <2>3, <2>5, <2>6, <2>7
<1> HIDE DEF L, p, f, a, v, h0
<1>13. /\ d.mapInfo = f /\ d.mapAddr = a /\ d.vRandom = v /\ SameBuckets(d, m)
       /\ d.nNew = m.nNew - 1
       /\ IsManager(d)
  BY <1>3, <1>4, <1>5 DEF Typed, SameBuckets, IsManager
<1> HIDE DEF d
<1>14. Ids(d) = I
  BY <1>6, <1>13 DEF Ids
<1>15. Typed(d)
  <2>1. I \subseteq Nat /\ IsFiniteSet(I)
    BY FS_RemoveElement DEF Typed
  <2>2. m.nNew - 1 \in Nat /\ m.nTried \in Nat
    BY DEF Typed
  <2> HIDE DEF I
  <2> QED
    BY <1>6, <1>10, <1>12, <1>13, <1>14, <2>1, <2>2 DEF Typed, SameBuckets, I
<1>16. Indexed(d)
  <2>1. ASSUME NEW n \in I
        PROVE  /\ a[Host[f[n].addr]] = n /\ f[n].nRandomPos \in 1..(L - 1)
               /\ v[f[n].nRandomPos] = n
    <3>1. /\ s.mapAddr[Host[s.mapInfo[n].addr]] = n
          /\ s.mapInfo[n].nRandomPos \in 1..L /\ s.vRandom[s.mapInfo[n].nRandomPos] = n
      BY <1>3, <1>5 DEF Indexed
    <3>2. s.mapInfo[n].nRandomPos # L
      BY <1>3, <3>1
    <3>3. s.mapInfo[n].nRandomPos \in 1..(L - 1)
      BY <1>1, <3>1, <3>2
    <3>4. Host[s.mapInfo[n].addr] # h0
      BY <1>5, <1>9, <3>1 DEF Indexed, h0
    <3> QED
      BY <1>5, <1>6, <1>8, <1>9, <1>12, <3>1, <3>3, <3>4
  <2>2. ASSUME NEW h \in Hosts, a[h] # None PROVE Host[f[a[h]].addr] = h
    <3>1. a[h] = m.mapAddr[h] /\ a[h] \in I
      BY <1>8, <1>10, <2>2
    <3> QED
      BY <1>6, <1>9, <2>2, <3>1 DEF Indexed
  <2>3. ASSUME NEW k \in 1..(L - 1) PROVE f[v[k]].nRandomPos = k
    <3>1. k \in 1..L /\ v[k] = s.vRandom[k]
      BY <1>1, <1>12
    <3>2. v[k] \in I
      BY <1>1, <1>12
    <3> QED
      BY <1>6, <1>11, <3>1, <3>2
  <2> QED
    BY <1>12, <1>13, <1>14, <2>1, <2>2, <2>3 DEF Indexed
<1> QED
  BY <1>5, <1>6, <1>13, <1>14, <1>15, <1>16 DEF d

-----------------------------------------------------------------------------
(* The new buckets. *)

(* A manager is typed and indexed as before if mapAddr, vRandom, and the    *)
(* address and place of every entry stay.                                   *)
LEMMA RebuiltKeeps ==
  ASSUME NEW m, Typed(m), Indexed(m), NEW s, IsManager(s),
         s.mapAddr = m.mapAddr, s.vRandom = m.vRandom, s.mapInfo \in [Ids(m) -> Info],
         \A n \in Ids(m) : /\ s.mapInfo[n].addr = m.mapInfo[n].addr
                           /\ s.mapInfo[n].nRandomPos = m.mapInfo[n].nRandomPos,
         s.nTried \in Nat, s.nNew \in Nat, s.vvTried \in [TriedBucket -> Seq(Ids(m))],
         s.vvNew \in [NewBucket -> SUBSET Ids(m)]
  PROVE  Ids(s) = Ids(m) /\ Typed(s) /\ Indexed(s)
<1>1. Ids(s) = Ids(m)
  BY DEF Ids
<1>2. Typed(s)
  BY <1>1 DEF Typed
<1>3. \A h \in Hosts : m.mapAddr[h] # None => m.mapAddr[h] \in Ids(m)
  BY DEF Typed
<1>4. \A i \in 1..Len(m.vRandom) : m.vRandom[i] \in Ids(m)
  BY DEF Typed
<1> QED
  BY <1>1, <1>2, <1>3, <1>4 DEF Indexed

(* What Unreference does to an entry x of bucket b: it has one reference    *)
(* less, or was deleted with the last one.                                  *)
Unreferenced(u, m, x, b) ==
  /\ Typed(u) /\ Indexed(u)
  /\ u.nTried = m.nTried /\ u.vvTried = m.vvTried
  /\ u.vvNew = [m.vvNew EXCEPT ![b] = @ \ {x}]
  /\ \A n \in Ids(m) \ {x} : n \in Ids(u) /\ SameEntry(u.mapInfo[n], m.mapInfo[n])
  /\ \/ /\ Refs(m, x) # {b} /\ Ids(u) = Ids(m) /\ u.nNew = m.nNew
        /\ u.mapInfo[x].addr = m.mapInfo[x].addr
        /\ u.mapInfo[x].nRefCount = m.mapInfo[x].nRefCount - 1
        /\ u.mapInfo[x].fInTried = m.mapInfo[x].fInTried
     \/ Refs(m, x) = {b} /\ Ids(u) = Ids(m) \ {x} /\ u.nNew = m.nNew - 1

LEMMA UnreferenceEffect ==
  ASSUME NEW m, Typed(m), Indexed(m), NEW b \in NewBucket, NEW x \in m.vvNew[b],
         m.mapInfo[x].nRefCount = Cardinality(Refs(m, x)), m.nNew # 0,
         m.vvTried \in [TriedBucket -> Seq(Ids(m) \ {x})]
  PROVE  Unreferenced(Unreference(m, x, b), m, x, b)
<1> DEFINE V == [m.vvNew EXCEPT ![b] = @ \ {x}]
           f == [m.mapInfo EXCEPT ![x].nRefCount = @ - 1]
           s == [m EXCEPT !.mapInfo = f, !.vvNew = V]
           u == Unreference(m, x, b)
<1>1. s = [m EXCEPT !.mapInfo[x].nRefCount = @ - 1, !.vvNew[b] = @ \ {x}]
  BY DEF Typed
<1>2. u = IF s.mapInfo[x].nRefCount = 0 THEN Delete(s, x) ELSE s
  BY <1>1 DEF Unreference
<1>3. x \in Ids(m) /\ x \in Nat
  BY DEF Typed
<1>4. b \in Refs(m, x) /\ IsFiniteSet(Refs(m, x)) /\ Cardinality(Refs(m, x)) \in Nat
  BY FiniteParts DEF Refs
<1>5. Cardinality(Refs(m, x)) # 0 /\ (Cardinality(Refs(m, x)) = 1 <=> Refs(m, x) = {b})
  <2> DEFINE S == Refs(m, x)
  <2> HIDE DEF S
  <2>1. b \in S /\ IsFiniteSet(S)
    BY <1>4 DEF S
  <2>2. Cardinality(S) # 0 /\ (Cardinality(S) = 1 <=> \E y : S = {y})
    BY <2>1, FS_EmptySet, FS_Singleton
  <2>3. (\E y : S = {y}) <=> S = {b}
    BY <2>1
  <2> QED
    BY <2>2, <2>3 DEF S
<1> DEFINE c == m.mapInfo[x].nRefCount
           e == [m.mapInfo[x] EXCEPT !.nRefCount = c - 1]
<1>6. m.mapInfo[x] \in Info /\ c \in Nat \ {0} /\ (c = 1 <=> Refs(m, x) = {b})
  BY <1>3, <1>4, <1>5 DEF Typed
<1>7. /\ e \in Info /\ e.addr = m.mapInfo[x].addr /\ e.nRefCount = c - 1
      /\ e.fInTried = m.mapInfo[x].fInTried /\ e.nRandomPos = m.mapInfo[x].nRandomPos
  BY <1>6 DEF Info
<1>8. f[x] = e /\ \A n \in Ids(m) \ {x} : f[n] = m.mapInfo[n]
  BY <1>3 DEF Typed
<1>9. f \in [Ids(m) -> Info]
  <2>1. m.mapInfo \in [Ids(m) -> Info] /\ f = [m.mapInfo EXCEPT ![x] = e]
    BY <1>3 DEF Typed
  <2> HIDE DEF f, e
  <2> QED
    BY <1>7, <2>1
<1>v. /\ V \in [NewBucket -> SUBSET Ids(m)]
      /\ \A d \in NewBucket : V[d] = IF d = b THEN m.vvNew[b] \ {x} ELSE m.vvNew[d]
  BY DEF Typed
<1> HIDE DEF e, f, V
<1>r. IsManager(m)
  BY DEF Typed
<1>s. s = [m EXCEPT !.mapInfo = f, !.vvNew = V]
  OBVIOUS
<1> HIDE DEF s
<1>10. /\ s.mapInfo = f /\ s.vvNew = V /\ s.mapAddr = m.mapAddr /\ s.vRandom = m.vRandom
       /\ s.nTried = m.nTried /\ s.nNew = m.nNew /\ s.vvTried = m.vvTried
       /\ IsManager(s)
  BY <1>r, <1>s DEF IsManager
<1>12. \A n \in Ids(m) : /\ f[n].addr = m.mapInfo[n].addr
                         /\ f[n].nRandomPos = m.mapInfo[n].nRandomPos
  BY <1>7, <1>8
<1>13. Ids(s) = Ids(m) /\ Typed(s) /\ Indexed(s)
  <2>1. m.nTried \in Nat /\ m.nNew \in Nat /\ m.vvTried \in [TriedBucket -> Seq(Ids(m))]
    BY DEF Typed
  <2> QED
    BY <1>9, <1>10, <1>v, <1>12, <2>1, RebuiltKeeps
<1>16. \A n \in Ids(m) \ {x} : SameEntry(s.mapInfo[n], m.mapInfo[n])
  BY <1>8, <1>10 DEF SameEntry
<1>17. CASE c # 1
  <2>1. u = s
    BY <1>2, <1>6, <1>7, <1>8, <1>10, <1>17
  <2> QED
    BY <1>6, <1>7, <1>8, <1>10, <1>13, <1>16, <1>17, <2>1 DEF Unreferenced, V
<1>18. CASE c = 1
  <2>1. u = Delete(s, x)
    BY <1>2, <1>6, <1>7, <1>8, <1>10, <1>18
  <2>2. Refs(m, x) = {b}
    BY <1>6, <1>18
  <2>3. ASSUME NEW d \in NewBucket PROVE V[d] \subseteq Ids(m) \ {x}
    <3>1. CASE d = b
      BY <1>v, <3>1
    <3>2. CASE d # b
      <4>1. x \notin m.vvNew[d]
        BY <2>2, <3>2 DEF Refs
      <4> QED
        BY <1>v, <3>2, <4>1
    <3> QED
      BY <3>1, <3>2
  <2>4. V \in [NewBucket -> SUBSET (Ids(m) \ {x})]
    BY <1>v, <2>3
  <2> DEFINE d == Delete(s, x)
  <2>5. /\ Typed(d) /\ Indexed(d) /\ SameBuckets(d, s) /\ d.nNew = s.nNew - 1
        /\ Ids(d) = Ids(s) \ {x}
        /\ \A n \in Ids(d) : SameEntry(d.mapInfo[n], s.mapInfo[n])
    BY <1>3, <1>10, <1>13, <2>4, DeleteKeeps
  <2> HIDE DEF d
  <2>6. \A n \in Ids(m) \ {x} : n \in Ids(d) /\ SameEntry(d.mapInfo[n], m.mapInfo[n])
    BY <1>13, <1>16, <2>5 DEF SameEntry
  <2>7. Unreferenced(d, m, x, b)
    BY <1>10, <1>13, <2>2, <2>5, <2>6 DEF Unreferenced, SameBuckets, V
  <2> QED
    BY <2>1, <2>7 DEF d
<1> QED
  BY <1>17, <1>18

(* Add_ works on entry nId: it is not a tried one, and counts as a new one  *)
(* even if it is in no bucket yet.                                          *)
AlmostPlaced(m, nId) ==
  /\ \A n \in Ids(m) : m.mapInfo[n].nRefCount = Cardinality(Refs(m, n))
  /\ \A n \in Ids(m) \ {nId} : m.mapInfo[n].fInTried <=> Refs(m, n) = {}
  /\ ~ m.mapInfo[nId].fInTried
  /\ TriedPlaced(m)
  /\ m.nTried = Cardinality(TriedIds(m)) /\ m.nNew = Cardinality(NewIds(m) \cup {nId})

(* Entry nId takes the place of the entries R in bucket b, at most one, and *)
(* those of them that were in no other bucket, D, are deleted.              *)
TakesPlace(r, m, nId, b, R, D) ==
  /\ Ids(r) = Ids(m) \ D
  /\ r.vvTried = m.vvTried /\ r.nTried = m.nTried
  /\ r.vvNew = [m.vvNew EXCEPT ![b] = (@ \ R) \cup {nId}]
  /\ r.nNew = m.nNew - Cardinality(D)
  /\ \A n \in Ids(r) :
       /\ r.mapInfo[n].addr = m.mapInfo[n].addr
       /\ r.mapInfo[n].fInTried = m.mapInfo[n].fInTried
       /\ r.mapInfo[n].nRefCount
            = m.mapInfo[n].nRefCount + (IF n = nId THEN 1 ELSE IF n \in R THEN -1 ELSE 0)
  /\ R \subseteq m.vvNew[b] /\ D = { n \in R : Refs(m, n) = {b} }
  /\ R = {} \/ \E x : R = {x}
  /\ R = {} => Cardinality(m.vvNew[b]) # ADDRMAN_NEW_BUCKET_SIZE

LEMMA TakesPlaceKeeps ==
  ASSUME NEW m, Typed(m), NewBounded(m), TriedBounded(m), NEW nId \in Ids(m),
         AlmostPlaced(m, nId), m.mapInfo[nId].nRefCount < ADDRMAN_NEW_BUCKETS_PER_ADDRESS,
         NEW b \in NewBucket, nId \notin m.vvNew[b],
         NEW r, Typed(r), NEW R, NEW D, TakesPlace(r, m, nId, b, R, D)
  PROVE  Placed(r) /\ NewBounded(r) /\ TriedBounded(r)
<1>1. /\ R \subseteq Ids(m) /\ D \subseteq R /\ nId \notin R
      /\ \A n \in R : b \in Refs(m, n) /\ Refs(m, n) # {}
  BY DEF TakesPlace, Typed, Refs
<1>2. \A n \in Ids(m) : /\ IsFiniteSet(Refs(m, n)) /\ Cardinality(Refs(m, n)) \in Nat
                        /\ m.mapInfo[n].nRefCount = Cardinality(Refs(m, n))
  BY FiniteParts DEF AlmostPlaced
<1>3. ASSUME NEW n \in Ids(r)
      PROVE  Refs(r, n) = IF n = nId THEN Refs(m, n) \cup {b}
                          ELSE IF n \in R THEN Refs(m, n) \ {b} ELSE Refs(m, n)
  <2>1. ASSUME NEW d \in NewBucket
        PROVE  r.vvNew[d] = IF d = b THEN (m.vvNew[b] \ R) \cup {nId} ELSE m.vvNew[d]
    BY DEF TakesPlace, Typed
  <2> QED
    BY <1>1, <2>1 DEF Refs
<1>4. b \notin Refs(m, nId)
  BY DEF Refs
<1>5. ASSUME NEW n \in R \ D
      PROVE  Cardinality(Refs(m, n) \ {b}) = Cardinality(Refs(m, n)) - 1 /\ Refs(m, n) \ {b} # {}
  <2>1. n \in Ids(m) /\ b \in Refs(m, n) /\ Refs(m, n) # {b}
    BY <1>1, <1>5 DEF TakesPlace
  <2> QED
    BY <1>2, <2>1, OneLess
<1>6. NewPlaced(r)
  <2> SUFFICES ASSUME NEW n \in Ids(r)
               PROVE  /\ r.mapInfo[n].nRefCount = Cardinality(Refs(r, n))
                      /\ r.mapInfo[n].fInTried <=> Refs(r, n) = {}
    BY DEF NewPlaced
  <2>0. n \in Ids(m) /\ n \notin D
    BY DEF TakesPlace
  <2>1. CASE n = nId
    <3>1. r.mapInfo[n].nRefCount = m.mapInfo[n].nRefCount + 1 /\ ~ r.mapInfo[n].fInTried
      BY <2>1 DEF TakesPlace, AlmostPlaced
    <3>2. Cardinality(Refs(m, n) \cup {b}) = Cardinality(Refs(m, n)) + 1
      BY <1>2, <1>4, <2>0, <2>1, OneMore
    <3> QED
      BY <1>2, <1>3, <2>0, <2>1, <3>1, <3>2
  <2>2. CASE n \in R
    <3>1. r.mapInfo[n].nRefCount = m.mapInfo[n].nRefCount - 1
      BY <1>1, <1>2, <2>0, <2>2 DEF TakesPlace
    <3>2. ~ r.mapInfo[n].fInTried
      BY <1>1, <2>0, <2>2 DEF TakesPlace, AlmostPlaced
    <3> QED
      BY <1>1, <1>2, <1>3, <1>5, <2>0, <2>2, <3>1, <3>2
  <2>3. CASE n # nId /\ n \notin R
    <3>1. r.mapInfo[n].nRefCount = m.mapInfo[n].nRefCount
      BY <1>2, <2>0, <2>3 DEF TakesPlace
    <3>2. r.mapInfo[n].fInTried = m.mapInfo[n].fInTried
      BY <2>0 DEF TakesPlace
    <3> QED
      BY <1>2, <1>3, <2>0, <2>3, <3>1, <3>2 DEF AlmostPlaced
  <2> QED
    BY <2>1, <2>2, <2>3
<1>7. \A n \in D : ~ m.mapInfo[n].fInTried
  BY <1>1 DEF AlmostPlaced
<1>8. TriedIds(r) = TriedIds(m)
  BY <1>7 DEF TakesPlace, TriedIds
<1>9. TriedPlaced(r)
  <2>1. \A n \in TriedIds(m) : r.mapInfo[n].addr = m.mapInfo[n].addr
    BY <1>8 DEF TakesPlace, TriedIds
  <2> QED
    BY <1>8, <2>1, TriedSame DEF TakesPlace, AlmostPlaced
<1>10. NewIds(r) = (NewIds(m) \cup {nId}) \ D
  <2>1. ASSUME NEW n \in Ids(r)
        PROVE  r.mapInfo[n].nRefCount # 0 <=> n \in NewIds(m) \cup {nId}
    <3>1. n \in Ids(m) /\ n \notin D
      BY DEF TakesPlace
    <3>2. r.mapInfo[n].nRefCount = Cardinality(Refs(r, n)) /\ IsFiniteSet(Refs(r, n))
      BY <1>6, FiniteParts DEF NewPlaced
    <3>3. r.mapInfo[n].nRefCount # 0 <=> Refs(r, n) # {}
      BY <3>2, FS_EmptySet
    <3>4. m.mapInfo[n].nRefCount # 0 <=> Refs(m, n) # {}
      BY <1>2, <3>1, FS_EmptySet
    <3>5. Refs(r, n) # {} <=> n = nId \/ Refs(m, n) # {}
      BY <1>1, <1>3, <1>5, <3>1
    <3> QED
      BY <3>1, <3>3, <3>4, <3>5 DEF NewIds
  <2>2. NewIds(m) \cup {nId} \subseteq Ids(m) /\ Ids(r) = Ids(m) \ D
    BY DEF NewIds, TakesPlace
  <2> QED
    BY <2>1, <2>2 DEF NewIds
<1>11. Counted(r)
  <2> DEFINE S == NewIds(m) \cup {nId}
  <2>1. IsFiniteSet(S) /\ Cardinality(S) \in Nat
    BY FiniteParts, FS_AddElement, FS_CardinalityType
  <2>2. D \subseteq S
    <3> SUFFICES ASSUME NEW n \in D PROVE n \in NewIds(m)
      OBVIOUS
    <3>1. n \in Ids(m) /\ Refs(m, n) # {}
      BY <1>1
    <3> QED
      BY <1>2, <3>1, FS_EmptySet DEF NewIds
  <2> HIDE DEF S
  <2>3. Cardinality(S \ D) = Cardinality(S) - Cardinality(D)
    <3>1. CASE D = {}
      BY <2>1, <3>1, FS_EmptySet
    <3>2. CASE D # {}
      <4>1. PICK x : D = {x}
        BY <1>1, <3>2 DEF TakesPlace
      <4>2. Cardinality(D) = 1
        BY <4>1, FS_Singleton
      <4> QED
        BY <2>1, <2>2, <4>1, <4>2, OneLess
    <3> QED
      BY <3>1, <3>2
  <2>4. r.nNew = Cardinality(S) - Cardinality(D)
    BY DEF TakesPlace, AlmostPlaced, S
  <2> QED
    BY <1>8, <1>10, <2>3, <2>4 DEF TakesPlace, AlmostPlaced, Counted, S
<1>12. NewBounded(r)
  <2>0. /\ ADDRMAN_NEW_BUCKETS_PER_ADDRESS \in Nat \ {0}
        /\ ADDRMAN_NEW_BUCKET_SIZE \in Nat \ {0}
    BY AddrManAssumption
  <2>1. ASSUME NEW d \in NewBucket PROVE Cardinality(r.vvNew[d]) =< ADDRMAN_NEW_BUCKET_SIZE
    <3>0. /\ IsFiniteSet(m.vvNew[d]) /\ Cardinality(m.vvNew[d]) \in Nat
          /\ Cardinality(m.vvNew[d]) =< ADDRMAN_NEW_BUCKET_SIZE
      BY FiniteParts DEF NewBounded
    <3>1. CASE d # b
      BY <3>0, <3>1 DEF TakesPlace, Typed
    <3>2. CASE d = b
      <4> DEFINE S == m.vvNew[b]
      <4>1. r.vvNew[b] = (S \ R) \cup {nId}
        BY DEF TakesPlace, Typed
      <4>2. IsFiniteSet(S) /\ Cardinality(S) \in Nat /\ Cardinality(S) =< ADDRMAN_NEW_BUCKET_SIZE
        BY <3>0, <3>2
      <4> HIDE DEF S
      <4>3. nId \notin S /\ R \subseteq S
        BY DEF S, TakesPlace
      <4>4. CASE R = {}
        <5>1. S \ R = S /\ Cardinality(S) # ADDRMAN_NEW_BUCKET_SIZE
          BY <4>4 DEF TakesPlace, S
        <5>2. Cardinality(S \cup {nId}) = Cardinality(S) + 1
          BY <4>2, <4>3, OneMore
        <5>3. Cardinality(S) + 1 =< ADDRMAN_NEW_BUCKET_SIZE
          BY <2>0, <4>2, <5>1
        <5> QED
          BY <3>2, <4>1, <5>1, <5>2, <5>3
      <4>5. CASE R # {}
        <5>1. PICK x : R = {x}
          BY <4>5 DEF TakesPlace
        <5>2. /\ IsFiniteSet(S \ R) /\ Cardinality(S \ R) = Cardinality(S) - 1
          BY <4>2, <4>3, <5>1, OneLess
        <5>3. Cardinality((S \ R) \cup {nId}) = Cardinality(S \ R) + 1
          BY <4>3, <5>2, OneMore
        <5> QED
          BY <3>2, <4>1, <4>2, <5>2, <5>3
      <4> QED
        BY <4>4, <4>5
    <3> QED
      BY <3>1, <3>2
  <2>2. ASSUME NEW n \in Ids(r)
        PROVE  r.mapInfo[n].nRefCount =< ADDRMAN_NEW_BUCKETS_PER_ADDRESS
    <3>1. n \in Ids(m)
      BY DEF TakesPlace
    <3>2. m.mapInfo[n].nRefCount \in Nat /\ m.mapInfo[n].nRefCount =< ADDRMAN_NEW_BUCKETS_PER_ADDRESS
      BY <1>2, <3>1 DEF NewBounded
    <3>3. \/ n = nId /\ r.mapInfo[n].nRefCount = m.mapInfo[n].nRefCount + 1
          \/ r.mapInfo[n].nRefCount = m.mapInfo[n].nRefCount - 1
          \/ r.mapInfo[n].nRefCount = m.mapInfo[n].nRefCount
      BY <3>2 DEF TakesPlace
    <3> QED
      BY <2>0, <3>2, <3>3
  <2> QED
    BY <2>1, <2>2 DEF NewBounded
<1>13. TriedBounded(r)
  BY DEF TakesPlace, TriedBounded
<1> QED
  BY <1>6, <1>9, <1>11, <1>12, <1>13 DEF Placed

(* A manager is typed and indexed as before if only the count of references *)
(* of one entry changes.                                                    *)
Recounted(s, m, nId, count) ==
  /\ Typed(s) /\ Indexed(s) /\ Ids(s) = Ids(m) /\ SameBuckets(s, m) /\ s.nNew = m.nNew
  /\ \A n \in Ids(m) \ {nId} : s.mapInfo[n] = m.mapInfo[n]
  /\ s.mapInfo[nId].addr = m.mapInfo[nId].addr
  /\ s.mapInfo[nId].fInTried = m.mapInfo[nId].fInTried
  /\ s.mapInfo[nId].nRefCount = count

LEMMA RecountKeeps ==
  ASSUME NEW m, Typed(m), Indexed(m), NEW nId \in Ids(m), NEW count \in Nat
  PROVE  Recounted([m EXCEPT !.mapInfo[nId].nRefCount = count], m, nId, count)
<1> DEFINE e == [m.mapInfo[nId] EXCEPT !.nRefCount = count]
           f == [m.mapInfo EXCEPT ![nId] = e]
           s == [m EXCEPT !.mapInfo[nId].nRefCount = count]
<1>1. s = [m EXCEPT !.mapInfo = f]
  BY DEF Typed
<1>2. m.mapInfo \in [Ids(m) -> Info] /\ m.mapInfo[nId] \in Info
  BY DEF Typed
<1>3. /\ e \in Info /\ e.addr = m.mapInfo[nId].addr /\ e.nRefCount = count
      /\ e.fInTried = m.mapInfo[nId].fInTried /\ e.nRandomPos = m.mapInfo[nId].nRandomPos
  BY <1>2 DEF Info
<1> HIDE DEF e
<1>4. f \in [Ids(m) -> Info] /\ f[nId] = e /\ \A n \in Ids(m) \ {nId} : f[n] = m.mapInfo[n]
  BY <1>2, <1>3
<1> HIDE DEF f, s
<1>5. /\ s.mapInfo = f /\ s.mapAddr = m.mapAddr /\ s.vRandom = m.vRandom
      /\ SameBuckets(s, m) /\ s.nNew = m.nNew
      /\ IsManager(s)
  BY <1>1 DEF Typed, SameBuckets, IsManager
<1>6. \A n \in Ids(m) : /\ f[n].addr = m.mapInfo[n].addr
                        /\ f[n].nRandomPos = m.mapInfo[n].nRandomPos
  BY <1>3, <1>4
<1>7. Ids(s) = Ids(m) /\ Typed(s) /\ Indexed(s)
  BY <1>4, <1>5, <1>6, RebuiltKeeps DEF Typed, SameBuckets
<1> QED
  BY <1>3, <1>4, <1>5, <1>7 DEF Recounted, s

(* The same for the bucket the entry enters. *)
LEMMA EnterKeeps ==
  ASSUME NEW m, Typed(m), Indexed(m), NEW b \in NewBucket, NEW nId \in Ids(m)
  PROVE  LET s == [m EXCEPT !.vvNew[b] = @ \cup {nId}]
         IN  /\ Typed(s) /\ Indexed(s) /\ Ids(s) = Ids(m) /\ s.mapInfo = m.mapInfo
             /\ s.nTried = m.nTried /\ s.vvTried = m.vvTried /\ s.nNew = m.nNew
             /\ s.vvNew = [m.vvNew EXCEPT ![b] = @ \cup {nId}]
<1> DEFINE V == [m.vvNew EXCEPT ![b] = @ \cup {nId}]
           s == [m EXCEPT !.vvNew[b] = @ \cup {nId}]
<1>1. s = [m EXCEPT !.vvNew = V]
  BY DEF Typed
<1>2. V \in [NewBucket -> SUBSET Ids(m)]
  BY DEF Typed
<1> HIDE DEF V, s
<1>3. /\ s.mapInfo = m.mapInfo /\ s.mapAddr = m.mapAddr /\ s.vRandom = m.vRandom
      /\ s.nTried = m.nTried /\ s.vvTried = m.vvTried /\ s.nNew = m.nNew /\ s.vvNew = V
      /\ IsManager(s)
  BY <1>1 DEF Typed, IsManager
<1>4. Ids(s) = Ids(m) /\ Typed(s) /\ Indexed(s)
  BY <1>2, <1>3, RebuiltKeeps DEF Typed
<1> QED
  BY <1>3, <1>4 DEF s, V

(* What the end of Add_ forgets: nothing, or one entry, not a tried one, of *)
(* a bucket that was full.                                                  *)
Forgets(r, m) ==
  \A n \in Ids(m) :
    \/ n \in Ids(r) /\ r.mapInfo[n].addr = m.mapInfo[n].addr
    \/ /\ ~ m.mapInfo[n].fInTried
       /\ \E b \in NewBucket : /\ Cardinality(m.vvNew[b]) = ADDRMAN_NEW_BUCKET_SIZE
                               /\ m.vvNew[b] \ r.vvNew[b] = {n}

LEMMA AddToBucketKeeps ==
  ASSUME NEW m, Typed(m), Indexed(m), NewBounded(m), TriedBounded(m), NEW nId \in Ids(m),
         AlmostPlaced(m, nId), m.mapInfo[nId].nRefCount < ADDRMAN_NEW_BUCKETS_PER_ADDRESS,
         NEW b \in NewBucket, NEW r \in AddToBucket(m, nId, b)
  PROVE  Consistent(r) /\ Forgets(r, m)
<1> DEFINE c == m.mapInfo[nId].nRefCount + 1
           raised == [m EXCEPT !.mapInfo[nId].nRefCount = c]
<1>0. \A n \in Ids(m) : IsFiniteSet(Refs(m, n)) /\ m.mapInfo[n].nRefCount = Cardinality(Refs(m, n))
  BY FiniteParts DEF AlmostPlaced
<1>1. CASE nId \in m.vvNew[b]
  <2>1. r = m
    BY <1>1 DEF AddToBucket
  <2>2. Refs(m, nId) # {}
    BY <1>1 DEF Refs
  <2>3. NewPlaced(m)
    BY <2>2 DEF AlmostPlaced, NewPlaced
  <2>4. m.mapInfo[nId].nRefCount # 0
    BY <1>0, <2>2, FS_EmptySet
  <2>5. NewIds(m) \cup {nId} = NewIds(m)
    BY <2>4 DEF NewIds
  <2> QED
    BY <2>1, <2>3, <2>5 DEF AlmostPlaced, Consistent, Placed, Counted, Forgets
<1>2. CASE nId \notin m.vvNew[b]
  <2>1. c \in Nat
    BY DEF Typed, Info
  <2>2. raised = [m EXCEPT !.mapInfo[nId].nRefCount = @ + 1]
    OBVIOUS
  <2>3. Recounted(raised, m, nId, c)
    BY <2>1, RecountKeeps
  <2>4. PICK u \in IF Cardinality(m.vvNew[b]) = ADDRMAN_NEW_BUCKET_SIZE
                     THEN ShrinkNew(raised, b) ELSE {raised} :
          r = [u EXCEPT !.vvNew[b] = @ \cup {nId}]
    BY <1>2, <2>2 DEF AddToBucket
  <2> HIDE DEF raised, c
  <2>5. \A n \in Ids(m) : Refs(raised, n) = Refs(m, n)
    BY <2>3 DEF Recounted, SameBuckets, Refs
  <2>6. CASE Cardinality(m.vvNew[b]) # ADDRMAN_NEW_BUCKET_SIZE
    <3>1. u = raised
      BY <2>4, <2>6
    <3>2. /\ Typed(r) /\ Indexed(r) /\ Ids(r) = Ids(m) /\ r.mapInfo = raised.mapInfo
          /\ r.nTried = m.nTried /\ r.vvTried = m.vvTried /\ r.nNew = m.nNew
          /\ r.vvNew = [m.vvNew EXCEPT ![b] = @ \cup {nId}]
      <4>1. /\ Typed(raised) /\ Indexed(raised) /\ Ids(raised) = Ids(m)
            /\ raised.nTried = m.nTried /\ raised.vvTried = m.vvTried
            /\ raised.nNew = m.nNew /\ raised.vvNew = m.vvNew
        BY <2>3 DEF Recounted, SameBuckets
      <4>2. r = [raised EXCEPT !.vvNew[b] = @ \cup {nId}] /\ nId \in Ids(raised)
        BY <2>4, <3>1, <4>1
      <4>3. /\ Typed(r) /\ Indexed(r) /\ Ids(r) = Ids(raised) /\ r.mapInfo = raised.mapInfo
            /\ r.nTried = raised.nTried /\ r.vvTried = raised.vvTried /\ r.nNew = raised.nNew
            /\ r.vvNew = [raised.vvNew EXCEPT ![b] = @ \cup {nId}]
        BY <4>1, <4>2, EnterKeeps
      <4> QED
        BY <4>1, <4>3
    <3>3. /\ r.vvNew = [m.vvNew EXCEPT ![b] = (@ \ {}) \cup {nId}]
          /\ r.nNew = m.nNew - Cardinality({})
      BY <3>2, FS_EmptySet DEF Typed
    <3>4. ASSUME NEW n \in Ids(m)
          PROVE  /\ r.mapInfo[n].addr = m.mapInfo[n].addr
                 /\ r.mapInfo[n].fInTried = m.mapInfo[n].fInTried
                 /\ r.mapInfo[n].nRefCount = m.mapInfo[n].nRefCount + (IF n = nId THEN 1 ELSE 0)
      <4>1. m.mapInfo[n].nRefCount \in Nat
        BY DEF Typed, Info
      <4> QED
        BY <2>3, <3>2, <4>1 DEF Recounted, c
    <3>5. TakesPlace(r, m, nId, b, {}, {})
      BY <2>6, <3>2, <3>3, <3>4 DEF TakesPlace
    <3>6. Placed(r) /\ NewBounded(r) /\ TriedBounded(r)
      BY <1>2, <3>2, <3>5, TakesPlaceKeeps
    <3> QED
      BY <3>2, <3>4, <3>6 DEF Consistent, Forgets
  <2>7. CASE Cardinality(m.vvNew[b]) = ADDRMAN_NEW_BUCKET_SIZE
    <3>1. PICK x \in raised.vvNew[b] : u = Unreference(raised, x, b)
      BY <2>4, <2>7 DEF ShrinkNew
    <3>2. /\ x \in m.vvNew[b] /\ x \in Ids(m) /\ x # nId
          /\ b \in Refs(m, x)
      BY <1>2, <2>3 DEF Recounted, SameBuckets, Typed, Refs
    <3>3. raised.mapInfo[x] = m.mapInfo[x] /\ ~ m.mapInfo[x].fInTried
      BY <2>3, <3>2 DEF Recounted, AlmostPlaced
    <3>4. raised.mapInfo[x].nRefCount = Cardinality(Refs(raised, x))
      BY <1>0, <2>5, <3>2, <3>3
    <3>5. raised.nNew # 0
      <4>1. IsFiniteSet(NewIds(m) \cup {nId}) /\ NewIds(m) \cup {nId} # {}
        BY FiniteParts, FS_AddElement
      <4>2. Cardinality(NewIds(m) \cup {nId}) # 0
        BY <4>1, FS_EmptySet
      <4> QED
        BY <2>3, <4>2 DEF Recounted, AlmostPlaced
    <3>6. raised.vvTried \in [TriedBucket -> Seq(Ids(raised) \ {x})]
      <4>1. ASSUME NEW d \in TriedBucket PROVE m.vvTried[d] \in Seq(Ids(m) \ {x})
        <5>1. m.vvTried[d] \in Seq(Ids(m))
          BY DEF Typed
        <5>2. \A i \in 1..Len(m.vvTried[d]) : m.vvTried[d][i] # x
          BY <3>3 DEF AlmostPlaced, TriedPlaced, At, TriedIds
        <5>3. \A i \in 1..Len(m.vvTried[d]) : m.vvTried[d][i] \in Ids(m) \ {x}
          BY <5>1, <5>2
        <5> QED
          BY <5>1, <5>3
      <4> QED
        BY <2>3, <4>1 DEF Recounted, SameBuckets, Typed
    <3>7. Unreferenced(u, raised, x, b)
      BY <2>3, <3>1, <3>4, <3>5, <3>6, UnreferenceEffect DEF Recounted
    <3>8. /\ nId \in Ids(u) /\ Typed(u) /\ Indexed(u)
          /\ u.nTried = m.nTried /\ u.vvTried = m.vvTried
          /\ u.vvNew = [m.vvNew EXCEPT ![b] = @ \ {x}]
      BY <2>3, <3>2, <3>7 DEF Unreferenced, Recounted, SameBuckets
    <3>9. /\ Typed(r) /\ Indexed(r) /\ Ids(r) = Ids(u) /\ r.mapInfo = u.mapInfo
          /\ r.nTried = m.nTried /\ r.vvTried = m.vvTried /\ r.nNew = u.nNew
          /\ r.vvNew = [u.vvNew EXCEPT ![b] = @ \cup {nId}]
      BY <2>4, <3>8, EnterKeeps
    <3> DEFINE R == {x}
               D == { n \in R : Refs(m, n) = {b} }
    <3>10. r.vvNew = [m.vvNew EXCEPT ![b] = (@ \ R) \cup {nId}]
      BY <3>8, <3>9 DEF Typed
    <3>11. /\ Ids(r) = Ids(m) \ D /\ r.nNew = m.nNew - Cardinality(D)
      <4>0. m.nNew \in Nat
        BY DEF Typed
      <4>1. CASE Refs(m, x) = {b}
        <5>1. D = {x} /\ Cardinality(D) = 1
          BY <4>1, FS_Singleton
        <5> QED
          BY <2>3, <2>5, <3>2, <3>7, <3>9, <4>0, <4>1, <5>1 DEF Unreferenced, Recounted
      <4>2. CASE Refs(m, x) # {b}
        <5>1. D = {} /\ Cardinality(D) = 0
          BY <4>2, FS_EmptySet
        <5> QED
          BY <2>3, <2>5, <3>2, <3>7, <3>9, <4>0, <4>2, <5>1 DEF Unreferenced, Recounted
      <4> QED
        BY <4>1, <4>2
    <3>12. ASSUME NEW n \in Ids(r)
           PROVE  /\ r.mapInfo[n].addr = m.mapInfo[n].addr
                  /\ r.mapInfo[n].fInTried = m.mapInfo[n].fInTried
                  /\ r.mapInfo[n].nRefCount = m.mapInfo[n].nRefCount
                       + (IF n = nId THEN 1 ELSE IF n \in R THEN -1 ELSE 0)
      <4>0. n \in Ids(m) /\ m.mapInfo[n].nRefCount \in Nat /\ n \in Ids(u)
        BY <3>9, <3>11 DEF Typed, Info
      <4>1. CASE n = x
        <5>1. Refs(raised, x) # {b}
          BY <2>5, <3>2, <3>11, <4>1
        <5>2. /\ u.mapInfo[x].addr = raised.mapInfo[x].addr
              /\ u.mapInfo[x].nRefCount = raised.mapInfo[x].nRefCount - 1
              /\ u.mapInfo[x].fInTried = raised.mapInfo[x].fInTried
          BY <3>7, <5>1 DEF Unreferenced
        <5> QED
          BY <3>2, <3>3, <3>9, <4>0, <4>1, <5>2
      <4>2. CASE n # x
        <5>1. SameEntry(u.mapInfo[n], raised.mapInfo[n])
          BY <2>3, <3>7, <4>0, <4>2 DEF Unreferenced, Recounted
        <5> QED
          BY <2>3, <3>9, <4>0, <4>2, <5>1 DEF Recounted, SameEntry, c
      <4> QED
        BY <4>1, <4>2
    <3>13. TakesPlace(r, m, nId, b, R, D)
      BY <2>7, <3>2, <3>9, <3>10, <3>11, <3>12 DEF TakesPlace
    <3>14. Placed(r) /\ NewBounded(r) /\ TriedBounded(r)
      BY <1>2, <3>9, <3>13, TakesPlaceKeeps
    <3>15. Forgets(r, m)
      <4>1. m.vvNew[b] \ r.vvNew[b] = {x}
        BY <1>2, <3>2, <3>10 DEF Typed
      <4>2. \A n \in Ids(m) : n \in Ids(r) \/ n = x
        BY <3>11
      <4> QED
        BY <2>7, <3>3, <3>12, <4>1, <4>2 DEF Forgets
    <3> QED
      BY <3>9, <3>14, <3>15 DEF Consistent
  <2> QED
    BY <2>6, <2>7
<1> QED
  BY <1>1, <1>2

(* Add_ keeps the tables consistent. *)
LEMMA AddKeeps ==
  ASSUME Consistent(am), NEW addr \in Addr, NEW source \in Source, Add(addr, source)
  PROVE  Consistent(am') /\ Forgets(am', am)
<1> DEFINE h == Host[addr]
           b == GetNewBucket[h][source]
<1>0. /\ Typed(am) /\ Indexed(am) /\ NewPlaced(am) /\ TriedPlaced(am) /\ Counted(am)
      /\ NewBounded(am) /\ TriedBounded(am)
  BY DEF Consistent, Placed
<1>1. h \in Hosts
  BY DEF Hosts
<1>2. b \in NewBucket
  BY <1>1, AddrManAssumption
<1> HIDE DEF b
<1>3. /\ ADDRMAN_NEW_BUCKETS_PER_ADDRESS \in Nat \ {0}
      /\ \A n : IsFiniteSet(Refs(am, n))
  BY <1>0, AddrManAssumption, FiniteParts
<1>4. CASE am.mapAddr[h] # None
  <2> DEFINE nId == am.mapAddr[h]
  <2>1. nId \in Ids(am)
    BY <1>0, <1>1, <1>4 DEF Typed
  <2>2. TakesReference(am.mapInfo[nId]) /\ am' \in AddToBucket(am, nId, b)
    BY <1>4 DEF Add, b
  <2> HIDE DEF nId
  <2>3. am.mapInfo[nId].nRefCount \in Nat
    BY <1>0, <2>1 DEF Typed, Info
  <2>4. am.mapInfo[nId].nRefCount < ADDRMAN_NEW_BUCKETS_PER_ADDRESS
    BY <1>0, <1>3, <2>1, <2>2, <2>3 DEF TakesReference, NewBounded
  <2>5. ~ am.mapInfo[nId].fInTried /\ Refs(am, nId) # {}
    BY <1>0, <2>1, <2>2 DEF TakesReference, NewPlaced
  <2>6. am.mapInfo[nId].nRefCount # 0
    BY <1>0, <1>3, <2>1, <2>5, FS_EmptySet DEF NewPlaced
  <2>7. NewIds(am) \cup {nId} = NewIds(am)
    BY <2>1, <2>6 DEF NewIds
  <2>8. AlmostPlaced(am, nId)
    BY <1>0, <2>5, <2>7 DEF AlmostPlaced, NewPlaced, Counted
  <2> QED
    BY <1>0, <1>2, <2>1, <2>2, <2>4, <2>8, AddToBucketKeeps
<1>5. CASE am.mapAddr[h] = None
  <2> DEFINE c == Create(am, addr, source)
             nId == nIdCount(am)
             k == [c EXCEPT !.nNew = @ + 1]
  <2>1. am' \in AddToBucket(k, nId, b)
    BY <1>5 DEF Add, b
  <2>2. /\ Typed(c) /\ Indexed(c) /\ SameBuckets(c, am) /\ c.nNew = am.nNew
        /\ nId \in Nat /\ nId \notin Ids(am) /\ Ids(c) = Ids(am) \cup {nId}
        /\ \A n \in Ids(am) : c.mapInfo[n] = am.mapInfo[n]
        /\ c.mapInfo[nId].nRefCount = 0 /\ ~ c.mapInfo[nId].fInTried
    <3>1. Typed(am) /\ Indexed(am) /\ am.mapAddr[Host[addr]] = None
      BY <1>0, <1>5
    <3>2. Created(c, am, nId, addr, source)
      BY <3>1, CreateKeeps
    <3> HIDE DEF c, nId
    <3> QED
      BY <3>2 DEF Created
  <2> HIDE DEF c, nId
  <2>k. k = [c EXCEPT !.nNew = c.nNew + 1]
    OBVIOUS
  <2> HIDE DEF k
  <2>3. /\ k.mapInfo = c.mapInfo /\ k.mapAddr = c.mapAddr /\ k.vRandom = c.vRandom
        /\ SameBuckets(k, c) /\ k.nNew = c.nNew + 1 /\ IsManager(k)
    BY <2>2, <2>k DEF Typed, IsManager, SameBuckets
  <2>4. Ids(k) = Ids(c) /\ Typed(k) /\ Indexed(k)
    <3>1. Typed(c) /\ Indexed(c)
      BY <2>2
    <3>2. /\ c.mapInfo \in [Ids(c) -> Info] /\ c.nTried \in Nat /\ c.nNew + 1 \in Nat
          /\ c.vvTried \in [TriedBucket -> Seq(Ids(c))] /\ c.vvNew \in [NewBucket -> SUBSET Ids(c)]
      BY <3>1 DEF Typed
    <3>3. /\ k.nTried = c.nTried /\ k.vvTried = c.vvTried /\ k.vvNew = c.vvNew
      BY <2>3 DEF SameBuckets
    <3> QED
      BY <2>3, <3>1, <3>2, <3>3, RebuiltKeeps
  <2>5. k.vvNew = am.vvNew /\ k.vvTried = am.vvTried /\ k.nTried = am.nTried /\ k.nNew = am.nNew + 1
    BY <2>2, <2>3 DEF SameBuckets
  <2>6. \A n : Refs(k, n) = Refs(am, n)
    BY <2>5 DEF Refs
  <2>7. Refs(am, nId) = {}
    BY <1>0, <2>2 DEF Refs, Typed
  <2>8. TriedIds(k) = TriedIds(am) /\ NewIds(k) = NewIds(am) /\ nId \notin NewIds(am)
    BY <2>2, <2>3, <2>4 DEF TriedIds, NewIds
  <2>9. TriedPlaced(k)
    BY <1>0, <2>2, <2>3, <2>5, <2>8, TriedSame DEF TriedIds
  <2>10. k.nNew = Cardinality(NewIds(k) \cup {nId})
    BY <1>0, <2>5, <2>8, FiniteParts, OneMore DEF Counted
  <2>11. AlmostPlaced(k, nId)
    <3>1. ASSUME NEW n \in Ids(k) PROVE k.mapInfo[n].nRefCount = Cardinality(Refs(k, n))
      BY <1>0, <2>2, <2>3, <2>4, <2>6, <2>7, FS_EmptySet DEF NewPlaced
    <3>2. ASSUME NEW n \in Ids(k) \ {nId} PROVE k.mapInfo[n].fInTried <=> Refs(k, n) = {}
      BY <1>0, <2>2, <2>3, <2>4, <2>6 DEF NewPlaced
    <3> QED
      BY <1>0, <2>2, <2>3, <2>5, <2>8, <2>9, <2>10, <3>1, <3>2 DEF AlmostPlaced, Counted
  <2>12. NewBounded(k) /\ TriedBounded(k)
    BY <1>0, <1>3, <2>2, <2>3, <2>4, <2>5 DEF NewBounded, TriedBounded
  <2>13. Consistent(am') /\ Forgets(am', k)
    BY <1>2, <1>3, <2>1, <2>2, <2>3, <2>4, <2>11, <2>12, AddToBucketKeeps
  <2>14. Forgets(am', am)
    BY <2>2, <2>3, <2>4, <2>5, <2>13 DEF Forgets
  <2> QED
    BY <2>13, <2>14
<1> QED
  BY <1>4, <1>5

-----------------------------------------------------------------------------
(* The tried buckets. *)

(* Entry nId moves from the new buckets to position pos of tried bucket k,  *)
(* and the entries O that were there, at most one, to new bucket b.         *)
MovesToTried(r, m, nId, k, pos, O, b) ==
  /\ Ids(r) = Ids(m)
  /\ \A n \in Ids(m) : r.mapInfo[n].addr = m.mapInfo[n].addr
  /\ \A n \in Ids(m) \ (O \cup {nId}) : SameEntry(r.mapInfo[n], m.mapInfo[n])
  /\ r.mapInfo[nId].nRefCount = 0 /\ r.mapInfo[nId].fInTried
  /\ \A n \in O : r.mapInfo[n].nRefCount = 1 /\ ~ r.mapInfo[n].fInTried
  /\ r.vvNew = [d \in NewBucket |-> (m.vvNew[d] \ {nId}) \cup (IF d = b THEN O ELSE {})]
  /\ r.nNew = m.nNew - 1 + Cardinality(O) /\ r.nTried = m.nTried + 1 - Cardinality(O)
  /\ k = GetTriedBucket[m.mapInfo[nId].addr] /\ b \in NewBucket
  /\ \A d \in TriedBucket : \A i, n :
       At(r, d, i, n) <=> (At(m, d, i, n) /\ n \notin O) \/ (d = k /\ i = pos /\ n = nId)
  /\ \A n : At(m, k, pos, n) => n \in O
  /\ O \subseteq TriedIds(m)
  /\ O = {} \/ \E x : O = {x}
  /\ O # {} => Cardinality(m.vvNew[b] \ {nId}) < ADDRMAN_NEW_BUCKET_SIZE

LEMMA MovesToTriedKeeps ==
  ASSUME NEW m, Typed(m), Placed(m), NewBounded(m), NEW nId \in NewIds(m),
         NEW r, Typed(r), NEW k, NEW pos, NEW O, NEW b, MovesToTried(r, m, nId, k, pos, O, b)
  PROVE  Placed(r) /\ NewBounded(r)
<1>0. NewPlaced(m) /\ TriedPlaced(m) /\ Counted(m)
  BY DEF Placed
<1>1. nId \in Ids(m) /\ m.mapInfo[nId].nRefCount # 0
  BY DEF NewIds
<1>2. \A n \in Ids(m) : /\ IsFiniteSet(Refs(m, n)) /\ Cardinality(Refs(m, n)) \in Nat
                        /\ m.mapInfo[n].nRefCount = Cardinality(Refs(m, n))
                        /\ m.mapInfo[n].fInTried <=> Refs(m, n) = {}
  BY <1>0, FiniteParts DEF NewPlaced
<1>3. \A n \in Ids(m) : m.mapInfo[n].fInTried <=> m.mapInfo[n].nRefCount = 0
  BY <1>2, FS_EmptySet
<1>4. O \subseteq Ids(m) /\ nId \notin O /\ \A n \in O : Refs(m, n) = {}
  BY <1>1, <1>2, <1>3 DEF MovesToTried, TriedIds
<1>5. ASSUME NEW n \in Ids(m)
      PROVE  Refs(r, n) = IF n = nId THEN {} ELSE IF n \in O THEN {b} ELSE Refs(m, n)
  <2>1. b \in NewBucket
    BY DEF MovesToTried
  <2>2. \A d \in NewBucket : n \in r.vvNew[d] <=> (n \in m.vvNew[d] /\ n # nId) \/ (d = b /\ n \in O)
    BY DEF MovesToTried
  <2> QED
    BY <1>4, <2>1, <2>2 DEF Refs
<1>6. NewPlaced(r)
  <2> SUFFICES ASSUME NEW n \in Ids(m)
               PROVE  /\ r.mapInfo[n].nRefCount = Cardinality(Refs(r, n))
                      /\ r.mapInfo[n].fInTried <=> Refs(r, n) = {}
    BY DEF NewPlaced, MovesToTried
  <2>1. CASE n = nId
    BY <1>5, <2>1, FS_EmptySet DEF MovesToTried
  <2>2. CASE n \in O
    <3>1. Refs(r, n) = {b}
      BY <1>4, <1>5, <2>2
    <3>2. Cardinality({b}) = 1
      BY FS_Singleton
    <3>3. r.mapInfo[n].nRefCount = 1 /\ ~ r.mapInfo[n].fInTried
      BY <2>2 DEF MovesToTried
    <3> QED
      BY <3>1, <3>2, <3>3
  <2>3. CASE n \notin O \cup {nId}
    BY <1>2, <1>5, <2>3 DEF MovesToTried, SameEntry
  <2> QED
    BY <2>1, <2>2, <2>3
<1>7. TriedIds(r) = (TriedIds(m) \ O) \cup {nId}
  BY <1>1, <1>4 DEF TriedIds, MovesToTried, SameEntry
<1>8. NewIds(r) = (NewIds(m) \ {nId}) \cup O
  BY <1>1, <1>4 DEF NewIds, MovesToTried, SameEntry
<1>9. Counted(r)
  <2> DEFINE T == TriedIds(m)
             S == NewIds(m)
  <2>1. IsFiniteSet(S) /\ IsFiniteSet(T)
    BY FiniteParts
  <2>2. nId \notin T /\ O \subseteq T /\ O \cap S = {} /\ nId \in S
    BY <1>1, <1>3 DEF TriedIds, NewIds, MovesToTried
  <2>3. r.nNew = Cardinality(S) - 1 + Cardinality(O) /\ r.nTried = Cardinality(T) + 1 - Cardinality(O)
    BY <1>0 DEF MovesToTried, Counted
  <2> HIDE DEF S, T
  <2>4. CASE O = {}
    <3>1. Cardinality(O) = 0 /\ T \ O = T /\ (S \ {nId}) \cup O = S \ {nId}
      BY <2>4, FS_EmptySet
    <3>2. Cardinality(T \cup {nId}) = Cardinality(T) + 1 /\ Cardinality(T) \in Nat
      BY <2>1, <2>2, OneMore
    <3>3. Cardinality(S \ {nId}) = Cardinality(S) - 1 /\ Cardinality(S) \in Nat
      BY <2>1, <2>2, OneLess
    <3>4. TriedIds(r) = T \cup {nId} /\ NewIds(r) = S \ {nId}
      BY <1>7, <1>8, <2>4 DEF S, T
    <3>5. r.nNew = Cardinality(S) - 1 /\ r.nTried = Cardinality(T) + 1
      BY <2>3, <3>1, <3>2, <3>3
    <3> QED
      BY <3>2, <3>3, <3>4, <3>5 DEF Counted
  <2>5. CASE O # {}
    <3>1. PICK x : O = {x}
      BY <2>5 DEF MovesToTried
    <3>2. Cardinality(O) = 1
      BY <3>1, FS_Singleton
    <3>3. IsFiniteSet(T \ {x}) /\ Cardinality(T \ {x}) = Cardinality(T) - 1 /\ Cardinality(T) \in Nat
      BY <2>1, <2>2, <3>1, OneLess
    <3>4. Cardinality((T \ {x}) \cup {nId}) = Cardinality(T \ {x}) + 1
      BY <2>2, <3>3, OneMore
    <3>5. IsFiniteSet(S \ {nId}) /\ Cardinality(S \ {nId}) = Cardinality(S) - 1 /\ Cardinality(S) \in Nat
      BY <2>1, <2>2, OneLess
    <3>6. Cardinality((S \ {nId}) \cup {x}) = Cardinality(S \ {nId}) + 1
      BY <2>2, <3>1, <3>5, OneMore
    <3>7. TriedIds(r) = (T \ {x}) \cup {nId} /\ NewIds(r) = (S \ {nId}) \cup {x}
      BY <1>7, <1>8, <3>1 DEF S, T
    <3>8. r.nNew = Cardinality(S) /\ r.nTried = Cardinality(T)
      BY <2>3, <3>2, <3>3, <3>5
    <3> QED
      BY <3>3, <3>4, <3>5, <3>6, <3>7, <3>8 DEF Counted
  <2> QED
    BY <2>4, <2>5
<1>10. TriedPlaced(r)
  <2>1. \A d \in TriedBucket : \A i, n :
          At(r, d, i, n) <=> (At(m, d, i, n) /\ n \notin O) \/ (d = k /\ i = pos /\ n = nId)
    BY DEF MovesToTried
  <2>2. /\ k = GetTriedBucket[m.mapInfo[nId].addr]
        /\ \A n \in Ids(m) : r.mapInfo[n].addr = m.mapInfo[n].addr
    BY DEF MovesToTried
  <2>3. k \in TriedBucket /\ \A n \in Ids(m) : GetTriedBucket[m.mapInfo[n].addr] \in TriedBucket
    BY <1>1, <2>2, AddrManAssumption DEF Typed, Info
  <2>4. /\ \A d \in TriedBucket : \A i, n : At(m, d, i, n) =>
             n \in TriedIds(m) /\ GetTriedBucket[m.mapInfo[n].addr] = d
        /\ \A d \in TriedBucket : \A i, j, n : At(m, d, i, n) /\ At(m, d, j, n) => i = j
        /\ \A n \in TriedIds(m) : \E i : At(m, GetTriedBucket[m.mapInfo[n].addr], i, n)
    BY <1>0 DEF TriedPlaced
  <2>5. TriedIds(m) \subseteq Ids(m) /\ nId \notin TriedIds(m)
    BY <1>1, <1>3 DEF TriedIds
  <2>6. ASSUME NEW d \in TriedBucket, NEW i, NEW n, At(r, d, i, n)
        PROVE  n \in TriedIds(r) /\ GetTriedBucket[r.mapInfo[n].addr] = d
    <3>1. CASE At(m, d, i, n) /\ n \notin O
      BY <1>7, <2>2, <2>4, <2>5, <3>1
    <3>2. CASE d = k /\ i = pos /\ n = nId
      BY <1>1, <1>7, <2>2, <3>2
    <3> QED
      BY <2>1, <2>6, <3>1, <3>2
  <2>7. ASSUME NEW d \in TriedBucket, NEW i, NEW j, NEW n, At(r, d, i, n), At(r, d, j, n)
        PROVE  i = j
    <3>1. CASE n = nId
      <4>1. ~ At(m, d, i, n) /\ ~ At(m, d, j, n)
        BY <2>4, <2>5, <3>1
      <4> QED
        BY <2>1, <2>7, <4>1
    <3>2. CASE n # nId
      BY <2>1, <2>4, <2>7, <3>2
    <3> QED
      BY <3>1, <3>2
  <2>8. ASSUME NEW n \in TriedIds(r)
        PROVE  \E i : At(r, GetTriedBucket[r.mapInfo[n].addr], i, n)
    <3>1. CASE n = nId
      <4>1. GetTriedBucket[r.mapInfo[n].addr] = k
        BY <1>1, <2>2, <3>1
      <4>2. At(r, k, pos, n)
        BY <2>1, <2>3, <3>1
      <4> QED
        BY <4>1, <4>2
    <3>2. CASE n # nId
      <4>1. n \in TriedIds(m) /\ n \notin O /\ n \in Ids(m)
        BY <1>7, <2>5, <3>2
      <4>2. PICK i : At(m, GetTriedBucket[m.mapInfo[n].addr], i, n)
        BY <2>4, <4>1
      <4>3. At(r, GetTriedBucket[m.mapInfo[n].addr], i, n)
        BY <2>1, <2>3, <4>1, <4>2
      <4> QED
        BY <2>2, <4>1, <4>3
    <3> QED
      BY <3>1, <3>2
  <2> QED
    BY <2>6, <2>7, <2>8 DEF TriedPlaced
<1>11. NewBounded(r)
  <2>0. /\ ADDRMAN_NEW_BUCKETS_PER_ADDRESS \in Nat \ {0}
        /\ ADDRMAN_NEW_BUCKET_SIZE \in Nat \ {0}
    BY AddrManAssumption
  <2>1. ASSUME NEW d \in NewBucket PROVE Cardinality(r.vvNew[d]) =< ADDRMAN_NEW_BUCKET_SIZE
    <3> DEFINE S == m.vvNew[d]
    <3>1. IsFiniteSet(S) /\ Cardinality(S) \in Nat /\ Cardinality(S) =< ADDRMAN_NEW_BUCKET_SIZE
      BY FiniteParts DEF NewBounded
    <3>2. r.vvNew[d] = (S \ {nId}) \cup (IF d = b THEN O ELSE {})
      BY DEF MovesToTried
    <3> HIDE DEF S
    <3>3. /\ IsFiniteSet(S \ {nId}) /\ Cardinality(S \ {nId}) \in Nat
          /\ Cardinality(S \ {nId}) =< Cardinality(S)
      <4>1. S \ {nId} \in SUBSET S
        OBVIOUS
      <4>2. IsFiniteSet(S \ {nId}) /\ Cardinality(S \ {nId}) =< Cardinality(S)
        BY <3>1, <4>1, FS_Subset
      <4> QED
        BY <4>2, FS_CardinalityType
    <3>4. CASE d # b \/ O = {}
      <4>1. r.vvNew[d] = S \ {nId}
        BY <3>2, <3>4
      <4> QED
        BY <2>0, <3>1, <3>3, <4>1
    <3>5. CASE d = b /\ O # {}
      <4>1. PICK x : O = {x}
        BY <3>5 DEF MovesToTried
      <4>2. Cardinality(S \ {nId}) < ADDRMAN_NEW_BUCKET_SIZE
        BY <3>5 DEF MovesToTried, S
      <4>3. r.vvNew[d] = (S \ {nId}) \cup {x}
        BY <3>2, <3>5, <4>1
      <4>4. Cardinality((S \ {nId}) \cup {x}) =< Cardinality(S \ {nId}) + 1
        <5>1. CASE x \in S \ {nId}
          <6>1. (S \ {nId}) \cup {x} = S \ {nId}
            BY <5>1
          <6> QED
            BY <3>3, <6>1
        <5>2. CASE x \notin S \ {nId}
          BY <3>3, <5>2, OneMore
        <5> QED
          BY <5>1, <5>2
      <4>5. Cardinality((S \ {nId}) \cup {x}) \in Nat
        BY <3>3, FS_AddElement, FS_CardinalityType
      <4> QED
        BY <2>0, <3>3, <4>2, <4>3, <4>4, <4>5
    <3> QED
      BY <3>4, <3>5
  <2>2. ASSUME NEW n \in Ids(m)
        PROVE  r.mapInfo[n].nRefCount =< ADDRMAN_NEW_BUCKETS_PER_ADDRESS
    <3>1. CASE n \in O \cup {nId}
      <4>1. r.mapInfo[n].nRefCount \in {0, 1}
        BY <3>1 DEF MovesToTried
      <4> QED
        BY <2>0, <4>1
    <3>2. CASE n \notin O \cup {nId}
      BY <3>2 DEF MovesToTried, SameEntry, NewBounded
    <3> QED
      BY <3>1, <3>2
  <2> QED
    BY <2>1, <2>2 DEF NewBounded, MovesToTried
<1> QED
  BY <1>6, <1>9, <1>10, <1>11 DEF Placed

(* MakeTried, first half: nId is in no new bucket any more, nor counted. *)
LeftNew(l, m, nId) ==
  /\ IsManager(l) /\ l.mapAddr = m.mapAddr /\ l.vRandom = m.vRandom
  /\ l.nTried = m.nTried /\ l.vvTried = m.vvTried /\ l.nNew = m.nNew - 1
  /\ l.vvNew = [d \in NewBucket |-> m.vvNew[d] \ {nId}]
  /\ l.mapInfo = [m.mapInfo EXCEPT ![nId] = [m.mapInfo[nId] EXCEPT !.nRefCount = 0]]
LEMMA LeaveNewEffect ==
  ASSUME NEW m, Consistent(m), NEW nId \in Ids(m), NEW o
  PROVE  LeftNew(LeaveNew(m, nId, o), m, nId)
<1> DEFINE l == LeaveNew(m, nId, o)
           V == [d \in NewBucket |-> m.vvNew[d] \ {nId}]
           D == { d \in NewBucket : nId \in m.vvNew[d] }
           c == m.mapInfo[nId].nRefCount - Cardinality(D)
           f == [m.mapInfo EXCEPT ![nId] = [m.mapInfo[nId] EXCEPT !.nRefCount = c]]
<1>1. l = [m EXCEPT !.vvNew = V, !.mapInfo = f, !.nNew = m.nNew - 1]
  BY DEF LeaveNew
<1>2. c = 0
  <2>1. m.mapInfo[nId].nRefCount = Cardinality(Refs(m, nId)) /\ Cardinality(Refs(m, nId)) \in Nat
    BY FiniteParts DEF Consistent, Placed, NewPlaced
  <2>2. D = Refs(m, nId)
    BY DEF Refs
  <2> HIDE DEF D
  <2> QED
    BY <2>1, <2>2
<1>3. f = [m.mapInfo EXCEPT ![nId] = [m.mapInfo[nId] EXCEPT !.nRefCount = 0]]
  BY <1>2
<1> HIDE DEF V, f, l
<1>4. /\ IsManager(l) /\ l.mapAddr = m.mapAddr /\ l.vRandom = m.vRandom
      /\ l.nTried = m.nTried /\ l.vvTried = m.vvTried /\ l.nNew = m.nNew - 1
      /\ l.vvNew = V /\ l.mapInfo = f
  BY <1>1 DEF Consistent, Typed, IsManager
<1>5. LeftNew(l, m, nId)
  BY <1>3, <1>4 DEF LeftNew, V
<1> QED
  BY <1>5 DEF l

(* nId is put at the end of a tried bucket that is not full. *)
LEMMA AppendTriedKeeps ==
  ASSUME NEW m, Consistent(m), NEW nId \in NewIds(m), NEW l, LeftNew(l, m, nId),
         NEW k, k = GetTriedBucket[m.mapInfo[nId].addr],
         Len(m.vvTried[k]) < ADDRMAN_TRIED_BUCKET_SIZE
  PROVE  LET r == [l EXCEPT !.vvTried[k] = Append(@, nId), !.nTried = @ + 1,
                            !.mapInfo[nId].fInTried = TRUE]
         IN  Consistent(r) /\ Forgets(r, m)
<1> DEFINE r == [l EXCEPT !.vvTried[k] = Append(@, nId), !.nTried = @ + 1,
                          !.mapInfo[nId].fInTried = TRUE]
<1>0. Typed(m) /\ Indexed(m) /\ Placed(m) /\ NewBounded(m) /\ TriedBounded(m)
  BY DEF Consistent
<1>1. /\ nId \in Ids(m) /\ m.mapInfo \in [Ids(m) -> Info] /\ m.nTried \in Nat
      /\ m.vvTried \in [TriedBucket -> Seq(Ids(m))] /\ m.vvNew \in [NewBucket -> SUBSET Ids(m)]
      /\ m.nNew \in Nat
  BY <1>0 DEF NewIds, Typed
<1>2. k \in TriedBucket /\ m.vvTried[k] \in Seq(Ids(m)) /\ Len(m.vvTried[k]) \in Nat
  <2>1. k \in TriedBucket
    BY <1>1, AddrManAssumption DEF Info
  <2> QED
    BY <1>1, <2>1
<1>3. m.nNew - 1 \in Nat
  BY <1>0, FiniteParts, OneLess DEF Placed, Counted
<1> DEFINE T == [m.vvTried EXCEPT ![k] = Append(m.vvTried[k], nId)]
           e == [[m.mapInfo[nId] EXCEPT !.nRefCount = 0] EXCEPT !.fInTried = TRUE]
           f == [m.mapInfo EXCEPT ![nId] = e]
           V == [d \in NewBucket |-> m.vvNew[d] \ {nId}]
<1>4. r = [l EXCEPT !.vvTried = T, !.nTried = m.nTried + 1, !.mapInfo = f]
  <2>1. l.vvTried = m.vvTried /\ l.nTried = m.nTried
    BY DEF LeftNew
  <2>2. [l.mapInfo EXCEPT ![nId] = [l.mapInfo[nId] EXCEPT !.fInTried = TRUE]] = f
    BY <1>1 DEF LeftNew
  <2>3. r = [l EXCEPT !.vvTried = [l.vvTried EXCEPT ![k] = Append(l.vvTried[k], nId)],
                      !.nTried = l.nTried + 1,
                      !.mapInfo = [l.mapInfo EXCEPT ![nId] = [l.mapInfo[nId] EXCEPT !.fInTried = TRUE]]]
    OBVIOUS
  <2> HIDE DEF f
  <2> QED
    BY <2>1, <2>2, <2>3
<1>5. /\ e \in Info /\ e.addr = m.mapInfo[nId].addr /\ e.nRandomPos = m.mapInfo[nId].nRandomPos
      /\ e.nRefCount = 0 /\ e.fInTried = TRUE
  <2>1. m.mapInfo[nId] \in Info
    BY <1>1
  <2> QED
    BY <2>1 DEF Info
<1>6. /\ f \in [Ids(m) -> Info] /\ f[nId] = e
      /\ \A n \in Ids(m) \ {nId} : f[n] = m.mapInfo[n]
  <2> HIDE DEF e
  <2> QED
    BY <1>1, <1>5
<1>7. /\ T \in [TriedBucket -> Seq(Ids(m))] /\ T[k] = Append(m.vvTried[k], nId)
      /\ \A d \in TriedBucket \ {k} : T[d] = m.vvTried[d]
  <2>1. Append(m.vvTried[k], nId) \in Seq(Ids(m))
    BY <1>1, <1>2
  <2> QED
    BY <1>1, <1>2, <2>1
<1>8. V \in [NewBucket -> SUBSET Ids(m)]
  BY <1>1
<1> HIDE DEF e, f, T, V, r
<1>9. /\ IsManager(r) /\ r.mapAddr = m.mapAddr /\ r.vRandom = m.vRandom /\ r.mapInfo = f
      /\ r.nTried = m.nTried + 1 /\ r.nNew = m.nNew - 1 /\ r.vvTried = T /\ r.vvNew = V
  BY <1>4 DEF LeftNew, IsManager, V
<1>10. Ids(r) = Ids(m) /\ Typed(r) /\ Indexed(r)
  <2>1. m.nTried + 1 \in Nat
    BY <1>1
  <2>2. \A n \in Ids(m) : /\ f[n].addr = m.mapInfo[n].addr
                          /\ f[n].nRandomPos = m.mapInfo[n].nRandomPos
    BY <1>5, <1>6
  <2> QED
    BY <1>0, <1>3, <1>6, <1>7, <1>8, <1>9, <2>1, <2>2, RebuiltKeeps
<1> DEFINE q == m.vvTried[k]
           pos == Len(q) + 1
<1>q. q \in Seq(Ids(m)) /\ T[k] = Append(q, nId) /\ Len(q) \in Nat
  BY <1>2, <1>7
<1> HIDE DEF q
<1>11. ASSUME NEW d \in TriedBucket, NEW i, NEW n
       PROVE  At(r, d, i, n) <=> At(m, d, i, n) \/ (d = k /\ i = pos /\ n = nId)
  <2>1. CASE d = k
    <3>1. r.vvTried[d] = Append(q, nId) /\ m.vvTried[d] = q
      BY <1>q, <1>9, <2>1 DEF q
    <3>2. /\ Len(Append(q, nId)) = pos /\ Append(q, nId)[pos] = nId
          /\ \A x \in 1..Len(q) : Append(q, nId)[x] = q[x]
      BY <1>1, <1>q
    <3>3. At(r, d, i, n) <=> i \in 1..pos /\ Append(q, nId)[i] = n
      BY <3>1, <3>2 DEF At
    <3>4. At(m, d, i, n) <=> i \in 1..Len(q) /\ q[i] = n
      BY <3>1 DEF At
    <3>5. i \in 1..pos <=> i \in 1..Len(q) \/ i = pos
      BY <1>q
    <3>6. pos \notin 1..Len(q)
      BY <1>q
    <3> HIDE DEF pos
    <3> QED
      BY <2>1, <3>2, <3>3, <3>4, <3>5, <3>6
  <2>2. CASE d # k
    BY <1>7, <1>9, <2>2 DEF At
  <2> QED
    BY <2>1, <2>2
<1>12. \A n : ~ At(m, k, pos, n)
  <2>1. pos \notin 1..Len(q)
    BY <1>q
  <2>2. \A n : At(m, k, pos, n) => pos \in 1..Len(q)
    BY DEF At, q
  <2> QED
    BY <2>1, <2>2
<1>13. PICK b \in NewBucket : TRUE
  <2>1. Refs(m, nId) # {}
    BY <1>0, <1>1, FS_EmptySet DEF NewIds, Placed, NewPlaced
  <2> QED
    BY <2>1 DEF Refs
<1>14. MovesToTried(r, m, nId, k, pos, {}, b)
  <2>1. Cardinality({}) = 0
    BY FS_EmptySet
  <2>2. r.nNew = m.nNew - 1 + Cardinality({}) /\ r.nTried = m.nTried + 1 - Cardinality({})
    BY <1>1, <1>9, <2>1
  <2>3. r.vvNew = [d \in NewBucket |-> (m.vvNew[d] \ {nId}) \cup (IF d = b THEN {} ELSE {})]
    BY <1>9 DEF V
  <2>4. r.mapInfo[nId].nRefCount = 0 /\ r.mapInfo[nId].fInTried
    BY <1>5, <1>6, <1>9
  <2>5. /\ \A n \in Ids(m) : r.mapInfo[n].addr = m.mapInfo[n].addr
        /\ \A n \in Ids(m) \ {nId} : SameEntry(r.mapInfo[n], m.mapInfo[n])
    BY <1>5, <1>6, <1>9 DEF SameEntry
  <2> HIDE DEF pos
  <2> QED
    BY <1>10, <1>11, <1>12, <1>13, <2>2, <2>3, <2>4, <2>5 DEF MovesToTried
<1>15. Placed(r) /\ NewBounded(r)
  BY <1>0, <1>10, <1>14, MovesToTriedKeeps
<1>16. TriedBounded(r)
  <2>1. ASSUME NEW d \in TriedBucket PROVE Len(r.vvTried[d]) =< ADDRMAN_TRIED_BUCKET_SIZE
    <3>1. CASE d = k
      <4>0. r.vvTried[d] = Append(q, nId)
        BY <1>q, <1>9, <3>1
      <4>1. Len(r.vvTried[d]) = Len(q) + 1
        BY <1>1, <1>q, <4>0
      <4>3. Len(q) < ADDRMAN_TRIED_BUCKET_SIZE
        BY DEF q
      <4>2. ADDRMAN_TRIED_BUCKET_SIZE \in Nat
        BY AddrManAssumption
      <4> QED
        BY <1>q, <4>1, <4>2, <4>3
    <3>2. CASE d # k
      BY <1>0, <1>7, <1>9, <3>2 DEF TriedBounded
    <3> QED
      BY <3>1, <3>2
  <2> QED
    BY <2>1 DEF TriedBounded
<1>17. Forgets(r, m)
  BY <1>5, <1>6, <1>9, <1>10 DEF Forgets
<1> QED
  BY <1>10, <1>15, <1>16, <1>17 DEF Consistent, r

(* There is certainly place in the bucket for an entry that is evicted. *)
LEMMA EvictionBucketHasPlace ==
  ASSUME NEW m, Consistent(m), NEW o \in NewBucket, NEW nId \in m.vvNew[o],
         NEW l, LeftNew(l, m, nId), NEW old \in Ids(m), old # nId
  PROVE  LET b == EvictionBucket(l, old, o)
         IN  b \in NewBucket /\ Cardinality(m.vvNew[b] \ {nId}) < ADDRMAN_NEW_BUCKET_SIZE
<1> DEFINE b == EvictionBucket(l, old, o)
           own == GetNewBucket[Host[l.mapInfo[old].addr]][l.mapInfo[old].source]
<1>0. Typed(m) /\ NewBounded(m)
  BY DEF Consistent
<1>1. m.mapInfo \in [Ids(m) -> Info]
  BY <1>0 DEF Typed
<1>2. l.mapInfo[old] = m.mapInfo[old] /\ m.mapInfo[old] \in Info
  BY <1>1 DEF LeftNew
<1>3. l.mapInfo[old].addr \in Addr /\ l.mapInfo[old].source \in Source
  BY <1>2 DEF Info
<1>4. own \in NewBucket
  <2>1. Host[l.mapInfo[old].addr] \in Hosts
    BY <1>3 DEF Hosts
  <2> QED
    BY <1>3, <2>1, AddrManAssumption
<1>5. b = IF Cardinality(l.vvNew[own]) < ADDRMAN_NEW_BUCKET_SIZE THEN own ELSE o
  BY DEF EvictionBucket
<1> HIDE DEF own, b
<1>6. \A d \in NewBucket : l.vvNew[d] = m.vvNew[d] \ {nId}
  BY DEF LeftNew
<1>7. Cardinality(m.vvNew[o] \ {nId}) < ADDRMAN_NEW_BUCKET_SIZE
  <2> DEFINE S == m.vvNew[o]
  <2>1. IsFiniteSet(S) /\ nId \in S /\ Cardinality(S) =< ADDRMAN_NEW_BUCKET_SIZE
    BY <1>0, FiniteParts DEF NewBounded
  <2>2. ADDRMAN_NEW_BUCKET_SIZE \in Nat
    BY AddrManAssumption
  <2> HIDE DEF S
  <2>3. Cardinality(S) \in Nat /\ Cardinality(S \ {nId}) = Cardinality(S) - 1
    BY <2>1, OneLess
  <2>4. Cardinality(S \ {nId}) < ADDRMAN_NEW_BUCKET_SIZE
    BY <2>1, <2>2, <2>3
  <2> QED
    BY <2>4 DEF S
<1>8. b \in NewBucket /\ Cardinality(m.vvNew[b] \ {nId}) < ADDRMAN_NEW_BUCKET_SIZE
  <2>1. CASE Cardinality(l.vvNew[own]) < ADDRMAN_NEW_BUCKET_SIZE
    BY <1>4, <1>5, <1>6, <2>1
  <2>2. CASE ~ (Cardinality(l.vvNew[own]) < ADDRMAN_NEW_BUCKET_SIZE)
    BY <1>5, <1>7, <2>2
  <2> QED
    BY <2>1, <2>2
<1> QED
  BY <1>8 DEF b

(* nId takes the place of an entry of a full tried bucket. *)
LEMMA EvictKeeps ==
  ASSUME NEW m, Consistent(m), NEW o \in NewBucket, NEW nId \in m.vvNew[o], nId \in NewIds(m),
         NEW l, LeftNew(l, m, nId), NEW k, k = GetTriedBucket[m.mapInfo[nId].addr],
         NEW pos \in 1..Len(m.vvTried[k])
  PROVE  LET r == Evict(l, nId, k, pos, o) IN Consistent(r) /\ Forgets(r, m)
<1> DEFINE r == Evict(l, nId, k, pos, o)
           q == m.vvTried[k]
           old == q[pos]
           b == EvictionBucket(l, old, o)
<1>0. Typed(m) /\ Indexed(m) /\ Placed(m) /\ NewBounded(m) /\ TriedBounded(m)
  BY DEF Consistent
<1>1. /\ nId \in Ids(m) /\ m.mapInfo \in [Ids(m) -> Info] /\ m.nTried \in Nat
      /\ m.vvTried \in [TriedBucket -> Seq(Ids(m))] /\ m.vvNew \in [NewBucket -> SUBSET Ids(m)]
      /\ m.nNew \in Nat
  BY <1>0 DEF NewIds, Typed
<1>2. k \in TriedBucket
  BY <1>1, AddrManAssumption DEF Info
<1>q. q \in Seq(Ids(m)) /\ Len(q) \in Nat /\ pos \in 1..Len(q) /\ old \in Ids(m)
  <2>1. q \in Seq(Ids(m)) /\ pos \in 1..Len(q)
    BY <1>1, <1>2
  <2> HIDE DEF q
  <2> QED
    BY <2>1
<1>3. At(m, k, pos, old)
  BY <1>q DEF At
<1>4. old \in TriedIds(m)
  <2>1. TriedPlaced(m)
    BY <1>0 DEF Placed
  <2> HIDE DEF old
  <2> QED
    BY <1>2, <1>3, <2>1 DEF TriedPlaced
<1>5. nId \notin TriedIds(m)
  <2>1. nId \in Ids(m) /\ m.mapInfo[nId].nRefCount # 0
    BY DEF NewIds
  <2>2. Refs(m, nId) # {}
    BY DEF Refs
  <2> QED
    BY <1>0, <2>1, <2>2 DEF TriedIds, Placed, NewPlaced
<1>6. old # nId
  BY <1>4, <1>5
<1>r. r = [l EXCEPT !.mapInfo = [l.mapInfo EXCEPT ![old].fInTried = FALSE, ![old].nRefCount = 1,
                                                 ![nId].fInTried = TRUE],
                    !.vvNew = [l.vvNew EXCEPT ![b] = l.vvNew[b] \cup {old}],
                    !.nNew = l.nNew + 1,
                    !.vvTried = [l.vvTried EXCEPT ![k] = [q EXCEPT ![pos] = nId]]]
  <2>1. l.vvTried = m.vvTried
    BY DEF LeftNew
  <2>2. l.vvTried[k][pos] = old
    BY <2>1
  <2>3. [l.vvTried EXCEPT ![k][pos] = nId] = [l.vvTried EXCEPT ![k] = [q EXCEPT ![pos] = nId]]
    BY <2>1
  <2> DEFINE x == l.vvTried[k][pos]
             y == EvictionBucket(l, x, o)
             F == [l.mapInfo EXCEPT ![x].fInTried = FALSE, ![x].nRefCount = 1, ![nId].fInTried = TRUE]
             W == [l.vvTried EXCEPT ![k][pos] = nId]
  <2>4. r = [l EXCEPT !.mapInfo = F, !.vvNew = [l.vvNew EXCEPT ![y] = l.vvNew[y] \cup {x}],
                      !.nNew = l.nNew + 1, !.vvTried = W]
    <3>1. r = [l EXCEPT !.mapInfo = F, !.vvNew[y] = l.vvNew[y] \cup {x}, !.nNew = l.nNew + 1,
                        !.vvTried[k][pos] = nId]
      BY DEF Evict
    <3> HIDE DEF r, F, x, y
    <3> QED
      BY <3>1
  <2>5. x = old /\ y = b
    BY <2>2
  <2>6. F = [l.mapInfo EXCEPT ![old].fInTried = FALSE, ![old].nRefCount = 1, ![nId].fInTried = TRUE]
    <3> HIDE DEF old, x
    <3> QED
      BY <2>5
  <2>7. W = [l.vvTried EXCEPT ![k] = [q EXCEPT ![pos] = nId]]
    BY <2>3
  <2> DEFINE Fo == [l.mapInfo EXCEPT ![old].fInTried = FALSE, ![old].nRefCount = 1, ![nId].fInTried = TRUE]
  <2>8. F = Fo
    BY <2>6
  <2> HIDE DEF old, q, x, y, F, W, Fo, b
  <2>9. r = [l EXCEPT !.mapInfo = Fo, !.vvNew = [l.vvNew EXCEPT ![b] = l.vvNew[b] \cup {old}],
                      !.nNew = l.nNew + 1, !.vvTried = [l.vvTried EXCEPT ![k] = [q EXCEPT ![pos] = nId]]]
    BY <2>4, <2>5, <2>7, <2>8
  <2> QED
    BY <2>9 DEF Fo
<1> HIDE DEF old, b
<1> DEFINE T == [m.vvTried EXCEPT ![k] = [q EXCEPT ![pos] = nId]]
           f == [l.mapInfo EXCEPT ![old].fInTried = FALSE, ![old].nRefCount = 1, ![nId].fInTried = TRUE]
           V == [l.vvNew EXCEPT ![b] = l.vvNew[b] \cup {old}]
<1>7. /\ b \in NewBucket /\ Cardinality(m.vvNew[b] \ {nId}) < ADDRMAN_NEW_BUCKET_SIZE
  BY <1>q, <1>6, EvictionBucketHasPlace DEF b
<1>8. /\ f \in [Ids(m) -> Info]
      /\ \A n \in Ids(m) : /\ f[n].addr = m.mapInfo[n].addr
                           /\ f[n].nRandomPos = m.mapInfo[n].nRandomPos
      /\ \A n \in Ids(m) \ {old, nId} : f[n] = m.mapInfo[n]
      /\ f[nId].nRefCount = 0 /\ f[nId].fInTried = TRUE
      /\ f[old].nRefCount = 1 /\ f[old].fInTried = FALSE
  <2> DEFINE g == l.mapInfo
  <2>0. \A n \in Ids(m) : m.mapInfo[n] \in Info
    BY <1>1
  <2>1. /\ g \in [Ids(m) -> Info] /\ \A n \in Ids(m) \ {nId} : g[n] = m.mapInfo[n]
        /\ g[nId].addr = m.mapInfo[nId].addr /\ g[nId].nRandomPos = m.mapInfo[nId].nRandomPos
        /\ g[nId].nRefCount = 0
    <3> DEFINE e == [m.mapInfo[nId] EXCEPT !.nRefCount = 0]
    <3>1. e \in Info /\ e.addr = m.mapInfo[nId].addr /\ e.nRandomPos = m.mapInfo[nId].nRandomPos
          /\ e.nRefCount = 0
      BY <1>1, <2>0 DEF Info
    <3>2. g = [m.mapInfo EXCEPT ![nId] = e]
      BY DEF LeftNew
    <3> HIDE DEF e, g
    <3> QED
      BY <1>1, <3>1, <3>2
  <2> HIDE DEF g
  <2> DEFINE eo == [[g[old] EXCEPT !.fInTried = FALSE] EXCEPT !.nRefCount = 1]
             en == [g[nId] EXCEPT !.fInTried = TRUE]
  <2>2. /\ eo \in Info /\ eo.addr = g[old].addr /\ eo.nRandomPos = g[old].nRandomPos
        /\ eo.nRefCount = 1 /\ eo.fInTried = FALSE
    <3>1. g[old] \in Info
      BY <1>q, <2>1
    <3> QED
      BY <3>1 DEF Info
  <2>3. /\ en \in Info /\ en.addr = g[nId].addr /\ en.nRandomPos = g[nId].nRandomPos
        /\ en.nRefCount = g[nId].nRefCount /\ en.fInTried = TRUE
    <3>1. g[nId] \in Info
      BY <1>1, <2>1
    <3> QED
      BY <3>1 DEF Info
  <2>4. f = [g EXCEPT ![old] = eo, ![nId] = en]
    <3>1. f = [[g EXCEPT ![old] = eo] EXCEPT ![nId].fInTried = TRUE]
      BY <1>q, <1>6, <2>1 DEF g
    <3>2. [g EXCEPT ![old] = eo][nId] = g[nId]
      BY <1>1, <1>6, <2>1
    <3> QED
      BY <1>1, <1>q, <1>6, <2>1, <3>1, <3>2
  <2> HIDE DEF f, eo, en
  <2> QED
    BY <1>1, <1>q, <1>6, <2>0, <2>1, <2>2, <2>3, <2>4
<1>9. V = [d \in NewBucket |-> (m.vvNew[d] \ {nId}) \cup (IF d = b THEN {old} ELSE {})]
  <2>1. l.vvNew = [d \in NewBucket |-> m.vvNew[d] \ {nId}]
    BY DEF LeftNew
  <2> QED
    BY <1>7, <2>1
<1>10. V \in [NewBucket -> SUBSET Ids(m)]
  BY <1>1, <1>q, <1>9
<1>11. /\ [q EXCEPT ![pos] = nId] \in Seq(Ids(m)) /\ Len([q EXCEPT ![pos] = nId]) = Len(q)
       /\ \A i \in 1..Len(q) : [q EXCEPT ![pos] = nId][i] = IF i = pos THEN nId ELSE q[i]
  <2> HIDE DEF q
  <2> QED
    BY <1>1, <1>q
<1>12. /\ T \in [TriedBucket -> Seq(Ids(m))] /\ T[k] = [q EXCEPT ![pos] = nId]
       /\ \A d \in TriedBucket \ {k} : T[d] = m.vvTried[d]
  <2> HIDE DEF q
  <2> QED
    BY <1>1, <1>2, <1>11
<1> HIDE DEF f, T, V, r
<1>13. /\ IsManager(r) /\ r.mapAddr = m.mapAddr /\ r.vRandom = m.vRandom /\ r.mapInfo = f
       /\ r.nTried = m.nTried /\ r.nNew = m.nNew /\ r.vvTried = T /\ r.vvNew = V
  <2>1. l.vvTried = m.vvTried /\ l.nNew + 1 = m.nNew
    BY <1>1 DEF LeftNew
  <2>2. r = [l EXCEPT !.mapInfo = f, !.vvNew = V, !.nNew = m.nNew, !.vvTried = T]
    BY <1>r, <2>1 DEF f, V, T
  <2> QED
    BY <2>2 DEF LeftNew, IsManager
<1> HIDE DEF q
<1>14. Ids(r) = Ids(m) /\ Typed(r) /\ Indexed(r)
  <2>1. /\ f \in [Ids(m) -> Info] /\ T \in [TriedBucket -> Seq(Ids(m))]
        /\ \A n \in Ids(m) : /\ f[n].addr = m.mapInfo[n].addr
                             /\ f[n].nRandomPos = m.mapInfo[n].nRandomPos
    BY <1>8, <1>12
  <2>2. m.nTried \in Nat /\ m.nNew \in Nat
    BY <1>1
  <2>3. Typed(m) /\ Indexed(m)
    BY <1>0
  <2> QED
    BY <1>10, <1>13, <2>1, <2>2, <2>3, RebuiltKeeps
<1>15. ASSUME NEW d \in TriedBucket, NEW i, NEW n
       PROVE  At(r, d, i, n) <=> (At(m, d, i, n) /\ n \notin {old}) \/ (d = k /\ i = pos /\ n = nId)
  <2>0. TriedPlaced(m)
    BY <1>0 DEF Placed
  <2>1. At(m, d, i, old) => d = k /\ i = pos
    BY <1>2, <1>3, <2>0 DEF TriedPlaced
  <2>2. CASE d = k
    <3>1. At(r, d, i, n) <=> i \in 1..Len(q) /\ [q EXCEPT ![pos] = nId][i] = n
      BY <1>11, <1>12, <1>13, <2>2 DEF At
    <3>2. At(m, d, i, n) <=> i \in 1..Len(q) /\ q[i] = n
      BY <2>2 DEF At, q
    <3>3. q[pos] = old
      BY DEF old
    <3> QED
      BY <1>q, <1>11, <2>1, <2>2, <3>1, <3>2, <3>3
  <2>3. CASE d # k
    <3>1. At(r, d, i, n) <=> At(m, d, i, n)
      BY <1>12, <1>13, <2>3 DEF At
    <3> QED
      BY <2>1, <2>3, <3>1
  <2> QED
    BY <2>2, <2>3
<1>16. \A n : At(m, k, pos, n) => n \in {old}
  BY DEF At, old, q
<1>17. MovesToTried(r, m, nId, k, pos, {old}, b)
  <2>1. Cardinality({old}) = 1
    BY FS_Singleton
  <2>2. r.nNew = m.nNew - 1 + Cardinality({old}) /\ r.nTried = m.nTried + 1 - Cardinality({old})
    BY <1>1, <1>13, <2>1
  <2>3. r.vvNew = [d \in NewBucket |-> (m.vvNew[d] \ {nId}) \cup (IF d = b THEN {old} ELSE {})]
    BY <1>9, <1>13
  <2>4. /\ r.mapInfo[nId].nRefCount = 0 /\ r.mapInfo[nId].fInTried
        /\ \A n \in {old} : r.mapInfo[n].nRefCount = 1 /\ ~ r.mapInfo[n].fInTried
    BY <1>8, <1>13
  <2>5. /\ \A n \in Ids(m) : r.mapInfo[n].addr = m.mapInfo[n].addr
        /\ \A n \in Ids(m) \ ({old} \cup {nId}) : SameEntry(r.mapInfo[n], m.mapInfo[n])
    BY <1>8, <1>13 DEF SameEntry
  <2>6. {old} \subseteq TriedIds(m) /\ ({old} = {} \/ \E x : {old} = {x})
    BY <1>4
  <2> QED
    BY <1>7, <1>14, <1>15, <1>16, <2>2, <2>3, <2>4, <2>5, <2>6 DEF MovesToTried
<1>18. Placed(r) /\ NewBounded(r)
  BY <1>0, <1>14, <1>17, MovesToTriedKeeps
<1>19. TriedBounded(r)
  <2>1. ASSUME NEW d \in TriedBucket PROVE Len(r.vvTried[d]) =< ADDRMAN_TRIED_BUCKET_SIZE
    <3>1. CASE d = k
      <4>1. Len(r.vvTried[d]) = Len(q)
        BY <1>11, <1>12, <1>13, <3>1
      <4>2. Len(q) =< ADDRMAN_TRIED_BUCKET_SIZE
        BY <1>0, <1>2 DEF TriedBounded, q
      <4> QED
        BY <4>1, <4>2
    <3>2. CASE d # k
      BY <1>0, <1>12, <1>13, <3>2 DEF TriedBounded
    <3> QED
      BY <3>1, <3>2
  <2> QED
    BY <2>1 DEF TriedBounded
<1>20. Forgets(r, m)
  BY <1>8, <1>13, <1>14 DEF Forgets
<1> QED
  BY <1>14, <1>18, <1>19, <1>20 DEF Consistent, r

(* Good_ keeps the tables consistent, and forgets nothing. *)
LEMMA GoodKeeps ==
  ASSUME Consistent(am), NEW addr \in Addr, Good(addr)
  PROVE  Consistent(am') /\ Forgets(am', am)
<1> DEFINE nId == am.mapAddr[Host[addr]]
           k == GetTriedBucket[am.mapInfo[nId].addr]
<1>1. PICK o \in NewBucket : nId \in am.vvNew[o] /\ am' \in MakeTried(am, nId, o)
  BY DEF Good
<1> HIDE DEF nId
<1>2. nId \in NewIds(am) /\ nId \in Ids(am)
  <2>0. Typed(am) /\ NewPlaced(am)
    BY DEF Consistent, Placed
  <2>1. nId \in Ids(am) /\ Refs(am, nId) # {}
    BY <1>1, <2>0 DEF Typed, Refs
  <2>2. Cardinality(Refs(am, nId)) # 0
    BY <2>0, <2>1, FiniteParts, FS_EmptySet
  <2> QED
    BY <2>0, <2>1, <2>2 DEF NewIds, NewPlaced
<1> DEFINE l == LeaveNew(am, nId, o)
<1>3. LeftNew(l, am, nId)
  BY <1>2, LeaveNewEffect
<1>4. CASE Len(am.vvTried[k]) < ADDRMAN_TRIED_BUCKET_SIZE
  <2>1. am' = [l EXCEPT !.vvTried[k] = Append(@, nId), !.nTried = @ + 1,
                        !.mapInfo[nId].fInTried = TRUE]
    BY <1>1, <1>4 DEF MakeTried
  <2> HIDE DEF l
  <2> QED
    BY <1>2, <1>3, <1>4, <2>1, AppendTriedKeeps
<1>5. CASE ~ (Len(am.vvTried[k]) < ADDRMAN_TRIED_BUCKET_SIZE)
  <2>1. PICK pos \in 1..Len(am.vvTried[k]) : am' = Evict(l, nId, k, pos, o)
    BY <1>1, <1>5 DEF MakeTried
  <2> HIDE DEF l
  <2> QED
    BY <1>1, <1>2, <1>3, <2>1, EvictKeeps
<1> QED
  BY <1>4, <1>5

-----------------------------------------------------------------------------
(* The shuffle. *)

(* The recursion of Shuffled has a solution. *)
Shuffles(sh, m, N) == sh = [n \in 0..N |-> IF n = 0 THEN {m} ELSE Drawn(sh[n - 1], n)]
LEMMA ShuffleDefined ==
  ASSUME NEW m, NEW N \in Nat
  PROVE  \E sh : Shuffles(sh, m, N)
<1> DEFINE Solves(g, k) == g = [n \in 0..k |-> IF n = 0 THEN {m} ELSE Drawn(g[n - 1], n)]
           T == { k \in Nat : ~ \E g : Solves(g, k) }
<1>1. Solves([n \in 0..0 |-> {m}], 0)
  OBVIOUS
<1>2. ASSUME NEW k \in Nat, NEW g, Solves(g, k) PROVE \E h : Solves(h, k + 1)
  <2> DEFINE h == [n \in 0..(k + 1) |-> IF n = k + 1 THEN Drawn(g[k], k + 1) ELSE g[n]]
  <2>1. ASSUME NEW n \in 0..(k + 1) PROVE h[n] = IF n = 0 THEN {m} ELSE Drawn(h[n - 1], n)
    <3>1. CASE n = k + 1
      <4>1. h[n] = Drawn(g[k], k + 1) /\ n # 0 /\ n - 1 = k /\ k \in 0..(k + 1) /\ k # k + 1
        BY <3>1
      <4>2. h[k] = g[k]
        BY <4>1
      <4> QED
        BY <3>1, <4>1, <4>2
    <3>2. CASE n # k + 1
      <4>1. n \in 0..k
        BY <3>2
      <4>2. h[n] = g[n] /\ (n # 0 => h[n - 1] = g[n - 1])
        BY <3>2, <4>1
      <4>3. g[n] = IF n = 0 THEN {m} ELSE Drawn(g[n - 1], n)
        BY <1>2, <4>1
      <4> QED
        BY <4>2, <4>3
    <3> QED
      BY <3>1, <3>2
  <2>2. Solves(h, k + 1)
    <3>1. h = [n \in 0..(k + 1) |-> h[n]]
      OBVIOUS
    <3> HIDE DEF h
    <3> QED
      BY <2>1, <3>1
  <2> QED
    BY <2>2
<1>3. T = {}
  <2> SUFFICES ASSUME T # {} PROVE FALSE
    OBVIOUS
  <2>1. T \in SUBSET Nat
    OBVIOUS
  <2> HIDE DEF T
  <2>2. PICK k \in T : \A j \in T : k =< j
    BY <2>1, LeastNatural
  <2>3. k \in Nat /\ ~ \E g : Solves(g, k)
    BY <2>2 DEF T
  <2> HIDE DEF Solves
  <2>4. k # 0
    BY <1>1, <2>3
  <2>5. k - 1 \in Nat /\ k - 1 \notin T
    BY <2>2, <2>3, <2>4
  <2>6. PICK g : Solves(g, k - 1)
    BY <2>5 DEF T
  <2>7. \E h : Solves(h, k - 1 + 1)
    BY <1>2, <2>5, <2>6
  <2> QED
    BY <2>3, <2>7
<1>4. PICK g : Solves(g, N)
  BY <1>3
<1>5. Shuffles(g, m, N)
  BY <1>4 DEF Shuffles
<1> QED
  BY <1>5

(* What a shuffle makes has the same tables, in another order. *)
LEMMA ShuffledKeeps ==
  ASSUME NEW m, Consistent(m), NEW N \in Nat, NEW r \in Shuffled(m, N)
  PROVE  Consistent(r) /\ SameTables(r, m)
<1> DEFINE F(g) == [n \in 0..N |-> IF n = 0 THEN {m} ELSE Drawn(g[n - 1], n)]
           Good1(s) == Typed(s) /\ Indexed(s) /\ SameTables(s, m)
<1>1. PICK sh : sh = F(sh) /\ r \in sh[N]
  <2> DEFINE sh[n \in 0..N] == IF n = 0 THEN {m} ELSE Drawn(sh[n - 1], n)
  <2>1. r \in sh[N]
    BY DEF Shuffled
  <2>2. PICK g : Shuffles(g, m, N)
    BY ShuffleDefined
  <2>3. sh = [n \in 0..N |-> IF n = 0 THEN {m} ELSE Drawn(sh[n - 1], n)]
    BY <2>2 DEF Shuffles
  <2> QED
    BY <2>1, <2>3
<1> DEFINE T == { n \in 0..N : \E s \in sh[n] : ~ Good1(s) }
<1>2. sh[0] = {m}
  BY <1>1
<1>3. ASSUME NEW n \in 1..N PROVE sh[n] = Drawn(sh[n - 1], n)
  <2>1. n \in 0..N /\ n # 0
    OBVIOUS
  <2>2. F(sh)[n] = Drawn(sh[n - 1], n)
    BY <2>1
  <2> HIDE DEF F
  <2> QED
    BY <1>1, <2>2
<1>4. Good1(m)
  BY DEF Consistent, SameTables, SameEntry
<1>5. ASSUME NEW n \in 1..N, \A s \in sh[n - 1] : Good1(s), NEW t \in sh[n] PROVE Good1(t)
  <2>1. PICK s \in sh[n - 1] : \E i \in n..Len(s.vRandom) : t = SwapRandom(s, n, i)
    BY <1>3 DEF Drawn
  <2>2. PICK i \in n..Len(s.vRandom) : t = SwapRandom(s, n, i)
    BY <2>1
  <2>3. Typed(s) /\ Indexed(s) /\ SameTables(s, m)
    BY <1>5
  <2>4. Len(s.vRandom) \in Nat
    BY <2>3 DEF Typed
  <2>5. n \in 1..Len(s.vRandom) /\ i \in 1..Len(s.vRandom)
    BY <2>2, <2>4
  <2>6. Typed(t) /\ Indexed(t) /\ SameTables(t, s)
    BY <2>2, <2>3, <2>5, SwapRandomKeeps
  <2>7. SameTables(t, m)
    BY <2>3, <2>6 DEF SameTables, SameEntry
  <2> QED
    BY <2>6, <2>7
<1> HIDE DEF Good1, F
<1>6. T = {}
  <2> SUFFICES ASSUME T # {} PROVE FALSE
    OBVIOUS
  <2>1. T \in SUBSET Nat
    OBVIOUS
  <2> HIDE DEF T
  <2>2. PICK n \in T : \A j \in T : n =< j
    BY <2>1, LeastNatural
  <2>3. n \in 0..N /\ \E s \in sh[n] : ~ Good1(s)
    BY <2>2 DEF T
  <2>4. n # 0
    BY <1>2, <1>4, <2>3
  <2>5. n \in 1..N /\ n - 1 \in 0..N /\ n - 1 \notin T
    BY <2>2, <2>3, <2>4
  <2>6. \A s \in sh[n - 1] : Good1(s)
    BY <2>5 DEF T
  <2> QED
    BY <1>5, <2>3, <2>5, <2>6
<1>7. Good1(r)
  BY <1>1, <1>6
<1>8. Typed(r) /\ Indexed(r) /\ SameTables(r, m)
  BY <1>7 DEF Good1
<1> QED
  BY <1>8, SameTablesPlaced DEF Consistent

LEMMA GetAddrKeeps ==
  ASSUME Consistent(am), GetAddr
  PROVE  Consistent(am') /\ Forgets(am', am)
<1> DEFINE share == (ADDRMAN_GETADDR_MAX_PCT * Len(am.vRandom)) \div 100
           N == IF share > ADDRMAN_GETADDR_MAX THEN ADDRMAN_GETADDR_MAX ELSE share
<1>1. N \in Nat
  <2>1. Len(am.vRandom) \in Nat /\ ADDRMAN_GETADDR_MAX_PCT \in Nat /\ ADDRMAN_GETADDR_MAX \in Nat
    BY AddrManAssumption DEF Consistent, Typed
  <2>2. ADDRMAN_GETADDR_MAX_PCT * Len(am.vRandom) \in Nat
    BY <2>1
  <2>3. share \in Nat
    BY <2>2
  <2> HIDE DEF share
  <2> QED
    BY <2>1, <2>3
<1>2. am' \in Shuffled(am, N)
  BY DEF GetAddr
<1> HIDE DEF N
<1>3. Consistent(am') /\ SameTables(am', am)
  BY <1>1, <1>2, ShuffledKeeps
<1> QED
  BY <1>3 DEF SameTables, SameEntry, Forgets

-----------------------------------------------------------------------------
(* Numbers: how many elements there are, and which is the n-th.             *)

LEMMA InjectionBound ==
  ASSUME NEW S, NEW T, IsFiniteSet(T), NEW g \in [S -> T],
         \A x, y \in S : g[x] = g[y] => x = y
  PROVE  IsFiniteSet(S) /\ Cardinality(S) =< Cardinality(T)
<1>1. g \in Injection(S, T)
  BY DEF Injection, IsInjective
<1> QED
  BY <1>1, FS_Injection

(* A sequence that has each element of X once is as long as X is large. *)
LEMMA SequenceCount ==
  ASSUME NEW S, NEW q \in Seq(S), NEW X,
         \A i \in 1..Len(q) : q[i] \in X,
         \A i, j \in 1..Len(q) : q[i] = q[j] => i = j,
         \A x \in X : \E i \in 1..Len(q) : q[i] = x
  PROVE  IsFiniteSet(X) /\ Cardinality(X) = Len(q)
<1> DEFINE I == 1..Len(q)
           g == [i \in I |-> q[i]]
<1>1. Len(q) \in Nat
  OBVIOUS
<1>2. IsFiniteSet(I) /\ Cardinality(I) = Len(q)
  <2> DEFINE L == Len(q)
  <2>1. 1 \in Int /\ L \in Int /\ L \in Nat
    BY <1>1
  <2> HIDE DEF L
  <2>2. IsFiniteSet(1..L) /\ Cardinality(1..L) = IF 1 > L THEN 0 ELSE L - 1 + 1
    BY <2>1, FS_Interval
  <2>3. IsFiniteSet(1..L) /\ Cardinality(1..L) = L
    BY <2>1, <2>2
  <2> QED
    BY <2>3 DEF L
<1> HIDE DEF I
<1>3. g \in [I -> X] /\ \A i, j \in I : g[i] = g[j] => i = j
  BY DEF I
<1>4. \A x \in X : \E i \in I : g[i] = x
  BY DEF I
<1> HIDE DEF g
<1>5. g \in Bijection(I, X)
  BY <1>3, <1>4 DEF Bijection, Injection, Surjection, IsInjective
<1>6. ExistsBijection(I, X)
  BY <1>5 DEF ExistsBijection
<1> QED
  BY <1>2, <1>6, FS_Bijection

(* The number of elements of S below x, and the element with n below it.    *)
Rank(S, x) == Cardinality({ y \in S : y < x })
NthId(S, n) == CHOOSE x \in S : Rank(S, x) = n

LEMMA RankOrder ==
  ASSUME NEW S \in SUBSET Nat, IsFiniteSet(S)
  PROVE  /\ Cardinality(S) \in Nat
         /\ \A x \in S : Rank(S, x) \in 0..(Cardinality(S) - 1)
         /\ \A x, y \in S : Rank(S, x) = Rank(S, y) => x = y
         /\ \A n \in 0..(Cardinality(S) - 1) : NthId(S, n) \in S /\ Rank(S, NthId(S, n)) = n
         /\ \A x \in S : NthId(S, Rank(S, x)) = x
<1> DEFINE c == Cardinality(S)
           B(x) == { y \in S : y < x }
<1>1. c \in Nat
  BY FS_CardinalityType
<1>2. ASSUME NEW x PROVE IsFiniteSet(B(x)) /\ Cardinality(B(x)) \in Nat
  <2>1. B(x) \in SUBSET S
    OBVIOUS
  <2> HIDE DEF B
  <2>2. IsFiniteSet(B(x))
    BY <2>1, FS_Subset
  <2> QED
    BY <2>2, FS_CardinalityType
<1>3. ASSUME NEW x \in S PROVE Cardinality(B(x)) \in 0..(c - 1)
  <2>1. B(x) \in SUBSET (S \ {x})
    OBVIOUS
  <2>2. IsFiniteSet(S \ {x}) /\ Cardinality(S \ {x}) = c - 1
    BY OneLess
  <2> HIDE DEF B
  <2>3. Cardinality(B(x)) =< c - 1
    BY <2>1, <2>2, FS_Subset
  <2> QED
    BY <1>1, <1>2, <2>3
<1>4. ASSUME NEW x \in S, NEW y \in S, x < y PROVE Cardinality(B(x)) < Cardinality(B(y))
  <2>1. x \in Nat /\ y \in Nat
    OBVIOUS
  <2>2. B(x) \cup {x} \in SUBSET B(y)
    <3>1. x \in B(y)
      BY <1>4
    <3>2. ASSUME NEW z \in B(x) PROVE z \in B(y)
      <4>1. z \in S /\ z \in Nat /\ z < x
        OBVIOUS
      <4>2. z < y
        BY <1>4, <2>1, <4>1
      <4> QED
        BY <4>1, <4>2
    <3> HIDE DEF B
    <3> QED
      BY <3>1, <3>2
  <2>3. x \notin B(x)
    BY <2>1
  <2> HIDE DEF B
  <2>4. Cardinality(B(x) \cup {x}) = Cardinality(B(x)) + 1
    BY <1>2, <2>3, OneMore
  <2>5. Cardinality(B(x) \cup {x}) =< Cardinality(B(y))
    BY <1>2, <2>2, FS_Subset
  <2> QED
    BY <1>2, <2>4, <2>5
<1>5. \A x : Rank(S, x) = Cardinality(B(x))
  BY DEF Rank
<1> HIDE DEF B
<1>6. ASSUME NEW x \in S, NEW y \in S, Rank(S, x) = Rank(S, y) PROVE x = y
  <2>1. x \in Nat /\ y \in Nat
    OBVIOUS
  <2>2. ~ (x < y) /\ ~ (y < x)
    BY <1>2, <1>4, <1>5, <1>6
  <2> QED
    BY <2>1, <2>2
<1>7. ASSUME NEW n \in 0..(c - 1) PROVE NthId(S, n) \in S /\ Rank(S, NthId(S, n)) = n
  <2> DEFINE I == 0..(c - 1)
             g == [x \in S |-> Rank(S, x)]
  <2>1. IsFiniteSet(I) /\ Cardinality(I) = c
    <3>1. 0 \in Int /\ c - 1 \in Int
      BY <1>1
    <3>2. 0 > c - 1 <=> c = 0
      BY <1>1
    <3> QED
      BY <1>1, <3>1, <3>2, FS_Interval
  <2>2. n \in I
    OBVIOUS
  <2>3. \A x \in S : Rank(S, x) \in I
    BY <1>3, <1>5
  <2> HIDE DEF I
  <2>4. g \in [S -> I] /\ \A x, y \in S : g[x] = g[y] => x = y
    BY <1>6, <2>3
  <2>5. \A t \in I : \E x \in S : g[x] = t
    <3> HIDE DEF g
    <3>1. Cardinality(S) = Cardinality(I)
      BY <2>1
    <3>2. g \in Injection(S, I)
      BY <2>4 DEF Injection, IsInjective
    <3>3. g \in Surjection(S, I)
      BY <2>1, <3>1, <3>2, FS_Injection
    <3> QED
      BY <3>3 DEF Surjection
  <2>6. \E x \in S : Rank(S, x) = n
    BY <2>2, <2>5
  <2> QED
    BY <2>6 DEF NthId
<1>8. ASSUME NEW x \in S PROVE NthId(S, Rank(S, x)) = x
  <2>1. Rank(S, x) \in 0..(c - 1)
    BY <1>3, <1>5
  <2> QED
    BY <1>6, <1>7, <2>1
<1> QED
  BY <1>1, <1>3, <1>5, <1>6, <1>7, <1>8

-----------------------------------------------------------------------------
(* peers.dat.  The new entries are written, and numbered again, before the  *)
(* tried ones.                                                              *)

nNewOf(m) == Cardinality(NewIds(m))
nAllOf(m) == Cardinality(NewIds(m)) + Cardinality(TriedIds(m))

(* The entry of m that has number n when it is read back. *)
Origin(m, n) == IF n < nNewOf(m) THEN NthId(NewIds(m), n) ELSE NthId(TriedIds(m), n - nNewOf(m))

(* The new entries and the tried ones are all, and no entry is both. *)
LEMMA NewOrTried ==
  ASSUME NEW m, Consistent(m)
  PROVE  /\ Ids(m) = NewIds(m) \cup TriedIds(m) /\ NewIds(m) \cap TriedIds(m) = {}
         /\ NewIds(m) \in SUBSET Nat /\ TriedIds(m) \in SUBSET Nat
         /\ IsFiniteSet(NewIds(m)) /\ IsFiniteSet(TriedIds(m))
<1>0. Typed(m) /\ NewPlaced(m)
  BY DEF Consistent, Placed
<1>1. IsFiniteSet(NewIds(m)) /\ IsFiniteSet(TriedIds(m)) /\ \A n : IsFiniteSet(Refs(m, n))
  BY <1>0, FiniteParts
<1>2. \A n \in Ids(m) : m.mapInfo[n].fInTried <=> m.mapInfo[n].nRefCount = 0
  BY <1>0, <1>1, FS_EmptySet DEF NewPlaced
<1>3. Ids(m) \subseteq Nat
  BY <1>0 DEF Typed
<1> QED
  BY <1>1, <1>2, <1>3 DEF NewIds, TriedIds

LEMMA OriginBijective ==
  ASSUME NEW m, Consistent(m)
  PROVE  /\ nNewOf(m) \in Nat /\ nAllOf(m) \in Nat /\ nNewOf(m) =< nAllOf(m)
         /\ \A n \in 0..(nAllOf(m) - 1) :
              Origin(m, n) \in IF n < nNewOf(m) THEN NewIds(m) ELSE TriedIds(m)
         /\ \A n, k \in 0..(nAllOf(m) - 1) : Origin(m, n) = Origin(m, k) => n = k
         /\ \A x \in NewIds(m) : /\ Rank(NewIds(m), x) \in 0..(nNewOf(m) - 1)
                                 /\ Origin(m, Rank(NewIds(m), x)) = x
         /\ \A x \in TriedIds(m) : \E n \in nNewOf(m)..(nAllOf(m) - 1) : Origin(m, n) = x
         /\ \A n \in 0..(nNewOf(m) - 1) : Rank(NewIds(m), Origin(m, n)) = n
<1> DEFINE S == NewIds(m)
           T == TriedIds(m)
           K == nNewOf(m)
           J == Cardinality(T)
           A == nAllOf(m)
<1>1. S \in SUBSET Nat /\ T \in SUBSET Nat /\ IsFiniteSet(S) /\ IsFiniteSet(T) /\ S \cap T = {}
  BY NewOrTried
<1>2. K = Cardinality(S) /\ A = K + J
  BY DEF nNewOf, nAllOf
<1>3. \A n : Origin(m, n) = IF n < K THEN NthId(S, n) ELSE NthId(T, n - K)
  BY DEF Origin
<1> HIDE DEF S, T
<1>4. /\ K \in Nat
      /\ \A x \in S : Rank(S, x) \in 0..(K - 1)
      /\ \A n \in 0..(K - 1) : NthId(S, n) \in S /\ Rank(S, NthId(S, n)) = n
      /\ \A x \in S : NthId(S, Rank(S, x)) = x
  BY <1>1, <1>2, RankOrder
<1>5. /\ J \in Nat
      /\ \A x \in T : Rank(T, x) \in 0..(J - 1)
      /\ \A n \in 0..(J - 1) : NthId(T, n) \in T /\ Rank(T, NthId(T, n)) = n
      /\ \A x \in T : NthId(T, Rank(T, x)) = x
  BY <1>1, RankOrder
<1> HIDE DEF K, J, A
<1>6. A \in Nat /\ K =< A
  BY <1>2, <1>4, <1>5
<1>7. \A n \in 0..(A - 1) : IF n < K THEN n \in 0..(K - 1) ELSE n - K \in 0..(J - 1)
  BY <1>2, <1>4, <1>5
<1>8. \A n \in 0..(A - 1) : Origin(m, n) \in IF n < K THEN S ELSE T
  BY <1>3, <1>4, <1>5, <1>7
<1>9. ASSUME NEW n \in 0..(A - 1), NEW k \in 0..(A - 1), Origin(m, n) = Origin(m, k) PROVE n = k
  <2>1. (n < K) <=> (k < K)
    BY <1>1, <1>8, <1>9
  <2>2. CASE n < K
    <3>1. n \in 0..(K - 1) /\ k \in 0..(K - 1) /\ Origin(m, n) = NthId(S, n) /\ Origin(m, k) = NthId(S, k)
      BY <1>3, <1>7, <2>1, <2>2
    <3> QED
      BY <1>4, <1>9, <3>1
  <2>3. CASE ~ (n < K)
    <3>1. /\ n - K \in 0..(J - 1) /\ k - K \in 0..(J - 1)
          /\ Origin(m, n) = NthId(T, n - K) /\ Origin(m, k) = NthId(T, k - K)
      BY <1>3, <1>7, <2>1, <2>3
    <3>2. n - K = k - K
      BY <1>5, <1>9, <3>1
    <3> QED
      BY <1>4, <1>6, <3>2
  <2> QED
    BY <2>2, <2>3
<1>10. ASSUME NEW x \in S PROVE Rank(S, x) \in 0..(K - 1) /\ Origin(m, Rank(S, x)) = x
  <2>1. Rank(S, x) \in 0..(K - 1)
    BY <1>4
  <2>2. Rank(S, x) < K
    BY <1>4, <2>1
  <2> QED
    BY <1>3, <1>4, <2>1, <2>2
<1>11. ASSUME NEW x \in T PROVE \E n \in K..(A - 1) : Origin(m, n) = x
  <2> DEFINE i == Rank(T, x)
  <2>1. i \in 0..(J - 1) /\ NthId(T, i) = x
    BY <1>5
  <2> HIDE DEF i
  <2> DEFINE n == K + i
  <2>2. n \in K..(A - 1) /\ ~ (n < K) /\ n - K = i
    BY <1>2, <1>4, <1>5, <2>1
  <2> HIDE DEF n
  <2>3. Origin(m, n) = NthId(T, i)
    BY <1>3, <2>2
  <2> QED
    BY <2>1, <2>2, <2>3
<1>12. ASSUME NEW n \in 0..(K - 1) PROVE Rank(S, Origin(m, n)) = n
  <2>1. n < K
    BY <1>4
  <2> QED
    BY <1>3, <1>4, <2>1
<1> QED
  BY <1>4, <1>6, <1>8, <1>9, <1>10, <1>11, <1>12 DEF S, T, K, A

(* The tried entries of a bucket are as many as the bucket is long. *)
TriedOf(m, b) == { n \in TriedIds(m) : GetTriedBucket[m.mapInfo[n].addr] = b }
LEMMA TriedOfCount ==
  ASSUME NEW m, Typed(m), TriedPlaced(m), NEW b \in TriedBucket
  PROVE  /\ IsFiniteSet(TriedOf(m, b)) /\ Cardinality(TriedOf(m, b)) = Len(m.vvTried[b])
         /\ Len(m.vvTried[b]) \in Nat
<1> DEFINE q == m.vvTried[b]
           X == TriedOf(m, b)
<1>1. q \in Seq(Ids(m))
  BY DEF Typed
<1>2. \A i \in 1..Len(q) : At(m, b, i, q[i])
  BY DEF At
<1>3. \A i \in 1..Len(q) : q[i] \in X
  BY <1>2 DEF TriedPlaced, TriedOf
<1>4. \A i, j \in 1..Len(q) : q[i] = q[j] => i = j
  BY <1>2 DEF TriedPlaced
<1>5. \A x \in X : \E i \in 1..Len(q) : q[i] = x
  BY DEF TriedPlaced, TriedOf, At
<1> HIDE DEF q, X
<1>6. IsFiniteSet(X) /\ Cardinality(X) = Len(q)
  BY <1>1, <1>3, <1>4, <1>5, SequenceCount
<1>7. Len(q) \in Nat
  BY <1>1
<1> QED
  BY <1>6, <1>7 DEF q, X

(* The first k entries that were written of m are read, into r. *)
ReadBack(r, m, k) ==
  /\ Typed(r) /\ Indexed(r) /\ TriedPlaced(r)
  /\ Ids(r) = 0..(k - 1)
  /\ \A n \in Ids(r) : /\ r.mapInfo[n].addr = m.mapInfo[Origin(m, n)].addr
                       /\ r.mapInfo[n].source = m.mapInfo[Origin(m, n)].source
                       /\ r.mapInfo[n].fInTried <=> ~ (n < nNewOf(m))
  /\ r.nNew = IF k < nNewOf(m) THEN k ELSE nNewOf(m)
  /\ r.nTried = IF k < nNewOf(m) THEN 0 ELSE k - nNewOf(m)

(* The next entry gets the next number, and its host is not known yet. *)
LEMMA ReadCreates ==
  ASSUME NEW m, Consistent(m), NEW k \in 0..(nAllOf(m) - 1), NEW r, ReadBack(r, m, k),
         NEW addr, addr = m.mapInfo[Origin(m, k)].addr,
         NEW source, source = m.mapInfo[Origin(m, k)].source
  PROVE  /\ nIdCount(r) = k /\ addr \in Addr
         /\ Created(Create(r, addr, source), r, k, addr, source)
<1> DEFINE x == Origin(m, k)
           h == Host[addr]
<1>0. Typed(m) /\ Indexed(m) /\ Typed(r) /\ Indexed(r) /\ Ids(r) = 0..(k - 1)
  BY DEF Consistent, ReadBack
<1>1. k \in Nat /\ nAllOf(m) \in Nat
  BY OriginBijective
<1>2. \A n \in 0..(nAllOf(m) - 1) : Origin(m, n) \in Ids(m)
  BY OriginBijective, NewOrTried
<1>3. x \in Ids(m)
  BY <1>2
<1>4. m.mapInfo[x] \in Info
  BY <1>0, <1>3 DEF Typed
<1>5. addr \in Addr /\ source \in Source /\ h \in Hosts
  BY <1>4 DEF Info, Hosts
<1>6. nIdCount(r) = k
  <2> DEFINE c == nIdCount(r)
  <2>1. c \in Nat /\ c \notin 0..(k - 1) /\ 0..(c - 1) \subseteq 0..(k - 1)
    BY <1>0, nIdCountFree DEF Typed
  <2> HIDE DEF c
  <2>2. ~ (c < k)
    BY <1>1, <2>1
  <2>3. ~ (k < c)
    <3>1. k < c => k \in 0..(c - 1)
      BY <1>1, <2>1
    <3>2. k \notin 0..(k - 1)
      BY <1>1
    <3> QED
      BY <2>1, <3>1, <3>2
  <2>4. c = k
    BY <1>1, <2>1, <2>2, <2>3
  <2> QED
    BY <2>4 DEF c
<1>7. r.mapAddr[h] = None
  <2> SUFFICES ASSUME r.mapAddr[h] # None PROVE FALSE
    OBVIOUS
  <2> DEFINE n == r.mapAddr[h]
  <2>1. n \in Ids(r)
    BY <1>0, <1>5 DEF Typed
  <2>2. Host[r.mapInfo[n].addr] = h
    BY <1>0, <1>5 DEF Indexed
  <2> HIDE DEF n
  <2>3. r.mapInfo[n].addr = m.mapInfo[Origin(m, n)].addr
    BY <2>1 DEF ReadBack
  <2>4. n \in 0..(nAllOf(m) - 1) /\ n # k
    BY <1>0, <1>1, <2>1
  <2>5. Origin(m, n) \in Ids(m)
    BY <1>2, <2>4
  <2>6. Origin(m, n) = x
    BY <1>0, <1>3, <2>2, <2>3, <2>5 DEF Indexed
  <2> QED
    BY <2>4, <2>6, OriginBijective
<1>8. Created(Create(r, addr, source), r, nIdCount(r), addr, source)
  BY <1>0, <1>5, <1>7, CreateKeeps
<1> QED
  BY <1>5, <1>6, <1>8

LEMMA ReadNewKeeps ==
  ASSUME NEW m, Consistent(m), NEW k \in 0..(nNewOf(m) - 1), NEW r, ReadBack(r, m, k), NEW e,
         e.addr = m.mapInfo[Origin(m, k)].addr, e.source = m.mapInfo[Origin(m, k)].source
  PROVE  ReadBack(ReadNew(r, e), m, k + 1)
<1> DEFINE c == Create(r, e.addr, e.source)
           s == ReadNew(r, e)
           K == nNewOf(m)
<1>0. K \in Nat /\ k \in Nat /\ k < K /\ k \in 0..(nAllOf(m) - 1) /\ Ids(r) = 0..(k - 1)
  <2>1. K \in Nat /\ nAllOf(m) \in Nat /\ K =< nAllOf(m)
    BY OriginBijective
  <2> QED
    BY <2>1 DEF ReadBack
<1>1. Created(c, r, k, e.addr, e.source)
  BY <1>0, ReadCreates
<1>2. s = [c EXCEPT !.nNew = c.nNew + 1]
  BY DEF ReadNew
<1> HIDE DEF c, s, K
<1>3. /\ Typed(c) /\ Indexed(c) /\ SameBuckets(c, r) /\ c.nNew = r.nNew
      /\ Ids(c) = Ids(r) \cup {k}
      /\ \A n \in Ids(r) : c.mapInfo[n] = r.mapInfo[n]
      /\ c.mapInfo[k].addr = e.addr /\ c.mapInfo[k].source = e.source /\ ~ c.mapInfo[k].fInTried
  BY <1>1 DEF Created
<1>4. /\ s.mapInfo = c.mapInfo /\ s.mapAddr = c.mapAddr /\ s.vRandom = c.vRandom
      /\ s.nTried = c.nTried /\ s.vvTried = c.vvTried /\ s.vvNew = c.vvNew
      /\ s.nNew = c.nNew + 1 /\ IsManager(s)
  BY <1>2, <1>3 DEF Typed, IsManager
<1>5. /\ c.mapInfo \in [Ids(c) -> Info] /\ c.nTried \in Nat /\ c.nNew \in Nat /\ c.nNew + 1 \in Nat
      /\ c.vvTried \in [TriedBucket -> Seq(Ids(c))] /\ c.vvNew \in [NewBucket -> SUBSET Ids(c)]
  BY <1>3 DEF Typed
<1>6. Ids(s) = Ids(c) /\ Typed(s) /\ Indexed(s)
  BY <1>3, <1>4, <1>5, RebuiltKeeps
<1>7. Ids(s) = 0..(k + 1 - 1)
  BY <1>0, <1>3, <1>6
<1>8. ASSUME NEW n \in Ids(s)
      PROVE  /\ s.mapInfo[n].addr = m.mapInfo[Origin(m, n)].addr
             /\ s.mapInfo[n].source = m.mapInfo[Origin(m, n)].source
             /\ s.mapInfo[n].fInTried <=> ~ (n < K)
  <2>1. CASE n = k
    BY <1>0, <1>3, <1>4, <2>1
  <2>2. CASE n # k
    <3>1. n \in Ids(r)
      BY <1>3, <1>6, <2>2
    <3> QED
      BY <1>3, <1>4, <3>1 DEF ReadBack, K
  <2> QED
    BY <2>1, <2>2
<1>9. TriedPlaced(s)
  <2>1. TriedIds(s) = TriedIds(r)
    BY <1>3, <1>4, <1>6 DEF TriedIds
  <2>2. \A n \in TriedIds(r) : s.mapInfo[n].addr = r.mapInfo[n].addr
    BY <1>3, <1>4 DEF TriedIds
  <2>3. s.vvTried = r.vvTried
    BY <1>3, <1>4 DEF SameBuckets
  <2>4. TriedPlaced(r)
    BY DEF ReadBack
  <2> QED
    BY <2>1, <2>2, <2>3, <2>4, TriedSame
<1>10. /\ s.nNew = IF k + 1 < K THEN k + 1 ELSE K
       /\ s.nTried = IF k + 1 < K THEN 0 ELSE k + 1 - K
  <2>1. r.nNew = k /\ r.nTried = 0
    BY <1>0 DEF ReadBack, K
  <2> QED
    BY <1>0, <1>3, <1>4, <2>1 DEF SameBuckets
<1>11. ReadBack(s, m, k + 1)
  <2> DEFINE j == k + 1
  <2>1. Ids(s) = 0..(j - 1)
    BY <1>7
  <2>2. s.nNew = (IF j < K THEN j ELSE K) /\ s.nTried = IF j < K THEN 0 ELSE j - K
    BY <1>0, <1>10
  <2> HIDE DEF j
  <2>3. ReadBack(s, m, j)
    BY <1>6, <1>8, <1>9, <2>1, <2>2 DEF ReadBack, K
  <2> QED
    BY <2>3 DEF j
<1> QED
  BY <1>11 DEF s

(* No tried entry is lost: the bucket has place for each, because it had.   *)
LEMMA ReadTriedHasPlace ==
  ASSUME NEW m, Consistent(m), NEW k \in nNewOf(m)..(nAllOf(m) - 1), NEW r, ReadBack(r, m, k)
  PROVE  LET b == GetTriedBucket[m.mapInfo[Origin(m, k)].addr]
         IN  b \in TriedBucket /\ Len(r.vvTried[b]) < ADDRMAN_TRIED_BUCKET_SIZE
<1> DEFINE x == Origin(m, k)
           b == GetTriedBucket[m.mapInfo[x].addr]
           A == nAllOf(m)
           K == nNewOf(m)
           X == TriedOf(r, b)
           Y == TriedOf(m, b)
<1>0. /\ Typed(m) /\ TriedPlaced(m) /\ TriedBounded(m) /\ Typed(r) /\ TriedPlaced(r)
      /\ Ids(r) = 0..(k - 1)
  BY DEF Consistent, Placed, ReadBack
<1>1. /\ K \in Nat /\ A \in Nat
      /\ \A n \in 0..(A - 1) : Origin(m, n) \in IF n < K THEN NewIds(m) ELSE TriedIds(m)
      /\ \A n, j \in 0..(A - 1) : Origin(m, n) = Origin(m, j) => n = j
  BY OriginBijective
<1> HIDE DEF A, K
<1>2. k \in 0..(A - 1) /\ ~ (k < K) /\ k \in Nat
  BY <1>1 DEF A, K
<1>3. x \in TriedIds(m) /\ x \in Ids(m)
  BY <1>1, <1>2 DEF TriedIds
<1>4. b \in TriedBucket
  BY <1>0, <1>3, AddrManAssumption DEF Typed, Info
<1>5. x \in Y
  BY <1>3 DEF TriedOf
<1>6. ASSUME NEW n \in X PROVE Origin(m, n) \in Y \ {x} /\ n \in 0..(A - 1)
  <2>1. n \in Ids(r) /\ r.mapInfo[n].fInTried /\ GetTriedBucket[r.mapInfo[n].addr] = b
    BY DEF TriedOf, TriedIds
  <2>2. ~ (n < K) /\ r.mapInfo[n].addr = m.mapInfo[Origin(m, n)].addr
    BY <2>1 DEF ReadBack, K
  <2>3. n \in 0..(A - 1) /\ n # k
    BY <1>0, <1>1, <1>2, <2>1
  <2>4. Origin(m, n) \in TriedIds(m) /\ Origin(m, n) # x
    BY <1>1, <1>2, <2>2, <2>3
  <2> QED
    BY <2>1, <2>2, <2>3, <2>4 DEF TriedOf
<1> HIDE DEF b, x
<1>7. /\ IsFiniteSet(X) /\ Cardinality(X) = Len(r.vvTried[b]) /\ Len(r.vvTried[b]) \in Nat
      /\ IsFiniteSet(Y) /\ Cardinality(Y) = Len(m.vvTried[b]) /\ Len(m.vvTried[b]) \in Nat
  BY <1>0, <1>4, TriedOfCount
<1> HIDE DEF X, Y
<1>8. Cardinality(X) =< Cardinality(Y \ {x})
  <2> DEFINE g == [n \in X |-> Origin(m, n)]
  <2>1. g \in [X -> Y \ {x}] /\ \A n, j \in X : g[n] = g[j] => n = j
    BY <1>1, <1>6
  <2>2. IsFiniteSet(Y \ {x})
    BY <1>5, <1>7, OneLess
  <2> HIDE DEF g
  <2> QED
    BY <2>1, <2>2, InjectionBound
<1>9. Cardinality(Y \ {x}) = Cardinality(Y) - 1
  BY <1>5, <1>7, OneLess
<1>10. Len(m.vvTried[b]) =< ADDRMAN_TRIED_BUCKET_SIZE
  BY <1>0, <1>4 DEF TriedBounded
<1>11. ADDRMAN_TRIED_BUCKET_SIZE \in Nat
  BY AddrManAssumption
<1>12. Len(r.vvTried[b]) < ADDRMAN_TRIED_BUCKET_SIZE
  BY <1>7, <1>8, <1>9, <1>10, <1>11
<1> QED
  BY <1>4, <1>12 DEF b, x

(* A tried entry is put at the end of its bucket. *)
AddsTried(s, r, b, k, pos) ==
  /\ b \in TriedBucket /\ k \notin TriedIds(r) /\ TriedIds(s) = TriedIds(r) \cup {k}
  /\ \A n \in TriedIds(r) : /\ s.mapInfo[n].addr = r.mapInfo[n].addr
                            /\ GetTriedBucket[r.mapInfo[n].addr] \in TriedBucket
  /\ GetTriedBucket[s.mapInfo[k].addr] = b
  /\ \A d \in TriedBucket : \A i, n :
       At(s, d, i, n) <=> At(r, d, i, n) \/ (d = b /\ i = pos /\ n = k)
LEMMA TriedAdded ==
  ASSUME NEW r, TriedPlaced(r), NEW s, NEW b, NEW k, NEW pos, AddsTried(s, r, b, k, pos)
  PROVE  TriedPlaced(s)
<1> USE DEF AddsTried
<1>1. ASSUME NEW d \in TriedBucket, NEW i, NEW n, At(s, d, i, n)
      PROVE  n \in TriedIds(s) /\ GetTriedBucket[s.mapInfo[n].addr] = d
  BY <1>1 DEF TriedPlaced
<1>2. ASSUME NEW d \in TriedBucket, NEW i, NEW j, NEW n, At(s, d, i, n), At(s, d, j, n)
      PROVE  i = j
  BY <1>2 DEF TriedPlaced
<1>3. ASSUME NEW n \in TriedIds(s)
      PROVE  \E i : At(s, GetTriedBucket[s.mapInfo[n].addr], i, n)
  <2>1. CASE n = k
    BY <2>1
  <2>2. CASE n # k
    BY <2>2 DEF TriedPlaced
  <2> QED
    BY <2>1, <2>2
<1> QED
  BY <1>1, <1>2, <1>3 DEF TriedPlaced

LEMMA ReadTriedKeeps ==
  ASSUME NEW m, Consistent(m), NEW k \in nNewOf(m)..(nAllOf(m) - 1), NEW r, ReadBack(r, m, k),
         NEW e, e.addr = m.mapInfo[Origin(m, k)].addr, e.source = m.mapInfo[Origin(m, k)].source
  PROVE  ReadBack(ReadTried(r, e), m, k + 1)
<1> DEFINE c == Create(r, e.addr, e.source)
           s == ReadTried(r, e)
           K == nNewOf(m)
           b == GetTriedBucket[e.addr]
           q == r.vvTried[b]
<1>0. K \in Nat /\ k \in Nat /\ ~ (k < K) /\ k \in 0..(nAllOf(m) - 1) /\ Ids(r) = 0..(k - 1)
  <2>1. K \in Nat /\ nAllOf(m) \in Nat
    BY OriginBijective
  <2> QED
    BY <2>1 DEF ReadBack
<1>1. nIdCount(r) = k /\ Created(c, r, k, e.addr, e.source)
  BY <1>0, ReadCreates
<1>2. b \in TriedBucket /\ Len(q) < ADDRMAN_TRIED_BUCKET_SIZE
  BY ReadTriedHasPlace
<1>3. s = [c EXCEPT !.mapInfo[k].fInTried = TRUE, !.vvTried[b] = Append(@, k), !.nTried = @ + 1]
  BY <1>1, <1>2 DEF ReadTried
<1> HIDE DEF c, K, b
<1> DEFINE f == [c.mapInfo EXCEPT ![k] = [c.mapInfo[k] EXCEPT !.fInTried = TRUE]]
           T == [c.vvTried EXCEPT ![b] = Append(c.vvTried[b], k)]
<1>4. s = [c EXCEPT !.mapInfo = f, !.vvTried = T, !.nTried = c.nTried + 1]
  BY <1>3
<1>5. /\ Typed(c) /\ Indexed(c) /\ SameBuckets(c, r) /\ c.nNew = r.nNew
      /\ k \notin Ids(r) /\ Ids(c) = Ids(r) \cup {k}
      /\ \A n \in Ids(r) : c.mapInfo[n] = r.mapInfo[n]
      /\ c.mapInfo[k].addr = e.addr /\ c.mapInfo[k].source = e.source
  BY <1>1 DEF Created
<1>6. /\ c.mapInfo \in [Ids(c) -> Info] /\ c.nTried \in Nat /\ c.nNew \in Nat /\ c.nTried + 1 \in Nat
      /\ c.vvTried \in [TriedBucket -> Seq(Ids(c))] /\ c.vvNew \in [NewBucket -> SUBSET Ids(c)]
  BY <1>5 DEF Typed
<1>7. c.vvTried = r.vvTried /\ c.nTried = r.nTried /\ c.vvTried[b] = q
  BY <1>5 DEF SameBuckets
<1>q. q \in Seq(Ids(c)) /\ Len(q) \in Nat /\ Append(q, k) \in Seq(Ids(c))
  <2>1. q \in Seq(Ids(c)) /\ k \in Ids(c)
    BY <1>2, <1>5, <1>6, <1>7
  <2> HIDE DEF q
  <2> QED
    BY <2>1
<1>8. /\ f \in [Ids(c) -> Info] /\ f[k].fInTried = TRUE
      /\ f[k].addr = e.addr /\ f[k].source = e.source /\ f[k].nRandomPos = c.mapInfo[k].nRandomPos
      /\ \A n \in Ids(r) : f[n] = c.mapInfo[n]
  <2> DEFINE en == [c.mapInfo[k] EXCEPT !.fInTried = TRUE]
  <2>1. c.mapInfo[k] \in Info /\ k \in Ids(c)
    BY <1>5, <1>6
  <2>2. /\ en \in Info /\ en.fInTried = TRUE /\ en.addr = c.mapInfo[k].addr
        /\ en.source = c.mapInfo[k].source /\ en.nRandomPos = c.mapInfo[k].nRandomPos
    BY <2>1 DEF Info
  <2>3. f = [c.mapInfo EXCEPT ![k] = en]
    OBVIOUS
  <2> HIDE DEF en, f
  <2> QED
    BY <1>5, <1>6, <2>1, <2>2, <2>3
<1> HIDE DEF q
<1>9. /\ T \in [TriedBucket -> Seq(Ids(c))] /\ T[b] = Append(q, k)
      /\ \A d \in TriedBucket \ {b} : T[d] = r.vvTried[d]
  <2>1. T = [r.vvTried EXCEPT ![b] = Append(q, k)]
    BY <1>7
  <2> HIDE DEF T
  <2> QED
    BY <1>2, <1>6, <1>7, <1>q, <2>1
<1> HIDE DEF f, T, s
<1>10. /\ s.mapInfo = f /\ s.mapAddr = c.mapAddr /\ s.vRandom = c.vRandom
       /\ s.nTried = c.nTried + 1 /\ s.vvTried = T /\ s.vvNew = c.vvNew
       /\ s.nNew = c.nNew /\ IsManager(s)
  BY <1>4, <1>5 DEF Typed, IsManager
<1>11. Ids(s) = Ids(c) /\ Typed(s) /\ Indexed(s)
  <2>1. \A n \in Ids(c) : f[n].addr = c.mapInfo[n].addr /\ f[n].nRandomPos = c.mapInfo[n].nRandomPos
    BY <1>5, <1>8
  <2>2. Typed(c) /\ Indexed(c)
    BY <1>5
  <2> QED
    BY <1>6, <1>8, <1>9, <1>10, <2>1, <2>2, RebuiltKeeps
<1>12. ASSUME NEW n \in Ids(s)
       PROVE  /\ s.mapInfo[n].addr = m.mapInfo[Origin(m, n)].addr
              /\ s.mapInfo[n].source = m.mapInfo[Origin(m, n)].source
              /\ s.mapInfo[n].fInTried <=> ~ (n < K)
  <2>1. CASE n = k
    BY <1>0, <1>8, <1>10, <2>1
  <2>2. CASE n # k
    <3>1. n \in Ids(r)
      BY <1>5, <1>11, <2>2
    <3> QED
      BY <1>5, <1>8, <1>10, <3>1 DEF ReadBack, K
  <2> QED
    BY <2>1, <2>2
<1>13. TriedPlaced(s)
  <2> DEFINE pos == Len(q) + 1
  <2>1. TriedPlaced(r) /\ Typed(r)
    BY DEF ReadBack
  <2>2. TriedIds(s) = TriedIds(r) \cup {k} /\ k \notin TriedIds(r)
    BY <1>5, <1>8, <1>10, <1>11 DEF TriedIds
  <2>3. \A n \in TriedIds(r) : /\ s.mapInfo[n].addr = r.mapInfo[n].addr
                               /\ GetTriedBucket[r.mapInfo[n].addr] \in TriedBucket
    BY <1>5, <1>8, <1>10, <2>1, AddrManAssumption DEF TriedIds, Typed, Info
  <2>4. GetTriedBucket[s.mapInfo[k].addr] = b
    BY <1>8, <1>10 DEF b
  <2>5. ASSUME NEW d \in TriedBucket, NEW i, NEW n
        PROVE  At(s, d, i, n) <=> At(r, d, i, n) \/ (d = b /\ i = pos /\ n = k)
    <3>1. CASE d = b
      <4>1. s.vvTried[d] = Append(q, k) /\ r.vvTried[d] = q
        BY <1>9, <1>10, <3>1 DEF q
      <4>2. /\ Len(Append(q, k)) = pos /\ Append(q, k)[pos] = k
            /\ \A x \in 1..Len(q) : Append(q, k)[x] = q[x]
        BY <1>q
      <4>3. At(s, d, i, n) <=> i \in 1..pos /\ Append(q, k)[i] = n
        BY <4>1, <4>2 DEF At
      <4>4. At(r, d, i, n) <=> i \in 1..Len(q) /\ q[i] = n
        BY <4>1 DEF At
      <4>5. (i \in 1..pos <=> i \in 1..Len(q) \/ i = pos) /\ pos \notin 1..Len(q)
        BY <1>q
      <4> HIDE DEF pos
      <4> QED
        BY <3>1, <4>2, <4>3, <4>4, <4>5
    <3>2. CASE d # b
      BY <1>9, <1>10, <3>2 DEF At
    <3> QED
      BY <3>1, <3>2
  <2> HIDE DEF pos
  <2>6. AddsTried(s, r, b, k, pos)
    BY <1>2, <2>2, <2>3, <2>4, <2>5 DEF AddsTried
  <2> QED
    BY <2>1, <2>6, TriedAdded
<1>14. ReadBack(s, m, k + 1)
  <2> DEFINE j == k + 1
  <2>1. Ids(s) = 0..(j - 1)
    BY <1>0, <1>5, <1>11
  <2>2. s.nNew = (IF j < K THEN j ELSE K) /\ s.nTried = IF j < K THEN 0 ELSE j - K
    <3>1. r.nNew = K /\ r.nTried = k - K
      BY <1>0 DEF ReadBack, K
    <3> QED
      BY <1>0, <1>5, <1>7, <1>10, <3>1
  <2> HIDE DEF j
  <2>3. ReadBack(s, m, j)
    BY <1>11, <1>12, <1>13, <2>1, <2>2 DEF ReadBack, K
  <2> QED
    BY <2>3 DEF j
<1> QED
  BY <1>14 DEF s

(* Nothing is read yet. *)
LEMMA EmptyConsistent ==
  /\ Typed(Empty) /\ Indexed(Empty) /\ TriedPlaced(Empty)
  /\ Ids(Empty) = {} /\ TriedIds(Empty) = {} /\ NewIds(Empty) = {}
  /\ Consistent(Empty)
<1> DEFINE E == Empty
<1>1. /\ E.mapInfo = <<>> /\ E.mapAddr = [h \in Hosts |-> None] /\ E.vRandom = <<>> /\ E.nTried = 0
      /\ E.vvTried = [b \in TriedBucket |-> <<>>] /\ E.nNew = 0 /\ E.vvNew = [b \in NewBucket |-> {}]
      /\ IsManager(E)
  BY DEF Empty, IsManager
<1> HIDE DEF E
<1>2. Ids(E) = {}
  BY <1>1 DEF Ids
<1>3. TriedIds(E) = {} /\ NewIds(E) = {}
  BY <1>2 DEF TriedIds, NewIds
<1>4. Typed(E)
  <2>1. E.mapInfo \in [{} -> Info]
    BY <1>1
  <2>2. E.vRandom \in Seq({}) /\ E.vvTried \in [TriedBucket -> Seq({})]
    BY <1>1
  <2> QED
    BY <1>1, <1>2, <2>1, <2>2, FS_EmptySet DEF Typed
<1>5. Indexed(E)
  BY <1>1, <1>2 DEF Indexed
<1>6. TriedPlaced(E)
  <2>1. \A b \in TriedBucket : \A i, n : ~ At(E, b, i, n)
    BY <1>1 DEF At
  <2> QED
    BY <1>3, <2>1 DEF TriedPlaced
<1>7. Placed(E)
  BY <1>1, <1>2, <1>3, <1>6, FS_EmptySet DEF Placed, NewPlaced, Counted
<1>8. NewBounded(E) /\ TriedBounded(E)
  <2>1. ADDRMAN_NEW_BUCKET_SIZE \in Nat /\ ADDRMAN_TRIED_BUCKET_SIZE \in Nat
    BY AddrManAssumption
  <2>2. Cardinality({}) = 0 /\ Len(<<>>) = 0
    BY FS_EmptySet
  <2> QED
    BY <1>1, <1>2, <2>1, <2>2 DEF NewBounded, TriedBounded
<1> QED
  BY <1>2, <1>3, <1>4, <1>5, <1>6, <1>7, <1>8 DEF Consistent, E

LEMMA NothingRead ==
  ASSUME NEW m, Consistent(m)
  PROVE  ReadBack(Empty, m, 0)
<1>1. nNewOf(m) \in Nat
  BY OriginBijective
<1>2. Empty.nNew = 0 /\ Empty.nTried = 0
  BY DEF Empty
<1>3. 0..(0 - 1) = {}
  OBVIOUS
<1> QED
  BY <1>1, <1>2, <1>3, EmptyConsistent DEF ReadBack

(* The loops over the two lists end. *)
NewReads(read, q, N) ==
  read = [i \in 0..N |-> IF i = 0 THEN Empty ELSE ReadNew(read[i - 1], q[i])]
TriedReads(read, z, q, N) ==
  read = [i \in 0..N |-> IF i = 0 THEN z ELSE ReadTried(read[i - 1], q[i])]

LEMMA NewReadsDefined ==
  ASSUME NEW q, NEW N \in Nat
  PROVE  \E read : NewReads(read, q, N)
<1> DEFINE T == { k \in Nat : ~ \E g : NewReads(g, q, k) }
<1>1. NewReads([n \in 0..0 |-> Empty], q, 0)
  BY DEF NewReads
<1>2. ASSUME NEW k \in Nat, NEW g, NewReads(g, q, k) PROVE \E h : NewReads(h, q, k + 1)
  <2> DEFINE h == [n \in 0..(k + 1) |-> IF n = k + 1 THEN ReadNew(g[k], q[k + 1]) ELSE g[n]]
  <2>1. ASSUME NEW n \in 0..(k + 1) PROVE h[n] = IF n = 0 THEN Empty ELSE ReadNew(h[n - 1], q[n])
    <3>1. CASE n = k + 1
      <4>1. h[n] = ReadNew(g[k], q[k + 1]) /\ n # 0 /\ n - 1 = k /\ k \in 0..(k + 1) /\ k # k + 1
        BY <3>1
      <4>2. h[k] = g[k]
        BY <4>1
      <4> QED
        BY <3>1, <4>1, <4>2
    <3>2. CASE n # k + 1
      <4>1. n \in 0..k
        BY <3>2
      <4>2. h[n] = g[n] /\ (n # 0 => h[n - 1] = g[n - 1])
        BY <3>2, <4>1
      <4>3. g[n] = IF n = 0 THEN Empty ELSE ReadNew(g[n - 1], q[n])
        BY <1>2, <4>1 DEF NewReads
      <4> QED
        BY <4>2, <4>3
    <3> QED
      BY <3>1, <3>2
  <2>2. NewReads(h, q, k + 1)
    <3>1. h = [n \in 0..(k + 1) |-> h[n]]
      OBVIOUS
    <3> HIDE DEF h
    <3> QED
      BY <2>1, <3>1 DEF NewReads
  <2> QED
    BY <2>2
<1>3. T = {}
  <2> SUFFICES ASSUME T # {} PROVE FALSE
    OBVIOUS
  <2>1. T \in SUBSET Nat
    OBVIOUS
  <2> HIDE DEF T
  <2>2. PICK k \in T : \A j \in T : k =< j
    BY <2>1, LeastNatural
  <2>3. k \in Nat /\ ~ \E g : NewReads(g, q, k)
    BY <2>2 DEF T
  <2>4. k # 0
    BY <1>1, <2>3
  <2>5. k - 1 \in Nat /\ k - 1 \notin T
    BY <2>2, <2>3, <2>4
  <2>6. PICK g : NewReads(g, q, k - 1)
    BY <2>5 DEF T
  <2>7. \E h : NewReads(h, q, k - 1 + 1)
    BY <1>2, <2>5, <2>6
  <2> QED
    BY <2>3, <2>7
<1> QED
  BY <1>3

LEMMA TriedReadsDefined ==
  ASSUME NEW z, NEW q, NEW N \in Nat
  PROVE  \E read : TriedReads(read, z, q, N)
<1> DEFINE T == { k \in Nat : ~ \E g : TriedReads(g, z, q, k) }
<1>1. TriedReads([n \in 0..0 |-> z], z, q, 0)
  BY DEF TriedReads
<1>2. ASSUME NEW k \in Nat, NEW g, TriedReads(g, z, q, k) PROVE \E h : TriedReads(h, z, q, k + 1)
  <2> DEFINE h == [n \in 0..(k + 1) |-> IF n = k + 1 THEN ReadTried(g[k], q[k + 1]) ELSE g[n]]
  <2>1. ASSUME NEW n \in 0..(k + 1) PROVE h[n] = IF n = 0 THEN z ELSE ReadTried(h[n - 1], q[n])
    <3>1. CASE n = k + 1
      <4>1. h[n] = ReadTried(g[k], q[k + 1]) /\ n # 0 /\ n - 1 = k /\ k \in 0..(k + 1) /\ k # k + 1
        BY <3>1
      <4>2. h[k] = g[k]
        BY <4>1
      <4> QED
        BY <3>1, <4>1, <4>2
    <3>2. CASE n # k + 1
      <4>1. n \in 0..k
        BY <3>2
      <4>2. h[n] = g[n] /\ (n # 0 => h[n - 1] = g[n - 1])
        BY <3>2, <4>1
      <4>3. g[n] = IF n = 0 THEN z ELSE ReadTried(g[n - 1], q[n])
        BY <1>2, <4>1 DEF TriedReads
      <4> QED
        BY <4>2, <4>3
    <3> QED
      BY <3>1, <3>2
  <2>2. TriedReads(h, z, q, k + 1)
    <3>1. h = [n \in 0..(k + 1) |-> h[n]]
      OBVIOUS
    <3> HIDE DEF h
    <3> QED
      BY <2>1, <3>1 DEF TriedReads
  <2> QED
    BY <2>2
<1>3. T = {}
  <2> SUFFICES ASSUME T # {} PROVE FALSE
    OBVIOUS
  <2>1. T \in SUBSET Nat
    OBVIOUS
  <2> HIDE DEF T
  <2>2. PICK k \in T : \A j \in T : k =< j
    BY <2>1, LeastNatural
  <2>3. k \in Nat /\ ~ \E g : TriedReads(g, z, q, k)
    BY <2>2 DEF T
  <2>4. k # 0
    BY <1>1, <2>3
  <2>5. k - 1 \in Nat /\ k - 1 \notin T
    BY <2>2, <2>3, <2>4
  <2>6. PICK g : TriedReads(g, z, q, k - 1)
    BY <2>5 DEF T
  <2>7. \E h : TriedReads(h, z, q, k - 1 + 1)
    BY <1>2, <2>5, <2>6
  <2> QED
    BY <2>3, <2>7
<1> QED
  BY <1>3

(* What is written, by the numbers that the entries will have. *)
LEMMA EntriesWritten ==
  ASSUME NEW m, NEW S \in SUBSET Nat, IsFiniteSet(S)
  PROVE  LET q == Entries(m, S)
         IN  /\ Len(q) = Cardinality(S) /\ Len(q) \in Nat
             /\ \A n \in 1..Len(q) : /\ q[n].addr = m.mapInfo[NthId(S, n - 1)].addr
                                     /\ q[n].source = m.mapInfo[NthId(S, n - 1)].source
<1> DEFINE q == Entries(m, S)
           c == Cardinality(S)
           E(n) == [addr |-> m.mapInfo[n].addr, source |-> m.mapInfo[n].source]
<1>1. c \in Nat
  BY FS_CardinalityType
<1>2. q = [i \in 1..c |-> E(NthId(S, i - 1))]
  <2> DEFINE N(i) == CHOOSE x \in S : Cardinality({ y \in S : y < x }) = i - 1
  <2>1. q = [i \in 1..c |-> E(N(i))]
    BY DEF Entries
  <2>2. \A i : N(i) = NthId(S, i - 1)
    BY DEF NthId, Rank
  <2> HIDE DEF N, E, q, c
  <2> QED
    BY <2>1, <2>2
<1> HIDE DEF c, E, q
<1>4. Len(q) = c
  BY <1>1, <1>2
<1>5. \A n : E(n).addr = m.mapInfo[n].addr /\ E(n).source = m.mapInfo[n].source
  BY DEF E
<1>6. \A n \in 1..Len(q) : q[n] = E(NthId(S, n - 1))
  BY <1>1, <1>2, <1>4
<1>7. /\ Len(q) = c /\ Len(q) \in Nat
      /\ \A n \in 1..Len(q) : /\ q[n].addr = m.mapInfo[NthId(S, n - 1)].addr
                              /\ q[n].source = m.mapInfo[NthId(S, n - 1)].source
  BY <1>1, <1>4, <1>5, <1>6
<1> QED
  BY <1>7 DEF q, c

Written(f, m) ==
  /\ Len(f.new) = nNewOf(m) /\ Len(f.tried) = nAllOf(m) - nNewOf(m)
  /\ \A n \in 1..Len(f.new) : /\ f.new[n].addr = m.mapInfo[Origin(m, n - 1)].addr
                              /\ f.new[n].source = m.mapInfo[Origin(m, n - 1)].source
  /\ \A n \in 1..Len(f.tried) :
       /\ f.tried[n].addr = m.mapInfo[Origin(m, nNewOf(m) + n - 1)].addr
       /\ f.tried[n].source = m.mapInfo[Origin(m, nNewOf(m) + n - 1)].source
  /\ f.vvNew = [b \in NewBucket |-> { Rank(NewIds(m), x) : x \in m.vvNew[b] }]
LEMMA SerializedWritten ==
  ASSUME NEW m, Consistent(m)
  PROVE  Written(Serialized(m), m)
<1> DEFINE f == Serialized(m)
           S == NewIds(m)
           T == TriedIds(m)
           K == nNewOf(m)
           J == Cardinality(T)
<1>1. f.new = Entries(m, S) /\ f.tried = Entries(m, T)
  BY DEF Serialized
<1>2. f.vvNew = [b \in NewBucket |-> { Rank(NewIds(m), x) : x \in m.vvNew[b] }]
  BY DEF Serialized, mapUnkIds, Rank
<1>3. S \in SUBSET Nat /\ T \in SUBSET Nat /\ IsFiniteSet(S) /\ IsFiniteSet(T)
  BY NewOrTried
<1>4. K = Cardinality(S) /\ nAllOf(m) = K + J
  BY DEF nNewOf, nAllOf
<1>5. \A n : Origin(m, n) = IF n < K THEN NthId(S, n) ELSE NthId(T, n - K)
  BY DEF Origin
<1> HIDE DEF f, S, T, K, J
<1>6. /\ Len(f.new) = K /\ K \in Nat
      /\ \A n \in 1..Len(f.new) : /\ f.new[n].addr = m.mapInfo[NthId(S, n - 1)].addr
                                  /\ f.new[n].source = m.mapInfo[NthId(S, n - 1)].source
  BY <1>1, <1>3, <1>4, EntriesWritten
<1>7. /\ Len(f.tried) = J /\ J \in Nat
      /\ \A n \in 1..Len(f.tried) : /\ f.tried[n].addr = m.mapInfo[NthId(T, n - 1)].addr
                                    /\ f.tried[n].source = m.mapInfo[NthId(T, n - 1)].source
  BY <1>1, <1>3, EntriesWritten DEF J
<1>8. nAllOf(m) - K = J
  BY <1>4, <1>6, <1>7
<1>9. ASSUME NEW n \in 1..K PROVE Origin(m, n - 1) = NthId(S, n - 1)
  <2>1. n - 1 < K
    BY <1>6
  <2> QED
    BY <1>5, <2>1
<1>10. ASSUME NEW n \in 1..J PROVE Origin(m, K + n - 1) = NthId(T, n - 1)
  <2> DEFINE i == K + n - 1
  <2>1. ~ (i < K) /\ i - K = n - 1
    BY <1>6, <1>7
  <2> HIDE DEF i
  <2>2. Origin(m, i) = NthId(T, n - 1)
    BY <1>5, <2>1
  <2> QED
    BY <2>2 DEF i
<1>11. Written(f, m)
  <2>1. /\ Len(f.new) = nNewOf(m) /\ Len(f.tried) = nAllOf(m) - nNewOf(m)
    BY <1>6, <1>7, <1>8 DEF K
  <2>2. ASSUME NEW n \in 1..Len(f.new)
        PROVE  /\ f.new[n].addr = m.mapInfo[Origin(m, n - 1)].addr
               /\ f.new[n].source = m.mapInfo[Origin(m, n - 1)].source
    BY <1>6, <1>9
  <2>3. ASSUME NEW n \in 1..Len(f.tried)
        PROVE  /\ f.tried[n].addr = m.mapInfo[Origin(m, nNewOf(m) + n - 1)].addr
               /\ f.tried[n].source = m.mapInfo[Origin(m, nNewOf(m) + n - 1)].source
    <3>1. Origin(m, K + n - 1) = NthId(T, n - 1)
      BY <1>7, <1>10
    <3>2. /\ f.tried[n].addr = m.mapInfo[Origin(m, K + n - 1)].addr
          /\ f.tried[n].source = m.mapInfo[Origin(m, K + n - 1)].source
      BY <1>7, <3>1
    <3> QED
      BY <3>2 DEF K
  <2> QED
    BY <1>2, <2>1, <2>2, <2>3 DEF Written
<1> QED
  BY <1>11 DEF f

(* All entries are read back. *)
LEMMA AllNewReadBack ==
  ASSUME NEW m, Consistent(m), NEW f, Written(f, m)
  PROVE  ReadBack(AllNewRead(f), m, nNewOf(m))
<1> DEFINE K == nNewOf(m)
           q == f.new
<1>1. K \in Nat /\ Len(q) = K
  BY OriginBijective DEF Written
<1>2. PICK read : NewReads(read, q, K) /\ AllNewRead(f) = read[K]
  <2> DEFINE read[i \in 0..Len(f.new)] == IF i = 0 THEN Empty ELSE ReadNew(read[i - 1], f.new[i])
  <2>1. AllNewRead(f) = read[Len(f.new)]
    BY DEF AllNewRead
  <2>2. PICK g : NewReads(g, q, Len(f.new))
    BY <1>1, NewReadsDefined
  <2>3. read = [i \in 0..Len(f.new) |-> IF i = 0 THEN Empty ELSE ReadNew(read[i - 1], f.new[i])]
    BY <2>2 DEF NewReads
  <2> HIDE DEF read
  <2>4. NewReads(read, q, Len(f.new))
    BY <2>3 DEF NewReads
  <2> QED
    BY <1>1, <2>1, <2>4
<1> DEFINE T == { n \in 0..K : ~ ReadBack(read[n], m, n) }
<1>3. read[0] = Empty
  BY <1>1, <1>2 DEF NewReads
<1>4. ASSUME NEW n \in 1..K PROVE read[n] = ReadNew(read[n - 1], q[n])
  BY <1>1, <1>2 DEF NewReads
<1>5. ASSUME NEW n \in 1..K, ReadBack(read[n - 1], m, n - 1) PROVE ReadBack(read[n], m, n)
  <2> DEFINE k == n - 1
  <2>1. k \in 0..(K - 1) /\ n = k + 1
    BY <1>1
  <2>2. q[n].addr = m.mapInfo[Origin(m, k)].addr /\ q[n].source = m.mapInfo[Origin(m, k)].source
    BY <1>1 DEF Written
  <2>3. ReadBack(read[k], m, k) /\ read[n] = ReadNew(read[k], q[n])
    BY <1>4, <1>5
  <2> HIDE DEF k, K, q
  <2>4. ReadBack(ReadNew(read[k], q[n]), m, k + 1)
    BY <2>1, <2>2, <2>3, ReadNewKeeps DEF K
  <2> QED
    BY <2>1, <2>3, <2>4
<1>6. ReadBack(read[0], m, 0)
  BY <1>3, NothingRead
<1> HIDE DEF K, q
<1>7. T = {}
  <2> SUFFICES ASSUME T # {} PROVE FALSE
    OBVIOUS
  <2>1. T \in SUBSET Nat
    OBVIOUS
  <2> HIDE DEF T
  <2>2. PICK n \in T : \A j \in T : n =< j
    BY <2>1, LeastNatural
  <2>3. n \in 0..K /\ ~ ReadBack(read[n], m, n)
    BY <2>2 DEF T
  <2>4. n # 0
    BY <1>6, <2>3
  <2>5. n \in 1..K /\ n - 1 \in 0..K /\ n - 1 \notin T
    BY <1>1, <2>2, <2>3, <2>4
  <2>6. ReadBack(read[n - 1], m, n - 1)
    BY <2>5 DEF T
  <2> QED
    BY <1>5, <2>3, <2>5, <2>6
<1>8. ReadBack(read[K], m, K)
  BY <1>1, <1>7
<1> QED
  BY <1>2, <1>8 DEF K

LEMMA AllTriedReadBack ==
  ASSUME NEW m, Consistent(m), NEW f, Written(f, m)
  PROVE  ReadBack(AllTriedRead(f), m, nAllOf(m))
<1> DEFINE K == nNewOf(m)
           J == nAllOf(m) - nNewOf(m)
           q == f.tried
           z == AllNewRead(f)
<1>1. K \in Nat /\ J \in Nat /\ Len(q) = J /\ nAllOf(m) = K + J
  <2>1. nNewOf(m) \in Nat /\ nAllOf(m) \in Nat /\ nNewOf(m) =< nAllOf(m)
    BY OriginBijective
  <2> QED
    BY <2>1 DEF Written
<1>2. PICK read : TriedReads(read, z, q, J) /\ AllTriedRead(f) = read[J]
  <2> DEFINE read[i \in 0..Len(f.tried)] ==
        IF i = 0 THEN AllNewRead(f) ELSE ReadTried(read[i - 1], f.tried[i])
  <2>1. AllTriedRead(f) = read[Len(f.tried)]
    BY DEF AllTriedRead
  <2>2. PICK g : TriedReads(g, z, q, Len(f.tried))
    BY <1>1, TriedReadsDefined
  <2>3. read = [i \in 0..Len(f.tried) |->
                  IF i = 0 THEN AllNewRead(f) ELSE ReadTried(read[i - 1], f.tried[i])]
    BY <2>2 DEF TriedReads
  <2> HIDE DEF read
  <2>4. TriedReads(read, z, q, Len(f.tried))
    BY <2>3 DEF TriedReads
  <2> QED
    BY <1>1, <2>1, <2>4
<1> DEFINE T == { n \in 0..J : ~ ReadBack(read[n], m, K + n) }
<1>3. read[0] = z
  BY <1>1, <1>2 DEF TriedReads
<1>4. ASSUME NEW n \in 1..J PROVE read[n] = ReadTried(read[n - 1], q[n])
  BY <1>1, <1>2 DEF TriedReads
<1>5. ASSUME NEW n \in 1..J, ReadBack(read[n - 1], m, K + (n - 1)) PROVE ReadBack(read[n], m, K + n)
  <2> DEFINE k == K + n - 1
             e == q[n]
             r == read[n - 1]
  <2>1. k \in nNewOf(m)..(nAllOf(m) - 1) /\ K + n = k + 1 /\ k = K + (n - 1)
    BY <1>1
  <2>2. e.addr = m.mapInfo[Origin(m, k)].addr /\ e.source = m.mapInfo[Origin(m, k)].source
    BY <1>1 DEF Written
  <2>3. ReadBack(r, m, k) /\ read[n] = ReadTried(r, e)
    BY <1>4, <1>5, <2>1
  <2> HIDE DEF k, K, e, r
  <2>4. ReadBack(ReadTried(r, e), m, k + 1)
    BY <2>1, <2>2, <2>3, ReadTriedKeeps
  <2> QED
    BY <2>1, <2>3, <2>4
<1>6. ReadBack(read[0], m, K + 0)
  <2>1. K + 0 = K
    BY <1>1
  <2> QED
    BY <1>3, <2>1, AllNewReadBack
<1> HIDE DEF K, J, q, z
<1>7. T = {}
  <2> SUFFICES ASSUME T # {} PROVE FALSE
    OBVIOUS
  <2>1. T \in SUBSET Nat
    OBVIOUS
  <2> HIDE DEF T
  <2>2. PICK n \in T : \A j \in T : n =< j
    BY <2>1, LeastNatural
  <2>3. n \in 0..J /\ ~ ReadBack(read[n], m, K + n)
    BY <2>2 DEF T
  <2>4. n # 0
    BY <1>6, <2>3
  <2>5. n \in 1..J /\ n - 1 \in 0..J /\ n - 1 \notin T
    BY <1>1, <2>2, <2>3, <2>4
  <2>6. ReadBack(read[n - 1], m, K + (n - 1))
    BY <2>5 DEF T
  <2> QED
    BY <1>5, <2>3, <2>5, <2>6
<1>8. ReadBack(read[J], m, K + J)
  BY <1>1, <1>7
<1> QED
  BY <1>1, <1>2, <1>8

(* The references of the n-th entry, in the file. *)
FileRefs(f, n) == { b \in NewBucket : n \in f.vvNew[b] }

LEMMA FileRefsWritten ==
  ASSUME NEW m, Consistent(m), NEW f, Written(f, m)
  PROVE  /\ \A b \in NewBucket : f.vvNew[b] \subseteq 0..(nNewOf(m) - 1)
         /\ \A n \in 0..(nAllOf(m) - 1) : FileRefs(f, n) = Refs(m, Origin(m, n))
<1> DEFINE S == NewIds(m)
           T == TriedIds(m)
           K == nNewOf(m)
           A == nAllOf(m)
<1>0. Typed(m) /\ NewPlaced(m)
  BY DEF Consistent, Placed
<1>1. /\ K \in Nat /\ A \in Nat /\ K =< A
      /\ \A n \in 0..(A - 1) : Origin(m, n) \in IF n < K THEN S ELSE T
      /\ \A x \in S : Rank(S, x) \in 0..(K - 1) /\ Origin(m, Rank(S, x)) = x
      /\ \A n \in 0..(K - 1) : Rank(S, Origin(m, n)) = n
  BY OriginBijective
<1>2. \A b \in NewBucket : m.vvNew[b] \subseteq S
  <2> SUFFICES ASSUME NEW b \in NewBucket, NEW x \in m.vvNew[b] PROVE x \in S
    OBVIOUS
  <2>1. x \in Ids(m)
    BY <1>0 DEF Typed
  <2>2. Refs(m, x) # {}
    BY DEF Refs
  <2>3. x \notin T
    BY <1>0, <2>1, <2>2 DEF NewPlaced, TriedIds
  <2> QED
    BY <2>1, <2>3, NewOrTried
<1>3. \A b \in NewBucket : f.vvNew[b] = { Rank(S, x) : x \in m.vvNew[b] }
  BY DEF Written
<1>4. \A n \in T : Refs(m, n) = {}
  BY <1>0 DEF NewPlaced, TriedIds
<1> HIDE DEF S, T, K, A
<1>5. ASSUME NEW b \in NewBucket PROVE f.vvNew[b] \subseteq 0..(K - 1)
  BY <1>1, <1>2, <1>3
<1>6. ASSUME NEW n \in 0..(A - 1) PROVE FileRefs(f, n) = Refs(m, Origin(m, n))
  <2>1. CASE n < K
    <3>1. n \in 0..(K - 1) /\ Rank(S, Origin(m, n)) = n
      BY <1>1, <2>1
    <3>2. ASSUME NEW b \in NewBucket PROVE n \in f.vvNew[b] <=> Origin(m, n) \in m.vvNew[b]
      <4>1. ASSUME n \in f.vvNew[b] PROVE Origin(m, n) \in m.vvNew[b]
        <5>1. PICK x \in m.vvNew[b] : n = Rank(S, x)
          BY <1>3, <4>1
        <5> QED
          BY <1>1, <1>2, <5>1
      <4>2. ASSUME Origin(m, n) \in m.vvNew[b] PROVE n \in f.vvNew[b]
        BY <1>3, <3>1, <4>2
      <4> QED
        BY <4>1, <4>2
    <3> QED
      BY <3>2 DEF FileRefs, Refs
  <2>2. CASE ~ (n < K)
    <3>1. Origin(m, n) \in T
      BY <1>1, <2>2
    <3>2. n \notin 0..(K - 1)
      BY <1>1, <2>2
    <3>3. FileRefs(f, n) = {}
      BY <1>5, <3>2 DEF FileRefs
    <3> QED
      BY <1>4, <3>1, <3>3
  <2> QED
    BY <2>1, <2>2
<1> QED
  BY <1>5, <1>6 DEF K, A

(* The limit on the references takes none away. *)
KeptRefs(f) ==
  [b \in NewBucket |->
     { n \in f.vvNew[b] :
         Cardinality({ a \in NewBucket : a < b /\ n \in f.vvNew[a] }) < ADDRMAN_NEW_BUCKETS_PER_ADDRESS }]
LEMMA AllRefsKept ==
  ASSUME NEW m, Consistent(m), NEW f, Written(f, m)
  PROVE  KeptRefs(f) = f.vvNew
<1>0. f.vvNew = [b \in NewBucket |-> f.vvNew[b]]
  BY DEF Written
<1>1. ASSUME NEW b \in NewBucket, NEW n \in f.vvNew[b]
      PROVE  Cardinality({ a \in NewBucket : a < b /\ n \in f.vvNew[a] })
               < ADDRMAN_NEW_BUCKETS_PER_ADDRESS
  <2> DEFINE B == { a \in NewBucket : a < b /\ n \in f.vvNew[a] }
             F == FileRefs(f, n)
             x == Origin(m, n)
  <2>1. nNewOf(m) \in Nat /\ nAllOf(m) \in Nat /\ nNewOf(m) =< nAllOf(m)
    BY OriginBijective
  <2>2. n \in 0..(nNewOf(m) - 1)
    BY FileRefsWritten
  <2>3. n \in 0..(nAllOf(m) - 1)
    BY <2>1, <2>2
  <2>4. F = Refs(m, x)
    BY <2>3, FileRefsWritten
  <2>5. x \in Ids(m)
    BY <2>3, OriginBijective, NewOrTried
  <2>6. b \in F /\ b \in Nat
    BY AddrManAssumption DEF FileRefs
  <2>7. B \in SUBSET (F \ {b})
    BY <2>6 DEF FileRefs
  <2>8. Typed(m) /\ NewPlaced(m) /\ NewBounded(m)
    BY DEF Consistent, Placed
  <2> HIDE DEF B, F, x
  <2>9. IsFiniteSet(F) /\ Cardinality(F) =< ADDRMAN_NEW_BUCKETS_PER_ADDRESS
    BY <2>4, <2>5, <2>8, FiniteParts DEF NewPlaced, NewBounded
  <2>10. /\ IsFiniteSet(F \ {b}) /\ Cardinality(F \ {b}) = Cardinality(F) - 1
         /\ Cardinality(F) \in Nat
    BY <2>6, <2>9, OneLess
  <2>11. Cardinality(B) =< Cardinality(F \ {b}) /\ IsFiniteSet(B)
    BY <2>7, <2>10, FS_Subset
  <2>12. Cardinality(B) \in Nat
    BY <2>11, FS_CardinalityType
  <2>13. ADDRMAN_NEW_BUCKETS_PER_ADDRESS \in Nat
    BY AddrManAssumption
  <2>14. Cardinality(B) < ADDRMAN_NEW_BUCKETS_PER_ADDRESS
    BY <2>9, <2>10, <2>11, <2>12, <2>13
  <2> QED
    BY <2>14 DEF B
<1> DEFINE P(a, n) == Cardinality({ d \in NewBucket : d < a /\ n \in f.vvNew[d] })
                        < ADDRMAN_NEW_BUCKETS_PER_ADDRESS
<1>2. KeptRefs(f) = [b \in NewBucket |-> { n \in f.vvNew[b] : P(b, n) }]
  BY DEF KeptRefs
<1>3. \A b \in NewBucket : \A n \in f.vvNew[b] : P(b, n)
  BY <1>1
<1> HIDE DEF P
<1>4. \A b \in NewBucket : { n \in f.vvNew[b] : P(b, n) } = f.vvNew[b]
  BY <1>3
<1> QED
  BY <1>0, <1>2, <1>4

(* u has the entries of m under other numbers, in the same places. *)
Copied(u, m) ==
  /\ Ids(u) = 0..(nAllOf(m) - 1)
  /\ \A n \in Ids(u) : SameEntry(u.mapInfo[n], m.mapInfo[Origin(m, n)])
  /\ \A n \in Ids(u) : Refs(u, n) = Refs(m, Origin(m, n))
  /\ u.nTried = m.nTried /\ u.nNew = m.nNew

LEMMA UnserializedCopies ==
  ASSUME NEW m, Consistent(m), NEW f, Written(f, m)
  PROVE  LET u == Unserialized(f)
         IN  Typed(u) /\ Indexed(u) /\ TriedPlaced(u) /\ Copied(u, m)
<1> DEFINE u == Unserialized(f)
           t == AllTriedRead(f)
           V == f.vvNew
           K == nNewOf(m)
           A == nAllOf(m)
           g == [n \in Ids(t) |-> [t.mapInfo[n] EXCEPT !.nRefCount = Cardinality(FileRefs(f, n))]]
<1>0. Typed(m) /\ NewPlaced(m) /\ Counted(m)
  BY DEF Consistent, Placed
<1>1. ReadBack(t, m, A)
  BY AllTriedReadBack
<1>2. u = [t EXCEPT !.vvNew = V, !.mapInfo = g]
  <2> DEFINE W == KeptRefs(f)
             G == [n \in Ids(t) |-> [t.mapInfo[n] EXCEPT !.nRefCount =
                                       Cardinality({ b \in NewBucket : n \in W[b] })]]
  <2>1. u = [t EXCEPT !.vvNew = W, !.mapInfo = G]
    BY DEF Unserialized, KeptRefs
  <2>2. W = V
    BY AllRefsKept
  <2>3. G = g
    BY <2>2 DEF FileRefs
  <2> HIDE DEF W, G, V, g
  <2> QED
    BY <2>1, <2>2, <2>3
<1> HIDE DEF t
<1>3. /\ K \in Nat /\ A \in Nat /\ K =< A
      /\ \A n \in 0..(A - 1) : Origin(m, n) \in IF n < K THEN NewIds(m) ELSE TriedIds(m)
  BY OriginBijective
<1>4. /\ Typed(t) /\ Indexed(t) /\ TriedPlaced(t) /\ Ids(t) = 0..(A - 1)
      /\ \A n \in Ids(t) : /\ t.mapInfo[n].addr = m.mapInfo[Origin(m, n)].addr
                           /\ t.mapInfo[n].source = m.mapInfo[Origin(m, n)].source
                           /\ t.mapInfo[n].fInTried <=> ~ (n < K)
  BY <1>1 DEF ReadBack
<1>5. t.nNew = K /\ t.nTried = A - K
  BY <1>1, <1>3 DEF ReadBack
<1>6. \A n \in 0..(A - 1) : /\ FileRefs(f, n) = Refs(m, Origin(m, n))
                            /\ Cardinality(FileRefs(f, n)) \in Nat
  BY <1>0, FileRefsWritten, FiniteParts
<1>7. V \in [NewBucket -> SUBSET Ids(t)]
  <2>1. \A b \in NewBucket : V[b] \subseteq 0..(K - 1)
    BY FileRefsWritten
  <2>2. 0..(K - 1) \subseteq Ids(t)
    BY <1>3, <1>4
  <2>3. V = [b \in NewBucket |-> V[b]]
    BY DEF Written
  <2> HIDE DEF V, K
  <2> QED
    BY <2>1, <2>2, <2>3
<1>8. /\ g \in [Ids(t) -> Info]
      /\ \A n \in Ids(t) : /\ g[n].addr = t.mapInfo[n].addr /\ g[n].source = t.mapInfo[n].source
                           /\ g[n].fInTried = t.mapInfo[n].fInTried
                           /\ g[n].nRandomPos = t.mapInfo[n].nRandomPos
                           /\ g[n].nRefCount = Cardinality(FileRefs(f, n))
  <2>1. ASSUME NEW n \in Ids(t), NEW c \in Nat
        PROVE  LET e == [t.mapInfo[n] EXCEPT !.nRefCount = c]
               IN  /\ e \in Info /\ e.addr = t.mapInfo[n].addr /\ e.source = t.mapInfo[n].source
                   /\ e.fInTried = t.mapInfo[n].fInTried /\ e.nRandomPos = t.mapInfo[n].nRandomPos
                   /\ e.nRefCount = c
    <3>1. t.mapInfo[n] \in Info
      BY <1>4 DEF Typed
    <3> QED
      BY <3>1 DEF Info
  <2>2. \A n \in Ids(t) : Cardinality(FileRefs(f, n)) \in Nat
    BY <1>4, <1>6
  <2> QED
    BY <2>1, <2>2
<1> HIDE DEF V, g, u, K, A
<1>9. /\ u.mapInfo = g /\ u.mapAddr = t.mapAddr /\ u.vRandom = t.vRandom /\ u.nTried = t.nTried
      /\ u.vvTried = t.vvTried /\ u.nNew = t.nNew /\ u.vvNew = V /\ IsManager(u)
  BY <1>2, <1>4 DEF Typed, IsManager
<1>10. Ids(u) = Ids(t) /\ Typed(u) /\ Indexed(u)
  <2>1. t.nTried \in Nat /\ t.nNew \in Nat /\ t.vvTried \in [TriedBucket -> Seq(Ids(t))]
    BY <1>4 DEF Typed
  <2>2. Typed(t) /\ Indexed(t)
    BY <1>4
  <2>3. \A n \in Ids(t) : g[n].addr = t.mapInfo[n].addr /\ g[n].nRandomPos = t.mapInfo[n].nRandomPos
    BY <1>8
  <2> QED
    BY <1>7, <1>8, <1>9, <2>1, <2>2, <2>3, RebuiltKeeps
<1>11. TriedPlaced(u)
  <2>1. TriedIds(u) = TriedIds(t)
    BY <1>8, <1>9, <1>10 DEF TriedIds
  <2>2. \A n \in TriedIds(t) : u.mapInfo[n].addr = t.mapInfo[n].addr
    BY <1>8, <1>9 DEF TriedIds
  <2>3. TriedPlaced(t) /\ u.vvTried = t.vvTried
    BY <1>4, <1>9
  <2> QED
    BY <2>1, <2>2, <2>3, TriedSame
<1>12. \A n \in Ids(u) : Refs(u, n) = Refs(m, Origin(m, n))
  <2>1. \A n : Refs(u, n) = FileRefs(f, n)
    BY <1>9 DEF Refs, FileRefs, V
  <2> QED
    BY <1>4, <1>6, <1>10, <2>1
<1>13. ASSUME NEW n \in Ids(u) PROVE SameEntry(u.mapInfo[n], m.mapInfo[Origin(m, n)])
  <2> DEFINE x == Origin(m, n)
  <2>1. n \in 0..(A - 1) /\ n \in Ids(t)
    BY <1>4, <1>10
  <2>2. x \in IF n < K THEN NewIds(m) ELSE TriedIds(m)
    BY <1>3, <2>1
  <2>3. x \in Ids(m) /\ (x \in TriedIds(m) <=> ~ (n < K))
    BY <2>2, NewOrTried
  <2>4. m.mapInfo[x].fInTried <=> ~ (n < K)
    BY <2>3 DEF TriedIds
  <2>5. m.mapInfo[x].nRefCount = Cardinality(FileRefs(f, n))
    BY <1>0, <1>6, <2>1, <2>3 DEF NewPlaced
  <2>6. u.mapInfo[n].fInTried <=> ~ (n < K)
    BY <1>4, <1>8, <1>9, <2>1
  <2>7. u.mapInfo[n].fInTried \in BOOLEAN /\ m.mapInfo[x].fInTried \in BOOLEAN
    BY <1>0, <1>10, <2>3 DEF Typed, Info
  <2>8. u.mapInfo[n].fInTried = m.mapInfo[x].fInTried
    BY <2>4, <2>6, <2>7
  <2>9. /\ u.mapInfo[n].addr = m.mapInfo[x].addr /\ u.mapInfo[n].source = m.mapInfo[x].source
        /\ u.mapInfo[n].nRefCount = m.mapInfo[x].nRefCount
    BY <1>4, <1>8, <1>9, <2>1, <2>5
  <2> QED
    BY <2>8, <2>9 DEF SameEntry
<1>14. u.nTried = m.nTried /\ u.nNew = m.nNew
  <2>1. K = m.nNew /\ A = m.nNew + m.nTried /\ m.nNew \in Nat /\ m.nTried \in Nat
    BY <1>0 DEF Counted, K, A, nNewOf, nAllOf, Typed
  <2> QED
    BY <1>5, <1>9, <2>1
<1>15. Copied(u, m)
  BY <1>4, <1>10, <1>12, <1>13, <1>14 DEF Copied, A
<1> QED
  BY <1>10, <1>11, <1>15 DEF u

LEMMA CopiedConsistent ==
  ASSUME NEW m, Consistent(m), NEW u, Typed(u), Indexed(u), TriedPlaced(u), Copied(u, m)
  PROVE  Consistent(u)
<1> DEFINE K == nNewOf(m)
           A == nAllOf(m)
<1>0. /\ Typed(m) /\ NewPlaced(m) /\ TriedPlaced(m) /\ Counted(m) /\ NewBounded(m) /\ TriedBounded(m)
  BY DEF Consistent, Placed
<1>1. /\ K \in Nat /\ A \in Nat /\ K =< A
      /\ \A n \in 0..(A - 1) : Origin(m, n) \in IF n < K THEN NewIds(m) ELSE TriedIds(m)
      /\ \A n, j \in 0..(A - 1) : Origin(m, n) = Origin(m, j) => n = j
  BY OriginBijective
<1>2. /\ Ids(u) = 0..(A - 1)
      /\ \A n \in Ids(u) : SameEntry(u.mapInfo[n], m.mapInfo[Origin(m, n)])
      /\ \A n \in Ids(u) : Refs(u, n) = Refs(m, Origin(m, n))
  BY DEF Copied
<1>3. K = m.nNew /\ A = m.nNew + m.nTried /\ m.nNew \in Nat /\ m.nTried \in Nat
  BY <1>0 DEF Counted, nNewOf, nAllOf, Typed
<1>4. u.nTried = m.nTried /\ u.nNew = m.nNew
  BY DEF Copied
<1> HIDE DEF K, A
<1>5. \A n \in Ids(u) : Origin(m, n) \in Ids(m)
  BY <1>1, <1>2 DEF NewIds, TriedIds
<1>6. NewPlaced(u)
  BY <1>0, <1>2, <1>5 DEF NewPlaced, SameEntry
<1>7. \A n \in Ids(u) : /\ n < K <=> Origin(m, n) \in NewIds(m)
                        /\ ~ (n < K) <=> Origin(m, n) \in TriedIds(m)
  BY <1>1, <1>2, NewOrTried
<1>8. NewIds(u) = 0..(K - 1)
  <2>1. \A n \in Ids(u) : u.mapInfo[n].nRefCount # 0 <=> n < K
    BY <1>2, <1>5, <1>7 DEF NewIds, SameEntry
  <2>2. \A n : n \in 0..(K - 1) <=> n \in Ids(u) /\ n < K
    BY <1>1, <1>2
  <2> QED
    BY <2>1, <2>2 DEF NewIds
<1>9. TriedIds(u) = K..(A - 1)
  <2>1. \A n \in Ids(u) : u.mapInfo[n].fInTried <=> ~ (n < K)
    BY <1>2, <1>5, <1>7 DEF TriedIds, SameEntry
  <2>2. \A n : n \in K..(A - 1) <=> n \in Ids(u) /\ ~ (n < K)
    BY <1>1, <1>2
  <2> QED
    BY <2>1, <2>2 DEF TriedIds
<1>10. Counted(u)
  <2>1. Cardinality(0..(K - 1)) = K
    <3>1. 0 \in Int /\ K - 1 \in Int
      BY <1>1
    <3>2. Cardinality(0..(K - 1)) = IF 0 > K - 1 THEN 0 ELSE K - 1 - 0 + 1
      BY <3>1, FS_Interval
    <3> QED
      BY <1>1, <3>2
  <2>2. Cardinality(K..(A - 1)) = A - K
    <3>1. K \in Int /\ A - 1 \in Int
      BY <1>1
    <3>2. Cardinality(K..(A - 1)) = IF K > A - 1 THEN 0 ELSE A - 1 - K + 1
      BY <3>1, FS_Interval
    <3> QED
      BY <1>1, <3>2
  <2> QED
    BY <1>3, <1>4, <1>8, <1>9, <2>1, <2>2 DEF Counted
<1>11. NewBounded(u)
  <2>1. ASSUME NEW b \in NewBucket PROVE Cardinality(u.vvNew[b]) =< ADDRMAN_NEW_BUCKET_SIZE
    <3> DEFINE X == u.vvNew[b]
               Y == m.vvNew[b]
               g == [n \in X |-> Origin(m, n)]
    <3>1. X \subseteq Ids(u)
      BY DEF Typed
    <3>2. \A n \in X : Origin(m, n) \in Y
      BY <1>2, <3>1 DEF Refs
    <3>3. IsFiniteSet(Y) /\ Cardinality(Y) \in Nat /\ Cardinality(Y) =< ADDRMAN_NEW_BUCKET_SIZE
      BY <1>0, FiniteParts DEF NewBounded
    <3> HIDE DEF X, Y
    <3>4. g \in [X -> Y] /\ \A n, j \in X : g[n] = g[j] => n = j
      BY <1>1, <1>2, <3>1, <3>2
    <3> HIDE DEF g
    <3>5. IsFiniteSet(X) /\ Cardinality(X) =< Cardinality(Y)
      BY <3>3, <3>4, InjectionBound
    <3>6. Cardinality(X) \in Nat /\ ADDRMAN_NEW_BUCKET_SIZE \in Nat
      BY <3>5, FS_CardinalityType, AddrManAssumption
    <3>7. Cardinality(X) =< ADDRMAN_NEW_BUCKET_SIZE
      BY <3>3, <3>5, <3>6
    <3> QED
      BY <3>7 DEF X
  <2>2. \A n \in Ids(u) : u.mapInfo[n].nRefCount =< ADDRMAN_NEW_BUCKETS_PER_ADDRESS
    BY <1>0, <1>2, <1>5 DEF NewBounded, SameEntry
  <2> QED
    BY <2>1, <2>2 DEF NewBounded
<1>12. TriedBounded(u)
  <2>1. ASSUME NEW b \in TriedBucket PROVE Len(u.vvTried[b]) =< ADDRMAN_TRIED_BUCKET_SIZE
    <3> DEFINE X == TriedOf(u, b)
               Y == TriedOf(m, b)
               g == [n \in X |-> Origin(m, n)]
    <3>1. X \subseteq Ids(u)
      BY DEF TriedOf, TriedIds
    <3>2. \A n \in X : Origin(m, n) \in Y
      BY <1>2, <1>5 DEF TriedOf, TriedIds, SameEntry
    <3>3. /\ IsFiniteSet(Y) /\ Cardinality(Y) = Len(m.vvTried[b]) /\ Len(m.vvTried[b]) \in Nat
          /\ Cardinality(X) = Len(u.vvTried[b]) /\ Len(u.vvTried[b]) \in Nat
      BY <1>0, TriedOfCount
    <3> HIDE DEF X, Y
    <3>4. g \in [X -> Y] /\ \A n, j \in X : g[n] = g[j] => n = j
      BY <1>1, <1>2, <3>1, <3>2
    <3> HIDE DEF g
    <3>5. IsFiniteSet(X) /\ Cardinality(X) =< Cardinality(Y)
      BY <3>3, <3>4, InjectionBound
    <3>6. Len(m.vvTried[b]) =< ADDRMAN_TRIED_BUCKET_SIZE /\ ADDRMAN_TRIED_BUCKET_SIZE \in Nat
      BY <1>0, AddrManAssumption DEF TriedBounded
    <3> QED
      BY <3>3, <3>5, <3>6
  <2> QED
    BY <2>1 DEF TriedBounded
<1> QED
  BY <1>6, <1>10, <1>11, <1>12 DEF Consistent, Placed

(* The tables that a copy shows are the same. *)
LEMMA CopiedTables ==
  ASSUME NEW m, Consistent(m), NEW u, Consistent(u), Copied(u, m)
  PROVE  Tables(u) = Tables(m)
<1> DEFINE K == nNewOf(m)
           A == nAllOf(m)
<1>1. /\ K \in Nat /\ A \in Nat /\ K =< A
      /\ \A n \in 0..(A - 1) : Origin(m, n) \in IF n < K THEN NewIds(m) ELSE TriedIds(m)
      /\ \A x \in NewIds(m) : /\ Rank(NewIds(m), x) \in 0..(K - 1)
                              /\ Origin(m, Rank(NewIds(m), x)) = x
      /\ \A x \in TriedIds(m) : \E n \in K..(A - 1) : Origin(m, n) = x
  BY OriginBijective
<1>2. /\ Ids(u) = 0..(A - 1)
      /\ \A n \in Ids(u) : SameEntry(u.mapInfo[n], m.mapInfo[Origin(m, n)])
      /\ \A n \in Ids(u) : Refs(u, n) = Refs(m, Origin(m, n))
      /\ u.nTried = m.nTried /\ u.nNew = m.nNew
  BY DEF Copied
<1> HIDE DEF K, A
<1>3. \A n \in Ids(u) : Origin(m, n) \in Ids(m)
  BY <1>1, <1>2 DEF NewIds, TriedIds
<1>4. ASSUME NEW x \in Ids(m) PROVE \E n \in Ids(u) : Origin(m, n) = x
  <2>1. CASE x \in NewIds(m)
    <3> DEFINE i == Rank(NewIds(m), x)
    <3>1. i \in 0..(K - 1) /\ Origin(m, i) = x
      BY <1>1, <2>1
    <3> HIDE DEF i
    <3>2. i \in Ids(u)
      BY <1>1, <1>2, <3>1
    <3> QED
      BY <3>1, <3>2
  <2>2. CASE x \in TriedIds(m)
    <3>1. PICK n \in K..(A - 1) : Origin(m, n) = x
      BY <1>1, <2>2
    <3>2. n \in Ids(u)
      BY <1>1, <1>2
    <3> QED
      BY <3>1, <3>2
  <2> QED
    BY <2>1, <2>2, NewOrTried
<1>5. ASSUME NEW s, Consistent(s), NEW b \in TriedBucket PROVE Range(s.vvTried[b]) = TriedOf(s, b)
  <2>1. TriedPlaced(s) /\ s.vvTried[b] \in Seq(Ids(s))
    BY <1>5 DEF Consistent, Placed, Typed
  <2>2. DOMAIN s.vvTried[b] = 1..Len(s.vvTried[b])
    BY <2>1
  <2>3. \A n : n \in Range(s.vvTried[b]) <=> \E i : At(s, b, i, n)
    BY <2>2 DEF Range, At
  <2>4. \A n : n \in TriedOf(s, b) <=> \E i : At(s, b, i, n)
    BY <2>1 DEF TriedOf, TriedPlaced
  <2> QED
    BY <2>3, <2>4
<1> DEFINE TA(s, b) == { <<s.mapInfo[n].addr, s.mapInfo[n].source>> : n \in Range(s.vvTried[b]) }
           NA(s, b) == { <<s.mapInfo[n].addr, s.mapInfo[n].source, s.mapInfo[n].nRefCount>>
                           : n \in s.vvNew[b] }
<1>6. ASSUME NEW b \in TriedBucket PROVE TA(u, b) = TA(m, b)
  <2>1. Range(u.vvTried[b]) = TriedOf(u, b) /\ Range(m.vvTried[b]) = TriedOf(m, b)
    BY <1>5
  <2>2. ASSUME NEW n \in TriedOf(u, b)
        PROVE  /\ Origin(m, n) \in TriedOf(m, b)
               /\ u.mapInfo[n].addr = m.mapInfo[Origin(m, n)].addr
               /\ u.mapInfo[n].source = m.mapInfo[Origin(m, n)].source
    BY <1>2, <1>3 DEF TriedOf, TriedIds, SameEntry
  <2>3. ASSUME NEW x \in TriedOf(m, b)
        PROVE  \E n \in TriedOf(u, b) : /\ u.mapInfo[n].addr = m.mapInfo[x].addr
                                        /\ u.mapInfo[n].source = m.mapInfo[x].source
    <3>1. x \in Ids(m) /\ m.mapInfo[x].fInTried /\ GetTriedBucket[m.mapInfo[x].addr] = b
      BY DEF TriedOf, TriedIds
    <3>2. PICK n \in Ids(u) : Origin(m, n) = x
      BY <1>4, <3>1
    <3>3. SameEntry(u.mapInfo[n], m.mapInfo[x])
      BY <1>2, <3>2
    <3> QED
      BY <3>1, <3>2, <3>3 DEF TriedOf, TriedIds, SameEntry
  <2> QED
    BY <2>1, <2>2, <2>3
<1>7. ASSUME NEW b \in NewBucket PROVE NA(u, b) = NA(m, b)
  <2>0. u.vvNew[b] \subseteq Ids(u) /\ m.vvNew[b] \subseteq Ids(m)
    BY DEF Consistent, Typed
  <2>1. \A n \in Ids(u) : n \in u.vvNew[b] <=> Origin(m, n) \in m.vvNew[b]
    BY <1>2 DEF Refs
  <2>2. ASSUME NEW n \in Ids(u)
        PROVE  <<u.mapInfo[n].addr, u.mapInfo[n].source, u.mapInfo[n].nRefCount>>
                 = <<m.mapInfo[Origin(m, n)].addr, m.mapInfo[Origin(m, n)].source,
                     m.mapInfo[Origin(m, n)].nRefCount>>
    BY <1>2 DEF SameEntry
  <2> QED
    BY <1>4, <2>0, <2>1, <2>2
<1>8. ASSUME NEW s
      PROVE  Tables(s) = [tried |-> [b \in TriedBucket |-> TA(s, b)],
                          new |-> [b \in NewBucket |-> NA(s, b)], counts |-> <<s.nTried, s.nNew>>]
  BY DEF Tables
<1> HIDE DEF TA, NA
<1> QED
  BY <1>2, <1>6, <1>7, <1>8

LEMMA RestartCopies ==
  ASSUME NEW m, Consistent(m)
  PROVE  LET u == Unserialized(Serialized(m)) IN Consistent(u) /\ Tables(u) = Tables(m)
<1> DEFINE u == Unserialized(Serialized(m))
<1>1. Typed(u) /\ Indexed(u) /\ TriedPlaced(u) /\ Copied(u, m)
  BY SerializedWritten, UnserializedCopies
<1> HIDE DEF u
<1>2. Consistent(u)
  BY <1>1, CopiedConsistent
<1>3. Tables(u) = Tables(m)
  BY <1>1, <1>2, CopiedTables
<1> QED
  BY <1>2, <1>3 DEF u

-----------------------------------------------------------------------------
(* The invariant holds, and says what Check_ checks. *)

LEMMA NextKeeps ==
  ASSUME Consistent(am), [Next]_am
  PROVE  Consistent(am') /\ (~ Restart => Forgets(am', am))
<1>1. CASE \E addr \in Addr, source \in Source : Add(addr, source)
  BY <1>1, AddKeeps
<1>2. CASE \E addr \in Addr : Good(addr)
  BY <1>2, GoodKeeps
<1>3. CASE GetAddr
  BY <1>3, GetAddrKeeps
<1>4. CASE Restart
  <2>1. am' = Unserialized(Serialized(am))
    BY <1>4 DEF Restart
  <2> QED
    BY <1>4, <2>1, RestartCopies
<1>5. CASE UNCHANGED am
  BY <1>5 DEF Forgets
<1> QED
  BY <1>1, <1>2, <1>3, <1>4, <1>5 DEF Next

(* Whatever happens to the address manager, its tables and indexes agree.   *)
THEOREM ManagerStaysConsistent == Spec => []Consistent(am)
<1>1. Init => Consistent(am)
  BY EmptyConsistent DEF Init
<1>2. Consistent(am) /\ [Next]_am => Consistent(am)'
  BY NextKeeps
<1> QED
  BY <1>1, <1>2, PTL DEF Spec

(* Every variable has its type; a reference count never passes              *)
(* ADDRMAN_NEW_BUCKETS_PER_ADDRESS.                                         *)
THEOREM AddrManTypeCorrect == Spec => []TypeOK
<1>1. Consistent(am) => TypeOK
  <2> SUFFICES ASSUME Consistent(am) PROVE TypeOK
    OBVIOUS
  <2>0. Typed(am) /\ Indexed(am) /\ NewBounded(am)
    BY DEF Consistent
  <2>1. ASSUME NEW n \in Ids(am)
        PROVE  am.mapInfo[n] \in [addr : Addr, source : Source, fInTried : BOOLEAN,
                                  nRefCount : 0..ADDRMAN_NEW_BUCKETS_PER_ADDRESS,
                                  nRandomPos : 1..Len(am.vRandom)]
    <3>1. am.mapInfo[n] \in Info
      BY <2>0 DEF Typed
    <3>2. am.mapInfo[n].nRefCount =< ADDRMAN_NEW_BUCKETS_PER_ADDRESS
      BY <2>0 DEF NewBounded
    <3>3. am.mapInfo[n].nRandomPos \in 1..Len(am.vRandom)
      BY <2>0 DEF Indexed
    <3>4. ADDRMAN_NEW_BUCKETS_PER_ADDRESS \in Nat
      BY AddrManAssumption
    <3>5. am.mapInfo[n].nRefCount \in 0..ADDRMAN_NEW_BUCKETS_PER_ADDRESS
      BY <3>1, <3>2, <3>4 DEF Info
    <3> QED
      BY <3>1, <3>3, <3>5 DEF Info
  <2> QED
    BY <2>0, <2>1 DEF Typed, TypeOK
<1> QED
  BY <1>1, ManagerStaysConsistent, PTL

(* A new entry is in as many new buckets as it counts, a tried one in one   *)
(* place, of the bucket it hashes to.                                       *)
THEOREM RefCountsAlwaysMatch == Spec => []RefCountsMatch
<1>1. Consistent(am) => RefCountsMatch
  <2> SUFFICES ASSUME Consistent(am), NEW n \in Ids(am)
               PROVE  LET info == am.mapInfo[n]
                          refs == Cardinality({ b \in NewBucket : n \in am.vvNew[b] })
                      IN  /\ info.nRefCount = refs
                          /\ info.fInTried <=> refs = 0
                          /\ Cardinality(Places(n)) = IF info.fInTried THEN 1 ELSE 0
                          /\ \A p \in Places(n) : p[1] = GetTriedBucket[info.addr]
    BY DEF RefCountsMatch
  <2> DEFINE info == am.mapInfo[n]
             R == { b \in NewBucket : n \in am.vvNew[b] }
             k == GetTriedBucket[info.addr]
  <2>0. Typed(am) /\ NewPlaced(am) /\ TriedPlaced(am) /\ TriedBounded(am)
    BY DEF Consistent, Placed
  <2>1. R = Refs(am, n)
    BY DEF Refs
  <2>2. info.nRefCount = Cardinality(R) /\ (info.fInTried <=> Cardinality(R) = 0)
    <3>1. info.nRefCount = Cardinality(Refs(am, n)) /\ (info.fInTried <=> Refs(am, n) = {})
      BY <2>0 DEF NewPlaced
    <3>2. Cardinality(Refs(am, n)) = 0 <=> Refs(am, n) = {}
      BY <2>0, FiniteParts, FS_EmptySet
    <3> HIDE DEF R, info
    <3> QED
      BY <2>1, <3>1, <3>2
  <2>3. k \in TriedBucket
    BY <2>0, AddrManAssumption DEF Typed, Info
  <2>4. \A b \in TriedBucket, i \in 1..ADDRMAN_TRIED_BUCKET_SIZE :
          <<b, i>> \in Places(n) <=> At(am, b, i, n)
    <3> SUFFICES ASSUME NEW b \in TriedBucket, NEW i \in 1..ADDRMAN_TRIED_BUCKET_SIZE
                 PROVE  <<b, i>> \in Places(n) <=> At(am, b, i, n)
      OBVIOUS
    <3>1. Len(am.vvTried[b]) \in Nat /\ ADDRMAN_TRIED_BUCKET_SIZE \in Nat
      BY <2>0, AddrManAssumption DEF Typed
    <3>2. i =< Len(am.vvTried[b]) <=> i \in 1..Len(am.vvTried[b])
      BY <3>1
    <3>3. <<b, i>> \in Places(n) <=> i =< Len(am.vvTried[b]) /\ am.vvTried[b][i] = n
      BY DEF Places
    <3> QED
      BY <3>2, <3>3 DEF At
  <2>5. \A p \in Places(n) : \E b \in TriedBucket, i \in 1..ADDRMAN_TRIED_BUCKET_SIZE : p = <<b, i>>
    BY DEF Places
  <2>6. \A b \in TriedBucket, i \in 1..ADDRMAN_TRIED_BUCKET_SIZE :
          <<b, i>> \in Places(n) => info.fInTried /\ b = k
    BY <2>0, <2>4 DEF TriedPlaced, TriedIds
  <2>7. \A p \in Places(n) : p[1] = k
    BY <2>5, <2>6
  <2>8. Cardinality(Places(n)) = IF info.fInTried THEN 1 ELSE 0
    <3>1. CASE info.fInTried
      <4>1. PICK i : At(am, k, i, n)
        BY <2>0, <3>1 DEF TriedPlaced, TriedIds
      <4>2. i \in 1..ADDRMAN_TRIED_BUCKET_SIZE
        <5>1. i \in 1..Len(am.vvTried[k]) /\ Len(am.vvTried[k]) \in Nat
          BY <2>0, <2>3, <4>1 DEF At, Typed
        <5>2. Len(am.vvTried[k]) =< ADDRMAN_TRIED_BUCKET_SIZE /\ ADDRMAN_TRIED_BUCKET_SIZE \in Nat
          BY <2>0, <2>3, AddrManAssumption DEF TriedBounded
        <5> QED
          BY <5>1, <5>2
      <4>3. <<k, i>> \in Places(n)
        BY <2>3, <2>4, <4>1, <4>2
      <4>4. ASSUME NEW p \in Places(n) PROVE p = <<k, i>>
        <5>1. PICK b \in TriedBucket, j \in 1..ADDRMAN_TRIED_BUCKET_SIZE : p = <<b, j>>
          BY <2>5
        <5>2. b = k /\ At(am, b, j, n)
          BY <2>4, <2>6, <5>1
        <5>3. j = i
          BY <2>0, <2>3, <4>1, <5>2 DEF TriedPlaced
        <5> QED
          BY <5>1, <5>2, <5>3
      <4>5. Places(n) = {<<k, i>>}
        BY <4>3, <4>4
      <4>6. Cardinality({<<k, i>>}) = 1
        BY FS_Singleton
      <4> QED
        BY <3>1, <4>5, <4>6
    <3>2. CASE ~ info.fInTried
      <4>1. Places(n) = {}
        BY <2>5, <2>6, <3>2
      <4> QED
        BY <3>2, <4>1, FS_EmptySet
    <3> QED
      BY <3>1, <3>2
  <2> HIDE DEF R, k, info
  <2> QED
    BY <2>2, <2>7, <2>8 DEF R, k, info
<1> QED
  BY <1>1, ManagerStaysConsistent, PTL

(* vRandom has every entry once. *)
LEMMA RandomCount ==
  ASSUME NEW m, Typed(m), Indexed(m)
  PROVE  Cardinality(Ids(m)) = Len(m.vRandom)
<1> DEFINE q == m.vRandom
           X == Ids(m)
<1>1. q \in Seq(X)
  BY DEF Typed
<1>2. \A i \in 1..Len(q) : q[i] \in X
  BY <1>1
<1>3. \A i, j \in 1..Len(q) : q[i] = q[j] => i = j
  BY DEF Indexed
<1>4. \A x \in X : \E i \in 1..Len(q) : q[i] = x
  BY DEF Indexed
<1> HIDE DEF q, X
<1>5. Cardinality(X) = Len(q)
  BY <1>1, <1>2, <1>3, <1>4, SequenceCount
<1> QED
  BY <1>5 DEF q, X

(* The counters, which keep Select_ from searching for ever, count right.   *)
THEOREM CountersAlwaysMatch == Spec => []CountersMatch
<1>1. Consistent(am) => CountersMatch
  <2> SUFFICES ASSUME Consistent(am) PROVE CountersMatch
    OBVIOUS
  <2> DEFINE S == NewIds(am)
             T == TriedIds(am)
  <2>0. Typed(am) /\ Indexed(am) /\ Counted(am)
    BY DEF Consistent, Placed
  <2>1. am.nTried = Cardinality(T) /\ am.nNew = Cardinality(S)
    BY <2>0 DEF Counted
  <2>2. Ids(am) = S \cup T /\ S \cap T = {} /\ IsFiniteSet(S) /\ IsFiniteSet(T)
    BY NewOrTried
  <2>3. Len(am.vRandom) = Cardinality(S \cup T)
    BY <2>0, <2>2, RandomCount
  <2> HIDE DEF S, T
  <2>4. Cardinality(S \cup T) = Cardinality(S) + Cardinality(T) - Cardinality(S \cap T)
    BY <2>2, FS_Union
  <2>5. Cardinality(S \cap T) = 0 /\ Cardinality(S) \in Nat /\ Cardinality(T) \in Nat
    BY <2>2, FS_EmptySet, FS_CardinalityType
  <2>6. Len(am.vRandom) = am.nTried + am.nNew
    BY <2>1, <2>3, <2>4, <2>5
  <2> QED
    BY <2>1, <2>6 DEF CountersMatch, S, T
<1> QED
  BY <1>1, ManagerStaysConsistent, PTL

(* Through all swaps and deletions each entry is at its place in vRandom,   *)
(* and its host leads to it.                                                *)
THEOREM IndexesAlwaysMatch == Spec => []IndexesMatch
<1>1. Consistent(am) => IndexesMatch
  <2> SUFFICES ASSUME Consistent(am) PROVE IndexesMatch
    OBVIOUS
  <2>0. Typed(am) /\ Indexed(am)
    BY DEF Consistent
  <2>1. Cardinality(Ids(am)) = Len(am.vRandom)
    BY <2>0, RandomCount
  <2>2. DOMAIN am.vRandom = 1..Len(am.vRandom)
    BY <2>0 DEF Typed
  <2> QED
    BY <2>0, <2>1, <2>2 DEF Indexed, IndexesMatch
<1> QED
  BY <1>1, ManagerStaysConsistent, PTL

(* No bucket holds more than it may, also when an entry is evicted from a   *)
(* tried bucket and its own new bucket is full.                             *)
THEOREM BucketsAlwaysBounded == Spec => []BucketsBounded
<1>1. Consistent(am) => BucketsBounded
  BY DEF Consistent, NewBounded, TriedBounded, BucketsBounded
<1> QED
  BY <1>1, ManagerStaysConsistent, PTL

(* Reading back what was written gives the same tables, in every state.     *)
THEOREM AlwaysReadsWhatWasWritten == Spec => []ReadsWhatWasWritten
<1>1. Consistent(am) => ReadsWhatWasWritten
  BY RestartCopies DEF ReadsWhatWasWritten
<1> QED
  BY <1>1, ManagerStaysConsistent, PTL

(* As long as the process runs no step forgets a tried address, and one is  *)
(* forgotten only for another one, in a bucket that was full.               *)
THEOREM OnlyForgetsForOthers == Spec => ForgetsForOthers
<1> DEFINE Act == /\ TriedAddrs(am) \subseteq Known(am')
                  /\ Known(am) \subseteq Known(am')
                     \/ \E b \in NewBucket :
                          /\ Cardinality(am.vvNew[b]) = ADDRMAN_NEW_BUCKET_SIZE
                          /\ Cardinality(am.vvNew[b] \ am'.vvNew[b]) = 1
<1>1. ASSUME Consistent(am), [Next]_am, ~ Restart PROVE Act
  <2>1. Forgets(am', am)
    BY <1>1, NextKeeps
  <2>2. TriedAddrs(am) \subseteq Known(am')
    BY <2>1 DEF Forgets, TriedAddrs, TriedIds, Known
  <2>3. ASSUME NEW n \in Ids(am), am.mapInfo[n].addr \notin Known(am')
        PROVE  \E b \in NewBucket : /\ Cardinality(am.vvNew[b]) = ADDRMAN_NEW_BUCKET_SIZE
                                    /\ Cardinality(am.vvNew[b] \ am'.vvNew[b]) = 1
    <3>1. ~ (n \in Ids(am') /\ am'.mapInfo[n].addr = am.mapInfo[n].addr)
      BY <2>3 DEF Known
    <3>2. PICK b \in NewBucket : /\ Cardinality(am.vvNew[b]) = ADDRMAN_NEW_BUCKET_SIZE
                                 /\ am.vvNew[b] \ am'.vvNew[b] = {n}
      BY <2>1, <3>1 DEF Forgets
    <3>3. Cardinality({n}) = 1
      BY FS_Singleton
    <3> QED
      BY <3>2, <3>3
  <2>4. \/ Known(am) \subseteq Known(am')
        \/ \E n \in Ids(am) : am.mapInfo[n].addr \notin Known(am')
    BY DEF Known
  <2> QED
    BY <2>2, <2>3, <2>4
<1>2. Consistent(am) /\ [Next]_am => [~ Restart => Act]_am
  BY <1>1
<1> QED
  BY <1>2, ManagerStaysConsistent, PTL DEF Spec, ForgetsForOthers

====
