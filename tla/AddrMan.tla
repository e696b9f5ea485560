---- MODULE AddrMan ----
(***************************************************************************)
(* The address manager (CAddrMan) and peers.dat.  The manager is a record  *)
(*   mapInfo   nId -> what is known of an address                          *)
(*   mapAddr   host -> nId, or None                                        *)
(*   vRandom   all nIds, in a random order                                 *)
(*   nTried, vvTried   the tried addresses and their buckets (vectors)     *)
(*   nNew, vvNew       the new addresses and their buckets (sets)          *)
(* Times, attempts and services only decide which entry is chosen where    *)
(* the code draws one, and whether news of a known address is news: both   *)
(* are left open here.  Positions in vRandom start at 1.  A new nId is the *)
(* least number that is not in use, where the code counts on: the numbers  *)
(* only have to differ, and their order only decides in which order        *)
(* peers.dat lists the entries.  All operations hold cs.                   *)
(***************************************************************************)
EXTENDS Integers, FiniteSets, SequencesExt, TLC

CONSTANTS
  None,
  Addr,              \* addresses with their ports (CService)
  Source,            \* hosts that addresses are heard from
  Host,              \* the host (CNetAddr) of each address
  NewBucket,         \* numbers of the new buckets
  TriedBucket,       \* numbers of the tried buckets
  GetNewBucket,      \* bucket of each host, for each source
  GetTriedBucket,    \* bucket of each address
  ADDRMAN_NEW_BUCKET_SIZE,
  ADDRMAN_TRIED_BUCKET_SIZE,
  ADDRMAN_NEW_BUCKETS_PER_ADDRESS,
  ADDRMAN_GETADDR_MAX,
  ADDRMAN_GETADDR_MAX_PCT

Hosts == { Host[a] : a \in Addr }

ASSUME AddrManAssumption ==
  /\ None \notin Nat
  /\ NewBucket \subseteq Nat /\ IsFiniteSet(NewBucket)
  /\ GetNewBucket \in [Hosts -> [Source -> NewBucket]]
  /\ GetTriedBucket \in [Addr -> TriedBucket]
  /\ {ADDRMAN_NEW_BUCKET_SIZE, ADDRMAN_TRIED_BUCKET_SIZE,
      ADDRMAN_NEW_BUCKETS_PER_ADDRESS} \subseteq Nat \ {0}
  /\ {ADDRMAN_GETADDR_MAX, ADDRMAN_GETADDR_MAX_PCT} \subseteq Nat

VARIABLE am  \* addrman

Empty ==
  [mapInfo |-> <<>>, mapAddr |-> [h \in Hosts |-> None], vRandom |-> <<>>,
   nTried |-> 0, vvTried |-> [b \in TriedBucket |-> <<>>],
   nNew |-> 0, vvNew |-> [b \in NewBucket |-> {}]]

Init == am = Empty

Ids(m) == DOMAIN m.mapInfo
nIdCount(m) == CHOOSE n \in 0..Cardinality(Ids(m)) : n \notin Ids(m) /\ 0..(n - 1) \subseteq Ids(m)

Create(m, addr, source) ==
  LET nId == nIdCount(m)
      info == [addr |-> addr, source |-> source, nRefCount |-> 0, fInTried |-> FALSE,
               nRandomPos |-> Len(m.vRandom) + 1]
  IN  [m EXCEPT !.mapInfo = [n \in Ids(m) \cup {nId} |-> IF n = nId THEN info ELSE @[n]],
                !.mapAddr[Host[addr]] = nId,
                !.vRandom = Append(@, nId)]

(* The fault: the positions are not told to the entries. *)
SwapRandomFault(m, i, j) ==
  [m EXCEPT !.vRandom = [@ EXCEPT ![i] = m.vRandom[j], ![j] = m.vRandom[i]]]
SwapRandom(m, i, j) ==
  IF i = j
    THEN m
    ELSE [m EXCEPT !.vRandom = [@ EXCEPT ![i] = m.vRandom[j], ![j] = m.vRandom[i]],
                   !.mapInfo = [@ EXCEPT ![m.vRandom[i]].nRandomPos = j,
                                         ![m.vRandom[j]].nRandomPos = i]]

(* An entry is in no bucket any more. *)
Delete(m, nId) ==
  LET s == SwapRandom(m, m.mapInfo[nId].nRandomPos, Len(m.vRandom))
  IN  [s EXCEPT !.vRandom = Front(@),
                !.mapAddr[Host[m.mapInfo[nId].addr]] = None,
                !.mapInfo = [n \in Ids(m) \ {nId} |-> s.mapInfo[n]],
                !.nNew = @ - 1]

(* Entry nId leaves new bucket b. *)
Unreference(m, nId, b) ==
  LET s == [m EXCEPT !.mapInfo[nId].nRefCount = @ - 1, !.vvNew[b] = @ \ {nId}]
  IN  IF s.mapInfo[nId].nRefCount = 0 THEN Delete(s, nId) ELSE s

(* A terrible entry of the bucket goes, or else the oldest of four drawn:   *)
(* it can be any of them.                                                   *)
ShrinkNew(m, b) == { Unreference(m, nId, b) : nId \in m.vvNew[b] }

(* The end of Add_: the count is raised before the bucket is shrunk. *)
AddToBucket(m, nId, b) ==
  LET raised == [m EXCEPT !.mapInfo[nId].nRefCount = @ + 1]
      shrunk == IF Cardinality(m.vvNew[b]) = ADDRMAN_NEW_BUCKET_SIZE
                  THEN ShrinkNew(raised, b) ELSE {raised}
  IN  IF nId \in m.vvNew[b] THEN {m}
                            ELSE { [s EXCEPT !.vvNew[b] = @ \cup {nId}] : s \in shrunk }

(* Add_ of a routable address.  News of a known one may be ignored at       *)
(* random: then nothing changes.  The fault: the number of references is    *)
(* not limited.                                                             *)
TakesReferenceFault(info) == ~ info.fInTried
TakesReference(info) ==
  ~ info.fInTried /\ info.nRefCount # ADDRMAN_NEW_BUCKETS_PER_ADDRESS
Add(addr, source) ==
  LET nId == am.mapAddr[Host[addr]]
      created == [Create(am, addr, source) EXCEPT !.nNew = @ + 1]
      b == GetNewBucket[Host[addr]][source]
  IN  \/ /\ nId # None
         /\ TakesReference(am.mapInfo[nId])
         /\ am' \in AddToBucket(am, nId, b)
      \/ /\ nId = None
         /\ am' \in AddToBucket(created, nIdCount(am), b)

-----------------------------------------------------------------------------
(* MakeTried, first half: nId leaves the new buckets.  The fault: only the  *)
(* one where it was found.                                                  *)
LeaveNewFault(m, nId, nOrigin) ==
  [m EXCEPT !.vvNew[nOrigin] = @ \ {nId}, !.mapInfo[nId].nRefCount = 0, !.nNew = @ - 1]
LeaveNew(m, nId, nOrigin) ==
  [m EXCEPT !.vvNew = [b \in NewBucket |-> m.vvNew[b] \ {nId}],
            !.mapInfo[nId].nRefCount = @ - Cardinality({ b \in NewBucket : nId \in m.vvNew[b] }),
            !.nNew = @ - 1]

(* The new bucket for an entry that is evicted from the tried ones: its     *)
(* own, or the one nId came from ("there is certainly place there").  The   *)
(* fault: its own in any case.                                              *)
EvictionBucketFault(m, old, nOrigin) ==
  GetNewBucket[Host[m.mapInfo[old].addr]][m.mapInfo[old].source]
EvictionBucket(m, old, nOrigin) ==
  LET own == GetNewBucket[Host[m.mapInfo[old].addr]][m.mapInfo[old].source]
  IN  IF Cardinality(m.vvNew[own]) < ADDRMAN_NEW_BUCKET_SIZE THEN own ELSE nOrigin

(* The entry at nPos of a full tried bucket makes place for nId.  The       *)
(* faults: nNew is forgotten; the evicted entry is deleted when its own     *)
(* bucket is full.                                                          *)
EvictCountFault(m, nId, nKBucket, nPos, nOrigin) ==
  LET old == m.vvTried[nKBucket][nPos]
  IN  [m EXCEPT !.mapInfo = [@ EXCEPT ![old].fInTried = FALSE, ![old].nRefCount = 1,
                                      ![nId].fInTried = TRUE],
                !.vvNew[EvictionBucket(m, old, nOrigin)] = @ \cup {old},
                !.vvTried[nKBucket][nPos] = nId]
EvictDeleteFault(m, nId, nKBucket, nPos, nOrigin) ==
  LET old == m.vvTried[nKBucket][nPos]
      b == EvictionBucket(m, old, nOrigin)
      s == [m EXCEPT !.mapInfo = [@ EXCEPT ![old].fInTried = FALSE, ![old].nRefCount = 1,
                                           ![nId].fInTried = TRUE],
                     !.vvNew[b] = @ \cup {old},
                     !.nNew = @ + 1,
                     !.vvTried[nKBucket][nPos] = nId]
  IN  IF b = EvictionBucketFault(m, old, nOrigin) THEN s ELSE Unreference(s, old, b)
Evict(m, nId, nKBucket, nPos, nOrigin) ==
  LET old == m.vvTried[nKBucket][nPos]
  IN  [m EXCEPT !.mapInfo = [@ EXCEPT ![old].fInTried = FALSE, ![old].nRefCount = 1,
                                      ![nId].fInTried = TRUE],
                !.vvNew[EvictionBucket(m, old, nOrigin)] = @ \cup {old},
                !.nNew = @ + 1,
                !.vvTried[nKBucket][nPos] = nId]

(* SelectTried shuffles the bucket, where the order means nothing, and      *)
(* returns a position: any.  (It is the one the oldest entry was moved away *)
(* from.)                                                                   *)
MakeTried(m, nId, nOrigin) ==
  LET left == LeaveNew(m, nId, nOrigin)
      nKBucket == GetTriedBucket[m.mapInfo[nId].addr]
  IN  IF Len(m.vvTried[nKBucket]) < ADDRMAN_TRIED_BUCKET_SIZE
        THEN { [left EXCEPT !.vvTried[nKBucket] = Append(@, nId), !.nTried = @ + 1,
                            !.mapInfo[nId].fInTried = TRUE] }
        ELSE { Evict(left, nId, nKBucket, nPos, nOrigin) :
                 nPos \in 1..Len(m.vvTried[nKBucket]) }

(* Good_ for the exact address that is known, starting at a random bucket.  *)
Good(addr) ==
  LET nId == am.mapAddr[Host[addr]]
  IN  /\ nId # None
      /\ am.mapInfo[nId].addr = addr
      /\ ~ am.mapInfo[nId].fInTried
      /\ \E nUBucket \in NewBucket : /\ nId \in am.vvNew[nUBucket]
                                     /\ am' \in MakeTried(am, nId, nUBucket)

(* GetAddr_ shuffles the front of vRandom: a later entry, or itself, is put *)
(* at each place.                                                           *)
Drawn(S, n) == UNION { { SwapRandom(s, n, i) : i \in n..Len(s.vRandom) } : s \in S }
Shuffled(m, nNodes) ==
  LET sh[n \in 0..nNodes] == IF n = 0 THEN {m} ELSE Drawn(sh[n - 1], n)
  IN  sh[nNodes]
GetAddr ==
  LET share == (ADDRMAN_GETADDR_MAX_PCT * Len(am.vRandom)) \div 100
  IN  am' \in Shuffled(am, IF share > ADDRMAN_GETADDR_MAX THEN ADDRMAN_GETADDR_MAX ELSE share)

-----------------------------------------------------------------------------
(* What the serialiser writes: the new entries and the tried ones in the    *)
(* order of their nIds, and for each new bucket the indices of its entries  *)
(* in the first list.  (Both loops end when nNew or nTried entries are      *)
(* written; CountersMatch says that these are all.)  The fault: an index    *)
(* counts the tried entries too.                                            *)
Entries(m, S) ==
  [i \in 1..Cardinality(S) |->
     LET n == CHOOSE x \in S : Cardinality({ y \in S : y < x }) = i - 1
     IN  [addr |-> m.mapInfo[n].addr, source |-> m.mapInfo[n].source]]
NewIds(m) == { n \in Ids(m) : m.mapInfo[n].nRefCount # 0 }
TriedIds(m) == { n \in Ids(m) : m.mapInfo[n].fInTried }
mapUnkIdsFault(m, nId) == Cardinality({ n \in Ids(m) : n < nId })
mapUnkIds(m, nId) == Cardinality({ n \in NewIds(m) : n < nId })
Serialized(m) ==
  [new |-> Entries(m, NewIds(m)), tried |-> Entries(m, TriedIds(m)),
   vvNew |-> [b \in NewBucket |-> { mapUnkIds(m, nId) : nId \in m.vvNew[b] }]]

(* What reading it makes: a tried entry whose bucket is full is lost, and a *)
(* new one is put back into no more buckets than it may have.               *)
ReadTried(m, e) ==
  LET b == GetTriedBucket[e.addr]
      nId == nIdCount(m)
  IN  IF Len(m.vvTried[b]) < ADDRMAN_TRIED_BUCKET_SIZE
        THEN [Create(m, e.addr, e.source) EXCEPT !.mapInfo[nId].fInTried = TRUE,
                                                 !.vvTried[b] = Append(@, nId),
                                                 !.nTried = @ + 1]
        ELSE m
ReadNew(m, e) == [Create(m, e.addr, e.source) EXCEPT !.nNew = @ + 1]
AllNewRead(f) ==
  LET read[i \in 0..Len(f.new)] ==
        IF i = 0 THEN Empty ELSE ReadNew(read[i - 1], f.new[i])
  IN  read[Len(f.new)]
AllTriedRead(f) ==
  LET read[i \in 0..Len(f.tried)] ==
        IF i = 0 THEN AllNewRead(f) ELSE ReadTried(read[i - 1], f.tried[i])
  IN  read[Len(f.tried)]
Unserialized(f) ==
  LET tried == AllTriedRead(f)
      before(n, b) == Cardinality({ a \in NewBucket : a < b /\ n \in f.vvNew[a] })
      vvNew == [b \in NewBucket |->
                  { n \in f.vvNew[b] : before(n, b) < ADDRMAN_NEW_BUCKETS_PER_ADDRESS }]
  IN  [tried EXCEPT !.vvNew = vvNew,
                    !.mapInfo = [n \in Ids(tried) |->
                      [tried.mapInfo[n] EXCEPT !.nRefCount =
                        Cardinality({ b \in NewBucket : n \in vvNew[b] })]]]

(* The process ends, or crashes, and a new one reads peers.dat.  The file   *)
(* has the tables of the last DumpAddresses, which may be older: those of a *)
(* state this step was possible in as well.  It is never half written,      *)
(* because a new file takes the place of the old one.                       *)
Restart == am' = Unserialized(Serialized(am))

Next ==
  \/ \E addr \in Addr, source \in Source : Add(addr, source)
  \/ \E addr \in Addr : Good(addr)
  \/ GetAddr
  \/ Restart

Spec == Init /\ [][Next]_am

-----------------------------------------------------------------------------
(* Every variable has its type; in particular a reference count never       *)
(* passes ADDRMAN_NEW_BUCKETS_PER_ADDRESS.                                  *)
TypeOK ==
  /\ Ids(am) \subseteq Nat
  /\ \A n \in Ids(am) :
       am.mapInfo[n] \in [addr : Addr, source : Source, fInTried : BOOLEAN,
                          nRefCount : 0..ADDRMAN_NEW_BUCKETS_PER_ADDRESS,
                          nRandomPos : 1..Len(am.vRandom)]
  /\ am.mapAddr \in [Hosts -> Ids(am) \cup {None}]
  /\ am.vRandom \in Seq(Ids(am))
  /\ am.nTried \in Nat /\ am.nNew \in Nat
  /\ \A b \in TriedBucket : am.vvTried[b] \in Seq(Ids(am))
  /\ am.vvNew \in [NewBucket -> SUBSET Ids(am)]

(* Check_, which only debugging builds run, on the buckets: a new entry is  *)
(* in as many new buckets as it counts, at least one, and in no tried one;  *)
(* a tried entry is in one tried bucket, once, the one it hashes to, and in *)
(* no new one.                                                              *)
Places(n) ==
  { p \in TriedBucket \X (1..ADDRMAN_TRIED_BUCKET_SIZE) :
      p[2] =< Len(am.vvTried[p[1]]) /\ am.vvTried[p[1]][p[2]] = n }
RefCountsMatch ==
  \A n \in Ids(am) :
    LET info == am.mapInfo[n]
        refs == Cardinality({ b \in NewBucket : n \in am.vvNew[b] })
    IN  /\ info.nRefCount = refs
        /\ info.fInTried <=> refs = 0
        /\ Cardinality(Places(n)) = IF info.fInTried THEN 1 ELSE 0
        /\ \A p \in Places(n) : p[1] = GetTriedBucket[info.addr]

(* Check_ on the counters, which steer Select_: it looks for an entry until *)
(* it meets one, holding the lock, so a counter above zero with all buckets *)
(* empty would keep it there for ever.                                      *)
CountersMatch ==
  /\ am.nTried = Cardinality(TriedIds(am))
  /\ am.nNew = Cardinality(NewIds(am))
  /\ Len(am.vRandom) = am.nTried + am.nNew

(* Check_ on the two other indexes, through all swaps and deletions: each   *)
(* entry is at its place in vRandom, and its host leads to it.              *)
IndexesMatch ==
  /\ \A n \in Ids(am) : /\ am.mapAddr[Host[am.mapInfo[n].addr]] = n
                        /\ am.mapInfo[n].nRandomPos \in DOMAIN am.vRandom
                        /\ am.vRandom[am.mapInfo[n].nRandomPos] = n
  /\ Cardinality(Ids(am)) = Len(am.vRandom)
  /\ \A h \in Hosts : am.mapAddr[h] # None => Host[am.mapInfo[am.mapAddr[h]].addr] = h

(* No bucket holds more than it may: MakeTried moves an evicted entry where *)
(* "there is certainly place".                                              *)
BucketsBounded ==
  /\ \A b \in NewBucket : Cardinality(am.vvNew[b]) =< ADDRMAN_NEW_BUCKET_SIZE
  /\ \A b \in TriedBucket : Len(am.vvTried[b]) =< ADDRMAN_TRIED_BUCKET_SIZE

(* "They are never deleted while in the tried table, only possibly evicted  *)
(* back to the new table": as long as the process runs, a step keeps every  *)
(* tried address, and forgets an address only to put another one into a     *)
(* bucket that was full.                                                    *)
Known(m) == { m.mapInfo[n].addr : n \in Ids(m) }
TriedAddrs(m) == { m.mapInfo[n].addr : n \in TriedIds(m) }
ForgetsForOthers ==
  [][~ Restart
       => /\ TriedAddrs(am) \subseteq Known(am')
          /\ Known(am) \subseteq Known(am')
             \/ \E b \in NewBucket :
                  /\ Cardinality(am.vvNew[b]) = ADDRMAN_NEW_BUCKET_SIZE
                  /\ Cardinality(am.vvNew[b] \ am'.vvNew[b]) = 1]_am

(* Reading back what was written, with other numbers and another order,     *)
(* gives the same tables: each new address has its source, its buckets and  *)
(* its references, each tried one its source and its bucket.                *)
Tables(m) ==
  [tried |-> [b \in TriedBucket |-> { <<m.mapInfo[n].addr, m.mapInfo[n].source>>
                                        : n \in Range(m.vvTried[b]) }],
   new |-> [b \in NewBucket |-> { <<m.mapInfo[n].addr, m.mapInfo[n].source, m.mapInfo[n].nRefCount>>
                                    : n \in m.vvNew[b] }],
   counts |-> <<m.nTried, m.nNew>>]
ReadsWhatWasWritten == Tables(Unserialized(Serialized(am))) = Tables(am)

====
