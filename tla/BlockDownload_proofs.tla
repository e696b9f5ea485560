------------------------ MODULE BlockDownload_proofs ------------------------
(***************************************************************************)
(* The bookkeeping of block downloads, for every set of peers and blocks   *)
(* and every limit.                                                        *)
(***************************************************************************)
EXTENDS BlockDownload, SequenceTheorems, TLAPS

-----------------------------------------------------------------------------
(* Lists without duplicates. *)

(* A sequence without its i-th element. *)
LEMMA RemoveAtFacts ==
  ASSUME NEW S, NEW v \in Seq(S), NEW i \in 1..Len(v)
  PROVE  /\ RemoveAt(v, i) \in Seq(S)
         /\ Len(RemoveAt(v, i)) = Len(v) - 1
         /\ \A j \in 1..(Len(v) - 1) :
              RemoveAt(v, i)[j] = IF j < i THEN v[j] ELSE v[j + 1]
<1> DEFINE u == SubSeq(v, 1, i - 1)
           w == SubSeq(v, i + 1, Len(v))
<1>1. /\ u \in Seq(S) /\ Len(u) = i - 1
      /\ \A j \in 1..(i - 1) : u[j] = v[j]
  OBVIOUS
<1>2. /\ w \in Seq(S) /\ Len(w) = Len(v) - i
      /\ \A j \in 1..(Len(v) - i) : w[j] = v[j + i]
  OBVIOUS
<1>3. RemoveAt(v, i) = u \o w
  BY DEF RemoveAt
<1> HIDE DEF u, w
<1>4. /\ u \o w \in Seq(S) /\ Len(u \o w) = Len(u) + Len(w)
      /\ \A j \in 1..(Len(u) + Len(w)) :
           (u \o w)[j] = IF j =< Len(u) THEN u[j] ELSE w[j - Len(u)]
  BY <1>1, <1>2, ConcatProperties
<1> QED
  BY <1>1, <1>2, <1>3, <1>4

(* What it is for a list to have exactly the elements of B. *)
LEMMA ListsFacts ==
  ASSUME NEW S, NEW v \in Seq(S), NEW B
  PROVE  Lists(v, B) <=> /\ \A i, j \in 1..Len(v) : v[i] = v[j] => i = j
                         /\ \A i \in 1..Len(v) : v[i] \in B
                         /\ \A b \in B : \E i \in 1..Len(v) : v[i] = b
BY DEF Lists, IsInjective, Range

(* An element joins the list at its end. *)
LEMMA AppendLists ==
  ASSUME NEW S, NEW v \in Seq(S), NEW B, Lists(v, B), NEW b \in S, b \notin B
  PROVE  Lists(Append(v, b), B \cup {b})
<1>1. /\ Append(v, b) \in Seq(S) /\ Len(Append(v, b)) = Len(v) + 1
      /\ \A i \in 1..(Len(v) + 1) : Append(v, b)[i] = IF i = Len(v) + 1 THEN b ELSE v[i]
  OBVIOUS
<1>2. /\ \A i, j \in 1..Len(v) : v[i] = v[j] => i = j
      /\ \A i \in 1..Len(v) : v[i] \in B
      /\ \A c \in B : \E i \in 1..Len(v) : v[i] = c
  BY ListsFacts
<1> DEFINE w == Append(v, b)
<1> HIDE DEF w
<1>3. \A c \in B \cup {b} : \E i \in 1..Len(w) : w[i] = c
  BY <1>1, <1>2 DEF w
<1>4. \A i \in 1..Len(w) : w[i] \in B \cup {b}
  BY <1>1, <1>2 DEF w
<1>5. \A i, j \in 1..Len(w) : w[i] = w[j] => i = j
  BY <1>1, <1>2 DEF w
<1> QED
  BY <1>1, <1>3, <1>4, <1>5, ListsFacts DEF w

(* list::erase at the position of b: b leaves, the others stay. *)
LEMMA EraseLists ==
  ASSUME NEW S, NEW v \in Seq(S), NEW B, Lists(v, B), NEW b \in B
  PROVE  /\ Position(v, b) \in 1..Len(v)
         /\ Lists(RemoveAt(v, Position(v, b)), B \ {b})
<1> DEFINE p == Position(v, b)
           w == RemoveAt(v, p)
<1>1. /\ \A i, j \in 1..Len(v) : v[i] = v[j] => i = j
      /\ \A i \in 1..Len(v) : v[i] \in B
      /\ \A c \in B : \E i \in 1..Len(v) : v[i] = c
  BY ListsFacts
<1>2. p \in 1..Len(v) /\ v[p] = b
  BY <1>1 DEF Position
<1>3. /\ w \in Seq(S) /\ Len(w) = Len(v) - 1
      /\ \A j \in 1..(Len(v) - 1) : w[j] = IF j < p THEN v[j] ELSE v[j + 1]
  BY <1>2, RemoveAtFacts
<1> HIDE DEF p, w
<1>4. ASSUME NEW i \in 1..Len(w), NEW j \in 1..Len(w), w[i] = w[j] PROVE i = j
  <2> DEFINE f(k) == IF k < p THEN k ELSE k + 1
  <2>1. \A k \in 1..Len(w) : f(k) \in 1..Len(v) /\ w[k] = v[f(k)]
    BY <1>2, <1>3
  <2>2. f(i) = f(j)
    <3> HIDE DEF f
    <3>1. f(i) \in 1..Len(v) /\ f(j) \in 1..Len(v) /\ v[f(i)] = v[f(j)]
      BY <1>4, <2>1
    <3> QED
      BY <1>1, <3>1
  <2> QED
    BY <1>2, <2>2
<1>5. \A i \in 1..Len(w) : w[i] \in B \ {b}
  BY <1>1, <1>2, <1>3
<1>6. ASSUME NEW c \in B \ {b} PROVE \E i \in 1..Len(w) : w[i] = c
  <2>1. PICK i \in 1..Len(v) : v[i] = c
    BY <1>1
  <2>2. i # p
    BY <1>2, <2>1
  <2>3. CASE i < p
    BY <1>2, <1>3, <2>1, <2>3
  <2>4. CASE i > p
    <3>1. i - 1 \in 1..Len(w) /\ ~ (i - 1 < p) /\ (i - 1) + 1 = i
      BY <1>2, <1>3, <2>1, <2>4
    <3> QED
      BY <1>3, <2>1, <3>1
  <2> QED
    BY <1>2, <2>1, <2>2, <2>3, <2>4
<1>7. Lists(w, B \ {b})
  BY <1>3, <1>4, <1>5, <1>6, ListsFacts
<1> QED
  BY <1>2, <1>7 DEF p, w

(* The hashes of a list of requests. *)
Request == [hash : Block, nTime : Age]
LEMMA HashesFacts ==
  ASSUME NEW v \in Seq(Request)
  PROVE  /\ Hashes(v) \in Seq(Block) /\ Len(Hashes(v)) = Len(v)
         /\ \A i \in 1..Len(v) : Hashes(v)[i] = v[i].hash
         /\ \A e \in Request : Hashes(Append(v, e)) = Append(Hashes(v), e.hash)
         /\ \A i \in 1..Len(v) : Hashes(RemoveAt(v, i)) = RemoveAt(Hashes(v), i)
<1>1. /\ Hashes(v) \in Seq(Block) /\ Len(Hashes(v)) = Len(v)
      /\ \A i \in 1..Len(v) : Hashes(v)[i] = v[i].hash
  <2>1. DOMAIN v = 1..Len(v) /\ Len(v) \in Nat
    OBVIOUS
  <2>2. ASSUME NEW i \in 1..Len(v) PROVE v[i].hash \in Block
    <3>1. v[i] \in Request
      OBVIOUS
    <3> QED
      BY <3>1 DEF Request
  <2>3. Hashes(v) \in [1..Len(v) -> Block]
    BY <2>1, <2>2 DEF Hashes
  <2>4. Hashes(v) \in Seq(Block) /\ Len(Hashes(v)) = Len(v)
    BY <2>1, <2>3
  <2> QED
    BY <2>1, <2>4 DEF Hashes
<1>2. ASSUME NEW e \in Request PROVE Hashes(Append(v, e)) = Append(Hashes(v), e.hash)
  <2> DEFINE l == Hashes(Append(v, e))
             r == Append(Hashes(v), e.hash)
  <2>1. /\ Append(v, e) \in Seq(Request) /\ Len(Append(v, e)) = Len(v) + 1
        /\ \A j \in 1..(Len(v) + 1) : Append(v, e)[j] = IF j = Len(v) + 1 THEN e ELSE v[j]
    OBVIOUS
  <2>2. l = [j \in 1..(Len(v) + 1) |-> Append(v, e)[j].hash]
    BY <2>1 DEF Hashes
  <2>3. e.hash \in Block
    BY DEF Request
  <2>4. /\ r \in Seq(Block) /\ Len(r) = Len(v) + 1
        /\ \A j \in 1..(Len(v) + 1) : r[j] = IF j = Len(v) + 1 THEN e.hash ELSE Hashes(v)[j]
    BY <1>1, <2>3
  <2>5. r = [j \in 1..(Len(v) + 1) |-> r[j]]
    BY <2>4
  <2> HIDE DEF l, r
  <2>6. \A j \in 1..(Len(v) + 1) : Append(v, e)[j].hash = r[j]
    BY <1>1, <2>1, <2>4
  <2> QED
    BY <2>2, <2>5, <2>6 DEF l, r
<1>3. ASSUME NEW i \in 1..Len(v) PROVE Hashes(RemoveAt(v, i)) = RemoveAt(Hashes(v), i)
  <2> DEFINE l == Hashes(RemoveAt(v, i))
             r == RemoveAt(Hashes(v), i)
  <2>1. /\ RemoveAt(v, i) \in Seq(Request) /\ Len(RemoveAt(v, i)) = Len(v) - 1
        /\ \A j \in 1..(Len(v) - 1) : RemoveAt(v, i)[j] = IF j < i THEN v[j] ELSE v[j + 1]
    BY RemoveAtFacts
  <2>2. /\ r \in Seq(Block) /\ Len(r) = Len(v) - 1
        /\ \A j \in 1..(Len(v) - 1) :
             r[j] = IF j < i THEN Hashes(v)[j] ELSE Hashes(v)[j + 1]
    BY <1>1, RemoveAtFacts
  <2>3. l = [j \in 1..(Len(v) - 1) |-> RemoveAt(v, i)[j].hash]
    BY <2>1 DEF Hashes
  <2>4. r = [j \in 1..(Len(v) - 1) |-> r[j]]
    BY <2>2
  <2> HIDE DEF l, r
  <2>5. \A j \in 1..(Len(v) - 1) : RemoveAt(v, i)[j].hash = r[j]
    BY <1>1, <2>1, <2>2
  <2> QED
    BY <2>3, <2>4, <2>5 DEF l, r
<1> QED
  BY <1>1, <1>2, <1>3

-----------------------------------------------------------------------------
(* The operations on the states of the peers.  Counters and lists of the    *)
(* states ns say what two given maps say.                                   *)
Queued(toDownload, n) == { b \in Block : toDownload[b] = n }
Agree(s, n, toDownload, inFlight) ==
  /\ s.nBlocksToDownload = Len(s.vBlocksToDownload)
  /\ s.nBlocksInFlight = Len(s.vBlocksInFlight)
  /\ Lists(s.vBlocksToDownload, Queued(toDownload, n))
  /\ Lists(Hashes(s.vBlocksInFlight), Queued(inFlight, n))
AllAgree(ns, toDownload, inFlight) ==
  /\ ns \in [NodeId -> CNodeState]
  /\ \A n \in NodeId : Agree(ns[n], n, toDownload, inFlight)
Map == [Block -> NodeId \cup {None}]

(* Only the lists and their counters matter. *)
LEMMA SameLists ==
  ASSUME NEW ns, NEW ms \in [NodeId -> CNodeState], NEW toDownload, NEW inFlight,
         AllAgree(ns, toDownload, inFlight),
         \A n \in NodeId :
           /\ ms[n].vBlocksToDownload = ns[n].vBlocksToDownload
           /\ ms[n].nBlocksToDownload = ns[n].nBlocksToDownload
           /\ ms[n].nBlocksInFlight = ns[n].nBlocksInFlight
           /\ Hashes(ms[n].vBlocksInFlight) = Hashes(ns[n].vBlocksInFlight)
           /\ Len(ms[n].vBlocksInFlight) = Len(ns[n].vBlocksInFlight)
  PROVE  AllAgree(ms, toDownload, inFlight)
BY DEF AllAgree, Agree

(* The first half of MarkBlockAsReceived. *)
LEMMA UnqueuedAgree ==
  ASSUME NEW ns, NEW b \in Block, NEW inFlight, mapBlocksToDownload \in Map,
         AllAgree(ns, mapBlocksToDownload, inFlight)
  PROVE  AllAgree(Unqueued(ns, b), [mapBlocksToDownload EXCEPT ![b] = None], inFlight)
<1> DEFINE n == mapBlocksToDownload[b]
           m2 == [mapBlocksToDownload EXCEPT ![b] = None]
           us == Unqueued(ns, b)
<1>1. n \in NodeId \cup {None} /\ ns \in [NodeId -> CNodeState]
  BY DEF Map, AllAgree
<1>2. CASE n = None
  <2>1. m2 = mapBlocksToDownload /\ us = ns
    BY <1>2 DEF Map, Unqueued
  <2> QED
    BY <2>1
<1>3. CASE n # None
  <2> DEFINE v == ns[n].vBlocksToDownload
             w == RemoveAt(v, Position(v, b))
  <2>0. n \in NodeId /\ ns[n] \in CNodeState
    BY <1>1, <1>3
  <2>1. v \in Seq(Block) /\ Lists(v, Queued(mapBlocksToDownload, n)) /\ Len(v) \in Nat
    BY <2>0 DEF AllAgree, Agree, CNodeState
  <2>2. b \in Queued(mapBlocksToDownload, n)
    BY DEF Queued
  <2>3. /\ Position(v, b) \in 1..Len(v)
        /\ Lists(w, Queued(mapBlocksToDownload, n) \ {b})
    BY <2>1, <2>2, EraseLists
  <2>4. w \in Seq(Block) /\ Len(w) = Len(v) - 1 /\ Len(v) > 0
    BY <2>1, <2>3, RemoveAtFacts
  <2>5. us = [ns EXCEPT ![n].vBlocksToDownload = w, ![n].nBlocksToDownload = @ - 1]
    BY <1>3 DEF Unqueued
  <2>6. ns[n].nBlocksToDownload - 1 = Len(w) /\ Len(w) \in Nat
    BY <2>0, <2>1, <2>4 DEF AllAgree, Agree
  <2> HIDE DEF v, w, us, n
  <2>7. us \in [NodeId -> CNodeState]
    BY <1>1, <2>0, <2>4, <2>5, <2>6 DEF CNodeState
  <2>8. /\ us[n].vBlocksToDownload = w /\ us[n].nBlocksToDownload = Len(w)
        /\ us[n].vBlocksInFlight = ns[n].vBlocksInFlight
        /\ us[n].nBlocksInFlight = ns[n].nBlocksInFlight
        /\ \A k \in NodeId : k # n => us[k] = ns[k]
    BY <1>1, <2>0, <2>5, <2>6 DEF CNodeState
  <2>9. /\ Queued(m2, n) = Queued(mapBlocksToDownload, n) \ {b}
        /\ \A k \in NodeId : k # n => Queued(m2, k) = Queued(mapBlocksToDownload, k)
    BY <2>0, DownloadAssumption DEF Queued, Map, n
  <2> HIDE DEF m2
  <2> SUFFICES ASSUME NEW k \in NodeId PROVE Agree(us[k], k, m2, inFlight)
    BY <2>7 DEF AllAgree, us, m2
  <2>10. Agree(ns[k], k, mapBlocksToDownload, inFlight)
    BY DEF AllAgree
  <2>11. CASE k = n
    BY <2>3, <2>8, <2>9, <2>10, <2>11 DEF Agree
  <2>12. CASE k # n
    BY <2>8, <2>9, <2>10, <2>12 DEF Agree
  <2> QED
    BY <2>11, <2>12
<1> QED
  BY <1>2, <1>3

(* The second half. *)
LEMMA ArrivedAgree ==
  ASSUME NEW ns, NEW b \in Block, NEW toDownload, mapBlocksInFlight \in Map, NEW from,
         AllAgree(ns, toDownload, mapBlocksInFlight)
  PROVE  AllAgree(Arrived(ns, b, from), toDownload, [mapBlocksInFlight EXCEPT ![b] = None])
<1> DEFINE n == mapBlocksInFlight[b]
           m2 == [mapBlocksInFlight EXCEPT ![b] = None]
           us == Arrived(ns, b, from)
<1>1. n \in NodeId \cup {None} /\ ns \in [NodeId -> CNodeState]
  BY DEF Map, AllAgree
<1>2. CASE n = None
  <2>1. m2 = mapBlocksInFlight /\ us = ns
    BY <1>2 DEF Map, Arrived
  <2> QED
    BY <2>1
<1>3. CASE n # None
  <2> DEFINE v == ns[n].vBlocksInFlight
             p == Position(Hashes(v), b)
             w == RemoveAt(v, p)
             a == IF n = from THEN "young" ELSE ns[n].nLastBlockReceive
  <2>0. n \in NodeId /\ ns[n] \in CNodeState
    BY <1>1, <1>3
  <2>1. /\ v \in Seq(Request) /\ Len(v) \in Nat
        /\ Lists(Hashes(v), Queued(mapBlocksInFlight, n))
    BY <2>0 DEF AllAgree, Agree, CNodeState, Request
  <2>2. b \in Queued(mapBlocksInFlight, n)
    BY DEF Queued
  <2>h. Hashes(v) \in Seq(Block) /\ Len(Hashes(v)) = Len(v)
    BY <2>1, HashesFacts
  <2>3. /\ p \in 1..Len(v)
        /\ Lists(RemoveAt(Hashes(v), p), Queued(mapBlocksInFlight, n) \ {b})
    BY <2>1, <2>2, <2>h, EraseLists
  <2>4. /\ w \in Seq(Request) /\ Len(w) = Len(v) - 1 /\ Len(v) > 0
        /\ Hashes(w) = RemoveAt(Hashes(v), p)
    <3> HIDE DEF v, p
    <3>1. /\ RemoveAt(v, p) \in Seq(Request) /\ Len(RemoveAt(v, p)) = Len(v) - 1
          /\ Len(v) > 0
      BY <2>1, <2>3, RemoveAtFacts
    <3>2. Hashes(RemoveAt(v, p)) = RemoveAt(Hashes(v), p)
      BY <2>1, <2>3, HashesFacts
    <3> QED
      BY <3>1, <3>2
  <2>5. us = [ns EXCEPT ![n].vBlocksInFlight = w, ![n].nBlocksInFlight = @ - 1,
                        ![n].nLastBlockReceive = IF n = from THEN "young" ELSE @]
    BY <1>3 DEF Arrived
  <2>6. /\ ns[n].nBlocksInFlight - 1 = Len(w) /\ Len(w) \in Nat
        /\ a \in Age
    BY <2>0, <2>1, <2>4 DEF AllAgree, Agree, CNodeState, Age
  <2> HIDE DEF v, w, us, n, p
  <2>7. us \in [NodeId -> CNodeState]
    BY <1>1, <2>0, <2>4, <2>5, <2>6 DEF CNodeState, Request
  <2>8. /\ us[n].vBlocksInFlight = w /\ us[n].nBlocksInFlight = Len(w)
        /\ us[n].vBlocksToDownload = ns[n].vBlocksToDownload
        /\ us[n].nBlocksToDownload = ns[n].nBlocksToDownload
        /\ \A k \in NodeId : k # n => us[k] = ns[k]
    BY <1>1, <2>0, <2>5, <2>6 DEF CNodeState
  <2>9. /\ Queued(m2, n) = Queued(mapBlocksInFlight, n) \ {b}
        /\ \A k \in NodeId : k # n => Queued(m2, k) = Queued(mapBlocksInFlight, k)
    BY <2>0, DownloadAssumption DEF Queued, Map, n
  <2> HIDE DEF m2
  <2> SUFFICES ASSUME NEW k \in NodeId PROVE Agree(us[k], k, toDownload, m2)
    BY <2>7 DEF AllAgree, us, m2
  <2>10. Agree(ns[k], k, toDownload, mapBlocksInFlight)
    BY DEF AllAgree
  <2>11. CASE k = n
    BY <2>3, <2>4, <2>8, <2>9, <2>10, <2>11 DEF Agree
  <2>12. CASE k # n
    BY <2>8, <2>9, <2>10, <2>12 DEF Agree
  <2> QED
    BY <2>11, <2>12
<1> QED
  BY <1>2, <1>3

(* MarkBlockAsReceived: the block leaves both maps, and the lists. *)
LEMMA ReceivedAgree ==
  ASSUME NEW ns, NEW b \in Block, NEW from, mapBlocksToDownload \in Map,
         mapBlocksInFlight \in Map, AllAgree(ns, mapBlocksToDownload, mapBlocksInFlight)
  PROVE  AllAgree(MarkBlockAsReceived(ns, b, from),
                  [mapBlocksToDownload EXCEPT ![b] = None],
                  [mapBlocksInFlight EXCEPT ![b] = None])
BY UnqueuedAgree, ArrivedAgree DEF MarkBlockAsReceived

(* Misbehaving leaves the lists alone. *)
LEMMA MisbehavingAgree ==
  ASSUME NEW ns, NEW n \in NodeId, NEW howmuch \in Nat, NEW toDownload, NEW inFlight,
         AllAgree(ns, toDownload, inFlight)
  PROVE  AllAgree(Misbehaving(ns, n, howmuch), toDownload, inFlight)
<1> DEFINE ms == Misbehaving(ns, n, howmuch)
<1>1. ns \in [NodeId -> CNodeState] /\ BanScore \in Nat
  BY DownloadAssumption DEF AllAgree
<1>2. /\ ms \in [NodeId -> CNodeState]
      /\ \A k \in NodeId : /\ ms[k].vBlocksToDownload = ns[k].vBlocksToDownload
                           /\ ms[k].nBlocksToDownload = ns[k].nBlocksToDownload
                           /\ ms[k].nBlocksInFlight = ns[k].nBlocksInFlight
                           /\ ms[k].vBlocksInFlight = ns[k].vBlocksInFlight
  <2> DEFINE score == ns[n].nMisbehavior + howmuch
             m == IF score < BanScore THEN score ELSE BanScore
             f == ns[n].fShouldBan \/ score >= BanScore
  <2>1. ns[n].nMisbehavior \in Nat /\ ns[n].fShouldBan \in BOOLEAN
    BY <1>1 DEF CNodeState
  <2>2. m \in Nat /\ f \in BOOLEAN
    BY <1>1, <2>1
  <2>3. CASE howmuch = 0
    BY <1>1, <2>3 DEF Misbehaving
  <2>4. CASE howmuch # 0
    <3>1. ms = [ns EXCEPT ![n].nMisbehavior = m, ![n].fShouldBan = f]
      BY <1>1, <2>4 DEF Misbehaving
    <3> HIDE DEF m, f, ms
    <3> QED
      BY <1>1, <2>2, <3>1 DEF CNodeState
  <2> QED
    BY <2>3, <2>4
<1> HIDE DEF ms
<1> QED
  BY <1>2, SameLists DEF ms

(* So does the start of ProcessMessage: requests only age. *)
LEMMA ProcessingAgree ==
  ASSUME NEW n \in NodeId, NEW toDownload, NEW inFlight,
         AllAgree(mapNodeState, toDownload, inFlight)
  PROVE  AllAgree(Processing(n), toDownload, inFlight)
<1> DEFINE v == mapNodeState[n].vBlocksInFlight
           w == [i \in DOMAIN v |-> [hash |-> v[i].hash, nTime |-> Seen(v[i].nTime)]]
           ms == Processing(n)
<1>1. mapNodeState \in [NodeId -> CNodeState]
  BY DEF AllAgree
<1>2. v \in Seq(Request) /\ DOMAIN v = 1..Len(v) /\ Len(v) \in Nat
  <2>1. v \in Seq(Request)
    BY <1>1 DEF CNodeState, Request
  <2> HIDE DEF v
  <2> QED
    BY <2>1
<1>3. \A i \in 1..Len(v) : [hash |-> v[i].hash, nTime |-> Seen(v[i].nTime)] \in Request
  <2> SUFFICES ASSUME NEW i \in 1..Len(v)
               PROVE  [hash |-> v[i].hash, nTime |-> Seen(v[i].nTime)] \in Request
    OBVIOUS
  <2>1. v[i] \in Request
    BY <1>2
  <2> QED
    BY <2>1 DEF Request, Seen, Age
<1> HIDE DEF v
<1>4. w \in Seq(Request) /\ Len(w) = Len(v) /\ DOMAIN w = DOMAIN v
  <2>1. w \in [1..Len(v) -> Request]
    BY <1>2, <1>3
  <2> QED
    BY <1>2, <2>1
<1>5. Hashes(w) = Hashes(v)
  BY <1>4 DEF Hashes
<1>6. ms = [mapNodeState EXCEPT ![n].silent = FALSE,
                                ![n].nLastBlockReceive = Seen(@),
                                ![n].vBlocksInFlight = w]
  BY <1>1 DEF Processing, v
<1> HIDE DEF w, ms
<1>7. Seen(mapNodeState[n].nLastBlockReceive) \in Age
  BY <1>1 DEF CNodeState, Seen, Age
<1>8. ms \in [NodeId -> CNodeState]
  BY <1>1, <1>4, <1>6, <1>7 DEF CNodeState, Request
<1>9. \A k \in NodeId : /\ ms[k].vBlocksToDownload = mapNodeState[k].vBlocksToDownload
                        /\ ms[k].nBlocksToDownload = mapNodeState[k].nBlocksToDownload
                        /\ ms[k].nBlocksInFlight = mapNodeState[k].nBlocksInFlight
                        /\ k # n => ms[k].vBlocksInFlight = mapNodeState[k].vBlocksInFlight
  BY <1>1, <1>6 DEF CNodeState
<1>10. ms[n].vBlocksInFlight = w
  BY <1>1, <1>6 DEF CNodeState
<1> QED
  BY <1>4, <1>5, <1>8, <1>9, <1>10, SameLists DEF ms, v

(* AddBlockToQueue. *)
LEMMA AddAgree ==
  ASSUME NEW ns, NEW n \in NodeId, NEW b \in Block, NEW toDownload \in Map, NEW inFlight,
         AllAgree(ns, toDownload, inFlight), toDownload[b] = None
  PROVE  AllAgree(AddBlockToQueue(ns, n, b), [toDownload EXCEPT ![b] = n], inFlight)
<1> DEFINE v == ns[n].vBlocksToDownload
           m2 == [toDownload EXCEPT ![b] = n]
           added == [ns EXCEPT ![n].vBlocksToDownload = Append(@, b),
                               ![n].nBlocksToDownload = @ + 1]
<1>1. ns \in [NodeId -> CNodeState] /\ ns[n] \in CNodeState
  BY DEF AllAgree
<1>2. /\ v \in Seq(Block) /\ Lists(v, Queued(toDownload, n)) /\ Len(v) \in Nat
      /\ ns[n].nBlocksToDownload = Len(v)
  BY <1>1 DEF AllAgree, Agree, CNodeState
<1>3. b \notin Queued(toDownload, n)
  BY DownloadAssumption DEF Queued
<1>4. /\ Lists(Append(v, b), Queued(toDownload, n) \cup {b})
      /\ Append(v, b) \in Seq(Block) /\ Len(Append(v, b)) = Len(v) + 1
  BY <1>2, <1>3, AppendLists
<1>5. added \in [NodeId -> CNodeState]
  <2> DEFINE w == Append(v, b)
             c == Len(v) + 1
  <2>1. added = [ns EXCEPT ![n].vBlocksToDownload = w, ![n].nBlocksToDownload = c]
    BY <1>1, <1>2
  <2>2. w \in Seq(Block) /\ c \in Nat
    BY <1>2, <1>4
  <2> HIDE DEF w, c, added, v
  <2> QED
    BY <1>1, <2>1, <2>2 DEF CNodeState
<1>6. /\ added[n].vBlocksToDownload = Append(v, b) /\ added[n].nBlocksToDownload = Len(v) + 1
      /\ added[n].vBlocksInFlight = ns[n].vBlocksInFlight
      /\ added[n].nBlocksInFlight = ns[n].nBlocksInFlight
      /\ \A k \in NodeId : k # n => added[k] = ns[k]
  BY <1>1, <1>2 DEF CNodeState
<1>7. /\ Queued(m2, n) = Queued(toDownload, n) \cup {b}
      /\ \A k \in NodeId : k # n => Queued(m2, k) = Queued(toDownload, k)
  BY DownloadAssumption DEF Queued, Map
<1>8. AllAgree(added, m2, inFlight)
  <2> HIDE DEF added, m2, v
  <2> SUFFICES ASSUME NEW k \in NodeId PROVE Agree(added[k], k, m2, inFlight)
    BY <1>5 DEF AllAgree
  <2>1. Agree(ns[k], k, toDownload, inFlight)
    BY DEF AllAgree
  <2>2. CASE k = n
    BY <1>4, <1>6, <1>7, <2>1, <2>2 DEF Agree
  <2>3. CASE k # n
    BY <1>6, <1>7, <2>1, <2>3 DEF Agree
  <2> QED
    BY <2>2, <2>3
<1>9. AddBlockToQueue(ns, n, b) =
        IF added[n].nBlocksToDownload > MaxToDownload THEN Misbehaving(added, n, 1) ELSE added
  BY DEF AddBlockToQueue
<1> HIDE DEF added, m2
<1>10. AllAgree(Misbehaving(added, n, 1), m2, inFlight)
  BY <1>8, MisbehavingAgree
<1> QED
  BY <1>8, <1>9, <1>10 DEF m2

(* MarkBlockAsInFlight: the block leaves the queue, and is requested. *)
LEMMA InFlightAgree ==
  ASSUME NEW n \in NodeId, NEW b \in Block, mapBlocksToDownload \in Map,
         mapBlocksInFlight \in Map,
         AllAgree(mapNodeState, mapBlocksToDownload, mapBlocksInFlight)
  PROVE  AllAgree(MarkBlockAsInFlight(n, b),
                  [mapBlocksToDownload EXCEPT ![b] = None],
                  [mapBlocksInFlight EXCEPT ![b] = n])
<1> DEFINE ns == MarkBlockAsReceived(mapNodeState, b, None)
           m1 == [mapBlocksToDownload EXCEPT ![b] = None]
           m2 == [mapBlocksInFlight EXCEPT ![b] = None]
           m3 == [mapBlocksInFlight EXCEPT ![b] = n]
           e == [hash |-> b, nTime |-> "young"]
           v == ns[n].vBlocksInFlight
           us == MarkBlockAsInFlight(n, b)
<1>0. AllAgree(ns, m1, m2)
  BY ReceivedAgree
<1>u. us = [ns EXCEPT ![n].vBlocksInFlight = Append(@, e),
                      ![n].nBlocksInFlight = @ + 1,
                      ![n].nLastBlockReceive =
                         IF ns[n].nBlocksInFlight = 0 THEN "young" ELSE @]
  BY DEF MarkBlockAsInFlight
<1>m. /\ Queued(m2, n) \cup {b} = Queued(m3, n) /\ b \notin Queued(m2, n)
      /\ \A k \in NodeId : k # n => Queued(m3, k) = Queued(m2, k)
  BY DownloadAssumption DEF Queued, Map
<1> HIDE DEF ns, m1, m2, m3, us
<1>1. ns \in [NodeId -> CNodeState] /\ ns[n] \in CNodeState
  BY <1>0 DEF AllAgree
<1>2. /\ v \in Seq(Request) /\ Len(v) \in Nat
      /\ ns[n].nBlocksInFlight = Len(v)
      /\ Lists(Hashes(v), Queued(m2, n))
  BY <1>0, <1>1 DEF AllAgree, Agree, CNodeState, Request
<1>3. e \in Request /\ e.hash = b
  BY DEF Request, Age
<1>4. /\ Append(v, e) \in Seq(Request) /\ Len(Append(v, e)) = Len(v) + 1
      /\ Hashes(Append(v, e)) = Append(Hashes(v), b)
      /\ Hashes(v) \in Seq(Block)
  BY <1>2, <1>3, HashesFacts
<1>5. Lists(Hashes(Append(v, e)), Queued(m3, n))
  <2>1. Lists(Append(Hashes(v), b), Queued(m2, n) \cup {b})
    BY <1>2, <1>4, <1>m, AppendLists
  <2> QED
    BY <1>4, <1>m, <2>1
<1>6. us \in [NodeId -> CNodeState]
  <2> DEFINE w == Append(v, e)
             c == Len(v) + 1
             a == IF ns[n].nBlocksInFlight = 0 THEN "young" ELSE ns[n].nLastBlockReceive
  <2>1. us = [ns EXCEPT ![n].vBlocksInFlight = w, ![n].nBlocksInFlight = c,
                        ![n].nLastBlockReceive = a]
    BY <1>1, <1>2, <1>u
  <2>2. w \in Seq(Request) /\ c \in Nat
    BY <1>2, <1>4
  <2>3. a \in Age
    BY <1>1 DEF CNodeState, Age
  <2> HIDE DEF w, c, a
  <2> QED
    BY <1>1, <2>1, <2>2, <2>3 DEF CNodeState, Request
<1>7. /\ us[n].vBlocksInFlight = Append(v, e) /\ us[n].nBlocksInFlight = Len(v) + 1
      /\ us[n].vBlocksToDownload = ns[n].vBlocksToDownload
      /\ us[n].nBlocksToDownload = ns[n].nBlocksToDownload
      /\ \A k \in NodeId : k # n => us[k] = ns[k]
  BY <1>1, <1>2, <1>u DEF CNodeState
<1> HIDE DEF v, e
<1>8. ASSUME NEW k \in NodeId PROVE Agree(us[k], k, m1, m3)
  <2>1. Agree(ns[k], k, m1, m2)
    BY <1>0 DEF AllAgree
  <2>2. CASE k = n
    BY <1>4, <1>5, <1>7, <2>1, <2>2 DEF Agree
  <2>3. CASE k # n
    BY <1>m, <1>7, <2>1, <2>3 DEF Agree
  <2> QED
    BY <2>2, <2>3
<1> QED
  BY <1>6, <1>8 DEF AllAgree, us, m1, m3

-----------------------------------------------------------------------------
(* The invariant.  The three properties are inductive together: that a      *)
(* request can be appended without a duplicate rests on OneRequest, and     *)
(* that a counter is positive when it goes down on the lists.               *)
DownloadInv == TypeOK /\ DownloadMapsAgree /\ OneRequest

(* No map names a deleted peer. *)
PeersExist ==
  \A n \in NodeId, b \in Block :
    n \in {mapBlocksToDownload[b], mapBlocksInFlight[b]} => conn[n] # "none"

(* The invariant, put together as the lemmas above need it. *)
DownloadParts ==
  /\ conn \in [NodeId -> {"none", "up", "dropped"}]
  /\ sending \in NodeId \cup {None}
  /\ mapBlocksToDownload \in Map /\ mapBlocksInFlight \in Map
  /\ AllAgree(mapNodeState, mapBlocksToDownload, mapBlocksInFlight)
  /\ PeersExist
  /\ OneRequest
LEMMA InvParts ==
  (DownloadInv <=> DownloadParts) /\ (DownloadInv' <=> DownloadParts')
<1>1. DownloadInv <=> DownloadParts
  BY DEF DownloadInv, DownloadParts, TypeOK, DownloadMapsAgree, Map, AllAgree, Agree,
         PeersExist, Queued
<1>2. DownloadInv' <=> DownloadParts'
  BY DEF DownloadInv, DownloadParts, TypeOK, DownloadMapsAgree, Map, AllAgree, Agree,
         PeersExist, Queued
<1> QED
  BY <1>1, <1>2

(* Nobody is connected, and nothing is queued. *)
LEMMA InitDownloadInv == Init => DownloadInv
<1> SUFFICES ASSUME Init PROVE DownloadInv
  OBVIOUS
<1>1. FreshState \in CNodeState
  BY DEF FreshState, CNodeState, Age
<1>2. Lists(<<>>, {}) /\ Hashes(<<>>) = <<>>
  BY DEF Lists, IsInjective, Range, Hashes
<1>3. \A n \in NodeId : Queued(mapBlocksToDownload, n) = {} /\ Queued(mapBlocksInFlight, n) = {}
  BY DownloadAssumption DEF Init, Queued
<1>4. AllAgree(mapNodeState, mapBlocksToDownload, mapBlocksInFlight)
  BY <1>1, <1>2, <1>3 DEF Init, AllAgree, Agree, FreshState
<1> QED
  BY <1>4, InvParts, DownloadAssumption DEF DownloadParts, Init, Map, PeersExist, OneRequest

(* A step that leaves the maps alone, and the lists, and deletes no peer. *)
LEMMA QuietStep ==
  ASSUME DownloadInv, UNCHANGED maps,
         AllAgree(mapNodeState', mapBlocksToDownload, mapBlocksInFlight),
         conn' \in [NodeId -> {"none", "up", "dropped"}],
         \A n \in NodeId : conn[n] # "none" => conn'[n] # "none",
         sending' \in NodeId \cup {None}
  PROVE  DownloadInv'
<1>1. mapBlocksToDownload' = mapBlocksToDownload /\ mapBlocksInFlight' = mapBlocksInFlight
  BY DEF maps
<1>2. AllAgree(mapNodeState, mapBlocksToDownload, mapBlocksInFlight)'
  BY <1>1 DEF AllAgree, Agree, Queued
<1>3. PeersExist' /\ OneRequest'
  BY <1>1, InvParts DEF DownloadParts, PeersExist, OneRequest
<1> QED
  BY <1>1, <1>2, <1>3, InvParts DEF DownloadParts, Map

(* A connection ends, and the peer is deleted. *)
LEMMA FinalizeNodeStep ==
  ASSUME DownloadInv, NEW n \in NodeId, FinalizeNode(n)
  PROVE  DownloadInv'
<1>1. /\ conn' = [conn EXCEPT ![n] = "none"]
      /\ mapBlocksInFlight' = Forgotten(mapBlocksInFlight, n)
      /\ mapBlocksToDownload' = Forgotten(mapBlocksToDownload, n)
      /\ mapNodeState' = [mapNodeState EXCEPT ![n] = FreshState]
      /\ sending' = sending
  BY DEF FinalizeNode
<1>2. /\ conn \in [NodeId -> {"none", "up", "dropped"}]
      /\ sending \in NodeId \cup {None}
      /\ mapBlocksToDownload \in Map /\ mapBlocksInFlight \in Map
      /\ AllAgree(mapNodeState, mapBlocksToDownload, mapBlocksInFlight)
      /\ PeersExist /\ OneRequest
  BY InvParts DEF DownloadParts
<1>3. ASSUME NEW m \in Map
      PROVE  /\ Forgotten(m, n) \in Map
             /\ Queued(Forgotten(m, n), n) = {}
             /\ \A k \in NodeId : k # n => Queued(Forgotten(m, n), k) = Queued(m, k)
             /\ \A b \in Block : Forgotten(m, n)[b] # n
             /\ \A b \in Block : Forgotten(m, n)[b] \in {m[b], None}
  BY DownloadAssumption DEF Forgotten, Map, Queued
<1>4. FreshState \in CNodeState
  BY DEF FreshState, CNodeState, Age
<1>5. Lists(<<>>, {}) /\ Hashes(<<>>) = <<>>
  BY DEF Lists, IsInjective, Range, Hashes
<1>6. AllAgree(mapNodeState', mapBlocksToDownload', mapBlocksInFlight')
  <2>1. mapNodeState' \in [NodeId -> CNodeState]
    BY <1>1, <1>2, <1>4 DEF AllAgree
  <2> SUFFICES ASSUME NEW k \in NodeId
               PROVE  Agree(mapNodeState'[k], k, mapBlocksToDownload', mapBlocksInFlight')
    BY <2>1 DEF AllAgree
  <2>2. CASE k = n
    <3>1. mapNodeState'[k] = FreshState
      BY <1>1, <1>2, <2>2 DEF AllAgree
    <3>2. Queued(mapBlocksToDownload', k) = {} /\ Queued(mapBlocksInFlight', k) = {}
      BY <1>1, <1>2, <1>3, <2>2
    <3>3. /\ FreshState.vBlocksToDownload = <<>> /\ FreshState.vBlocksInFlight = <<>>
          /\ FreshState.nBlocksToDownload = 0 /\ FreshState.nBlocksInFlight = 0
      BY DEF FreshState
    <3> QED
      BY <1>5, <3>1, <3>2, <3>3 DEF Agree
  <2>3. CASE k # n
    <3>1. mapNodeState'[k] = mapNodeState[k]
      BY <1>1, <1>2, <2>3 DEF AllAgree
    <3> QED
      BY <1>1, <1>2, <1>3, <2>3, <3>1 DEF AllAgree, Agree
  <2> QED
    BY <2>2, <2>3
<1>7. PeersExist'
  BY <1>1, <1>2, <1>3, DownloadAssumption DEF PeersExist
<1>8. OneRequest'
  BY <1>1, <1>2, <1>3 DEF OneRequest
<1>9. conn' \in [NodeId -> {"none", "up", "dropped"}]
  BY <1>1, <1>2
<1>10. AllAgree(mapNodeState, mapBlocksToDownload, mapBlocksInFlight)'
  BY <1>6 DEF AllAgree, Agree, Queued
<1> QED
  BY <1>1, <1>2, <1>3, <1>7, <1>8, <1>9, <1>10, InvParts DEF DownloadParts, Map

(* A block is announced. *)
LEMMA InvStep ==
  ASSUME DownloadInv, NEW n \in NodeId, NEW b \in Block, Inv(n, b)
  PROVE  DownloadInv'
<1>1. /\ UNCHANGED <<conn, mapBlocksInFlight, sending>> /\ conn[n] = "up"
      /\ mapBlocksToDownload[b] = None /\ mapBlocksInFlight[b] = None
      /\ mapNodeState' = AddBlockToQueue(Processing(n), n, b)
      /\ mapBlocksToDownload' = [mapBlocksToDownload EXCEPT ![b] = n]
  BY DEF Inv, CanProcess, CanQueue
<1>2. /\ conn \in [NodeId -> {"none", "up", "dropped"}]
      /\ sending \in NodeId \cup {None}
      /\ mapBlocksToDownload \in Map /\ mapBlocksInFlight \in Map
      /\ AllAgree(mapNodeState, mapBlocksToDownload, mapBlocksInFlight)
      /\ PeersExist /\ OneRequest
  BY InvParts DEF DownloadParts
<1>3. AllAgree(mapNodeState', mapBlocksToDownload', mapBlocksInFlight)
  BY <1>1, <1>2, ProcessingAgree, AddAgree
<1>4. AllAgree(mapNodeState, mapBlocksToDownload, mapBlocksInFlight)'
  BY <1>1, <1>3 DEF AllAgree, Agree, Queued
<1>5. mapBlocksToDownload' \in Map
  BY <1>1, <1>2 DEF Map
<1>6. PeersExist' /\ OneRequest'
  BY <1>1, <1>2 DEF PeersExist, OneRequest, Map
<1> QED
  BY <1>1, <1>2, <1>4, <1>5, <1>6, InvParts DEF DownloadParts, Map

(* A block comes. *)
LEMMA BlockReceivedStep ==
  ASSUME DownloadInv, NEW n \in NodeId, NEW b \in Block, BlockReceived(n, b)
  PROVE  DownloadInv'
<1>1. PICK howmuch \in 0..BanScore :
        mapNodeState' = Misbehaving(MarkBlockAsReceived(Processing(n), b, n), n, howmuch)
  BY DEF BlockReceived
<1>2. /\ UNCHANGED <<conn, sending>>
      /\ mapBlocksToDownload' = [mapBlocksToDownload EXCEPT ![b] = None]
      /\ mapBlocksInFlight' = [mapBlocksInFlight EXCEPT ![b] = None]
  BY DEF BlockReceived
<1>3. /\ conn \in [NodeId -> {"none", "up", "dropped"}]
      /\ sending \in NodeId \cup {None}
      /\ mapBlocksToDownload \in Map /\ mapBlocksInFlight \in Map
      /\ AllAgree(mapNodeState, mapBlocksToDownload, mapBlocksInFlight)
      /\ PeersExist /\ OneRequest
  BY InvParts DEF DownloadParts
<1>4. howmuch \in Nat
  BY <1>1, DownloadAssumption
<1>5. AllAgree(Processing(n), mapBlocksToDownload, mapBlocksInFlight)
  BY <1>3, ProcessingAgree
<1>6. AllAgree(MarkBlockAsReceived(Processing(n), b, n), mapBlocksToDownload',
               mapBlocksInFlight')
  BY <1>2, <1>3, <1>5, ReceivedAgree
<1>7. AllAgree(mapNodeState', mapBlocksToDownload', mapBlocksInFlight')
  BY <1>1, <1>4, <1>6, MisbehavingAgree
<1>8. AllAgree(mapNodeState, mapBlocksToDownload, mapBlocksInFlight)'
  BY <1>7 DEF AllAgree, Agree, Queued
<1>9. mapBlocksToDownload' \in Map /\ mapBlocksInFlight' \in Map
  BY <1>2, <1>3 DEF Map
<1>10. PeersExist' /\ OneRequest'
  BY <1>2, <1>3, DownloadAssumption DEF PeersExist, OneRequest, Map
<1> QED
  BY <1>2, <1>3, <1>8, <1>9, <1>10, InvParts DEF DownloadParts, Map

(* Any other message. *)
LEMMA OtherMessageStep ==
  ASSUME DownloadInv, NEW n \in NodeId, OtherMessage(n)
  PROVE  DownloadInv'
<1>1. PICK howmuch \in 0..BanScore :
        mapNodeState' = Misbehaving(Processing(n), n, howmuch)
  BY DEF OtherMessage
<1>2. howmuch \in Nat
  BY <1>1, DownloadAssumption
<1>3. AllAgree(mapNodeState, mapBlocksToDownload, mapBlocksInFlight)
  BY InvParts DEF DownloadParts
<1>4. AllAgree(Processing(n), mapBlocksToDownload, mapBlocksInFlight)
  BY <1>3, ProcessingAgree
<1>5. AllAgree(mapNodeState', mapBlocksToDownload, mapBlocksInFlight)
  BY <1>1, <1>2, <1>4, MisbehavingAgree
<1> QED
  BY <1>5, QuietStep, InvParts DEF DownloadParts, OtherMessage

(* SendMessages, up to the requests. *)
LEMMA SendMessagesStep ==
  ASSUME DownloadInv, NEW n \in NodeId, SendMessages(n)
  PROVE  DownloadInv'
<1>1. /\ conn \in [NodeId -> {"none", "up", "dropped"}]
      /\ sending \in NodeId \cup {None}
      /\ AllAgree(mapNodeState, mapBlocksToDownload, mapBlocksInFlight)
      /\ mapNodeState \in [NodeId -> CNodeState]
  BY InvParts DEF DownloadParts, AllAgree
<1>2. /\ mapNodeState' = [mapNodeState EXCEPT ![n].fShouldBan = FALSE] /\ UNCHANGED maps
      /\ \/ conn' = [conn EXCEPT ![n] = "dropped"] /\ sending' = sending
         \/ sending' = n /\ conn' = conn
  BY DEF SendMessages
<1>3. /\ mapNodeState' \in [NodeId -> CNodeState]
      /\ \A k \in NodeId :
           /\ mapNodeState'[k].vBlocksToDownload = mapNodeState[k].vBlocksToDownload
           /\ mapNodeState'[k].nBlocksToDownload = mapNodeState[k].nBlocksToDownload
           /\ mapNodeState'[k].nBlocksInFlight = mapNodeState[k].nBlocksInFlight
           /\ mapNodeState'[k].vBlocksInFlight = mapNodeState[k].vBlocksInFlight
  BY <1>1, <1>2 DEF CNodeState
<1>4. AllAgree(mapNodeState', mapBlocksToDownload, mapBlocksInFlight)
  BY <1>1, <1>3, SameLists
<1>5. /\ conn' \in [NodeId -> {"none", "up", "dropped"}]
      /\ \A k \in NodeId : conn[k] # "none" => conn'[k] # "none"
      /\ sending' \in NodeId \cup {None}
  BY <1>1, <1>2
<1> QED
  BY <1>2, <1>4, <1>5, QuietStep

(* One round of the loop that requests blocks, or its end. *)
LEMMA RequestBlockStep ==
  ASSUME DownloadInv, RequestBlock
  PROVE  DownloadInv'
<1>1. /\ conn \in [NodeId -> {"none", "up", "dropped"}]
      /\ sending \in NodeId \cup {None}
      /\ mapBlocksToDownload \in Map /\ mapBlocksInFlight \in Map
      /\ AllAgree(mapNodeState, mapBlocksToDownload, mapBlocksInFlight)
      /\ PeersExist /\ OneRequest
  BY InvParts DEF DownloadParts
<1>2. conn' = conn /\ sending \in NodeId
  BY <1>1 DEF RequestBlock
<1>3. CASE ~ MoreToRequest(sending)
  <2>1. mapNodeState' = mapNodeState /\ UNCHANGED maps /\ sending' = None
    BY <1>3 DEF RequestBlock
  <2> QED
    BY <1>1, <1>2, <2>1, QuietStep
<1>4. CASE MoreToRequest(sending)
  <2> DEFINE v == mapNodeState[sending].vBlocksToDownload
             b == Head(v)
  <2>1. /\ sending' = sending
        /\ mapNodeState' = MarkBlockAsInFlight(sending, b)
        /\ mapBlocksToDownload' = [mapBlocksToDownload EXCEPT ![b] = None]
        /\ mapBlocksInFlight' = [mapBlocksInFlight EXCEPT ![b] = sending]
    BY <1>4 DEF RequestBlock
  <2>2. v \in Seq(Block) /\ Len(v) > 0 /\ conn[sending] = "up"
    BY <1>1, <1>2, <1>4 DEF MoreToRequest, AllAgree, Agree, CNodeState
  <2>3. b \in Block /\ b = v[1] /\ 1 \in 1..Len(v)
    <3> HIDE DEF v
    <3> QED
      BY <2>2
  <2> HIDE DEF b
  <2>4. AllAgree(mapNodeState', mapBlocksToDownload', mapBlocksInFlight')
    BY <1>1, <1>2, <2>1, <2>3, InFlightAgree
  <2>5. AllAgree(mapNodeState, mapBlocksToDownload, mapBlocksInFlight)'
    BY <2>4 DEF AllAgree, Agree, Queued
  <2>6. mapBlocksToDownload' \in Map /\ mapBlocksInFlight' \in Map
    BY <1>1, <1>2, <2>1 DEF Map
  <2>7. PeersExist' /\ OneRequest'
    BY <1>1, <1>2, <2>1, <2>2, <2>3, DownloadAssumption DEF PeersExist, OneRequest, Map
  <2> QED
    BY <1>1, <1>2, <2>1, <2>5, <2>6, <2>7, InvParts DEF DownloadParts, Map
<1> QED
  BY <1>3, <1>4

(* Time passes. *)
LEMMA TimeStep ==
  ASSUME DownloadInv, NEW n \in NodeId, Time(n)
  PROVE  DownloadInv'
<1>1. /\ conn \in [NodeId -> {"none", "up", "dropped"}]
      /\ sending \in NodeId \cup {None}
      /\ AllAgree(mapNodeState, mapBlocksToDownload, mapBlocksInFlight)
      /\ mapNodeState \in [NodeId -> CNodeState]
  BY InvParts DEF DownloadParts, AllAgree
<1>2. UNCHANGED <<conn, sending>> /\ UNCHANGED maps
  BY DEF Time, ReceiveAges, RequestAges, FallsSilent, Passing, maps
<1> DEFINE Same ==
      /\ mapNodeState' \in [NodeId -> CNodeState]
      /\ \A k \in NodeId :
           /\ mapNodeState'[k].vBlocksToDownload = mapNodeState[k].vBlocksToDownload
           /\ mapNodeState'[k].nBlocksToDownload = mapNodeState[k].nBlocksToDownload
           /\ mapNodeState'[k].nBlocksInFlight = mapNodeState[k].nBlocksInFlight
           /\ Hashes(mapNodeState'[k].vBlocksInFlight) = Hashes(mapNodeState[k].vBlocksInFlight)
           /\ Len(mapNodeState'[k].vBlocksInFlight) = Len(mapNodeState[k].vBlocksInFlight)
<1>3. ASSUME ReceiveAges(n) PROVE Same
  BY <1>1, <1>3 DEF ReceiveAges, CNodeState, Age
<1>4. ASSUME FallsSilent(n) PROVE Same
  BY <1>1, <1>4 DEF FallsSilent, CNodeState
<1>5. ASSUME RequestAges(n) PROVE Same
  <2> DEFINE v == mapNodeState[n].vBlocksInFlight
  <2>1. PICK i \in DOMAIN v :
          mapNodeState' = [mapNodeState EXCEPT ![n].vBlocksInFlight[i].nTime = "old"]
    BY <1>5 DEF RequestAges
  <2> DEFINE w == [v EXCEPT ![i].nTime = "old"]
  <2>2. v \in Seq(Request)
    BY <1>1 DEF CNodeState, Request
  <2>3. w \in Seq(Request) /\ Len(w) = Len(v) /\ Hashes(w) = Hashes(v)
    <3> HIDE DEF v
    <3>1. i \in 1..Len(v) /\ v[i] \in Request /\ Len(v) \in Nat /\ DOMAIN v = 1..Len(v)
      BY <2>2
    <3> DEFINE e == [v[i] EXCEPT !.nTime = "old"]
    <3>2. e \in Request /\ e.hash = v[i].hash
      BY <3>1 DEF Request, Age
    <3>3. w = [v EXCEPT ![i] = e]
      BY <3>1
    <3> HIDE DEF e, w
    <3>4. w \in [1..Len(v) -> Request]
      BY <2>2, <3>1, <3>2, <3>3
    <3>5. w \in Seq(Request) /\ Len(w) = Len(v) /\ DOMAIN w = DOMAIN v
      BY <3>1, <3>4
    <3>6. \A j \in DOMAIN v : w[j].hash = v[j].hash
      BY <3>1, <3>2, <3>3
    <3> QED
      BY <3>5, <3>6 DEF Hashes
  <2>4. mapNodeState' = [mapNodeState EXCEPT ![n].vBlocksInFlight = w]
    BY <1>1, <2>1
  <2> HIDE DEF v, w
  <2>5. /\ mapNodeState' \in [NodeId -> CNodeState]
        /\ mapNodeState'[n].vBlocksInFlight = w
        /\ \A k \in NodeId :
             /\ mapNodeState'[k].vBlocksToDownload = mapNodeState[k].vBlocksToDownload
             /\ mapNodeState'[k].nBlocksToDownload = mapNodeState[k].nBlocksToDownload
             /\ mapNodeState'[k].nBlocksInFlight = mapNodeState[k].nBlocksInFlight
             /\ k # n => mapNodeState'[k].vBlocksInFlight = mapNodeState[k].vBlocksInFlight
    BY <1>1, <2>3, <2>4 DEF CNodeState, Request
  <2> QED
    BY <2>3, <2>5 DEF v
<1>6. Same
  BY <1>3, <1>4, <1>5 DEF Time
<1> HIDE DEF Same
<1>7. AllAgree(mapNodeState', mapBlocksToDownload, mapBlocksInFlight)
  BY <1>1, <1>6, SameLists DEF Same
<1> QED
  BY <1>1, <1>2, <1>7, QuietStep

-----------------------------------------------------------------------------
(* Every step of the download keeps the invariant. *)
THEOREM DownloadInductive == Spec => []DownloadInv
<1>1. ASSUME DownloadInv, [Next]_vars PROVE DownloadInv'
  <2>0. /\ conn \in [NodeId -> {"none", "up", "dropped"}]
        /\ sending \in NodeId \cup {None}
        /\ AllAgree(mapNodeState, mapBlocksToDownload, mapBlocksInFlight)
    BY <1>1, InvParts DEF DownloadParts
  <2>1. ASSUME NEW n \in NodeId, InitializeNode(n) \/ Disconnect(n) PROVE DownloadInv'
    <3>1. /\ UNCHANGED <<mapNodeState, sending>> /\ UNCHANGED maps
          /\ conn' \in [NodeId -> {"none", "up", "dropped"}]
          /\ \A k \in NodeId : conn[k] # "none" => conn'[k] # "none"
      BY <2>0, <2>1 DEF InitializeNode, Disconnect
    <3> QED
      BY <1>1, <2>0, <3>1, QuietStep
  <2>2. ASSUME NEW n \in NodeId,
               FinalizeNode(n) \/ OtherMessage(n) \/ SendMessages(n) \/ Time(n)
        PROVE  DownloadInv'
    BY <1>1, <2>2, FinalizeNodeStep, OtherMessageStep, SendMessagesStep, TimeStep
  <2>3. ASSUME NEW n \in NodeId, NEW b \in Block, Inv(n, b) \/ BlockReceived(n, b)
        PROVE  DownloadInv'
    BY <1>1, <2>3, InvStep, BlockReceivedStep
  <2>4. CASE RequestBlock
    BY <1>1, <2>4, RequestBlockStep
  <2>5. CASE UNCHANGED vars
    <3>1. UNCHANGED <<conn, mapNodeState, sending>> /\ UNCHANGED maps
      BY <2>5 DEF vars, maps
    <3> QED
      BY <1>1, <2>0, <3>1, QuietStep
  <2> QED
    BY <1>1, <2>1, <2>2, <2>3, <2>4, <2>5 DEF Next
<1> QED
  BY <1>1, InitDownloadInv, PTL DEF Spec

(* The states of the peers keep their types; no counter of blocks goes      *)
(* below zero, whoever sends a block and whoever leaves.                    *)
THEOREM DownloadTyped == Spec => []TypeOK
<1>1. DownloadInv => TypeOK
  BY DEF DownloadInv
<1> QED
  BY <1>1, DownloadInductive, PTL

(* The lists and counters of every peer say what mapBlocksToDownload and    *)
(* mapBlocksInFlight say, and these name no deleted peer.                   *)
THEOREM DownloadMapsAlwaysAgree == Spec => []DownloadMapsAgree
<1>1. DownloadInv => DownloadMapsAgree
  BY DEF DownloadInv
<1> QED
  BY <1>1, DownloadInductive, PTL

(* No block is both queued and requested. *)
THEOREM AlwaysOneRequest == Spec => []OneRequest
<1>1. DownloadInv => OneRequest
  BY DEF DownloadInv
<1> QED
  BY <1>1, DownloadInductive, PTL

=============================================================================
