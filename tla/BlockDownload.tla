---------------------------- MODULE BlockDownload ----------------------------
(***************************************************************************)
(* The download of announced blocks: each block is queued for the peer     *)
(* that announced it first, then requested from it, and both are recorded  *)
(* twice, in lists of the peer's CNodeState and in maps by block.  Blocks  *)
(* come late, from another peer or never; peers stall, are banned and      *)
(* leave.                                                                  *)
(*                                                                         *)
(* Everything holds cs_main.  What remains concurrent is the end of a      *)
(* peer: other threads set fDisconnect and delete the peer later, while    *)
(* its lists are still in use.                                             *)
(*                                                                         *)
(* Of times only what the code can tell is kept.  It asks whether a moment *)
(* (a request, the last received block) was more than a fixed time before  *)
(* the peer's last message.  So a moment is "young", then, after that      *)
(* time, "old", and "overdue" when the peer's next message comes.          *)
(***************************************************************************)
EXTENDS Naturals, SequencesExt

CONSTANTS
  NodeId,                          \* connections; an identifier is free again
                                   \* once no trace of the peer is left
  Local,                           \* those whose address is local
  Block,                           \* hashes of blocks
  None,
  MAX_BLOCKS_IN_TRANSIT_PER_PEER,
  MaxToDownload,                   \* 5000 in AddBlockToQueue
  BanScore                         \* -banscore, in tens

ASSUME DownloadAssumption ==
  /\ None \notin NodeId /\ Local \subseteq NodeId
  /\ MAX_BLOCKS_IN_TRANSIT_PER_PEER \in Nat \ {0}
  /\ MaxToDownload \in Nat /\ BanScore \in Nat \ {0}

VARIABLES
  conn,                 \* "none", "up", or "dropped" (fDisconnect is set)
  mapNodeState,         \* CNodeState of every peer
  mapBlocksToDownload,  \* the peer a block is queued for, or None
  mapBlocksInFlight,    \* the peer it was requested from, or None
  sending               \* the peer SendMessages runs for, or None

maps == <<mapBlocksToDownload, mapBlocksInFlight>>
vars == <<conn, mapNodeState, maps, sending>>

-----------------------------------------------------------------------------
Age == {"young", "old", "overdue"}

(* CNodeState().  nLastBlockReceive is old BLOCK_DOWNLOAD_TIMEOUT after it  *)
(* was set, the time of a request twice that; silent stands for a socket    *)
(* from which nothing came for DATA_TIMEOUT (net.h).                        *)
FreshState ==
  [vBlocksInFlight |-> <<>>, nBlocksInFlight |-> 0,
   vBlocksToDownload |-> <<>>, nBlocksToDownload |-> 0,
   nLastBlockReceive |-> "young", silent |-> FALSE,
   nMisbehavior |-> 0, fShouldBan |-> FALSE]

Init ==
  /\ conn = [n \in NodeId |-> "none"]
  /\ mapNodeState = [n \in NodeId |-> FreshState]
  /\ mapBlocksToDownload = [b \in Block |-> None]
  /\ mapBlocksInFlight = [b \in Block |-> None]
  /\ sending = None

InitializeNode(n) ==
  /\ conn[n] = "none"
  /\ conn' = [conn EXCEPT ![n] = "up"]
  /\ UNCHANGED <<mapNodeState, maps, sending>>

(* FinalizeNode, when the peer is deleted: its entries go from both maps.   *)
(* The fault: they stay.                                                    *)
ForgottenFault(map, n) == map
Forgotten(map, n) == [b \in Block |-> IF map[b] = n THEN None ELSE map[b]]
FinalizeNode(n) ==
  /\ sending = None
  /\ conn[n] = "dropped"
  /\ conn' = [conn EXCEPT ![n] = "none"]
  /\ mapBlocksInFlight' = Forgotten(mapBlocksInFlight, n)
  /\ mapBlocksToDownload' = Forgotten(mapBlocksToDownload, n)
  /\ mapNodeState' = [mapNodeState EXCEPT ![n] = FreshState]
  /\ UNCHANGED sending

-----------------------------------------------------------------------------
(* The maps hold the peer and an iterator into its list; the iterator is    *)
(* the position of b in the list of hashes v.                               *)
Hashes(v) == [i \in DOMAIN v |-> v[i].hash]
Position(v, b) == CHOOSE i \in DOMAIN v : v[i] = b

(* The two halves of MarkBlockAsReceived, on states ns: b leaves the queue  *)
(* it is in, and the list of requests.  The fault: the list of the peer     *)
(* that sent the block, not of the one that was asked.                      *)
Unqueued(ns, b) ==
  LET n == mapBlocksToDownload[b]
  IN  IF n = None THEN ns
      ELSE [ns EXCEPT ![n].vBlocksToDownload = RemoveAt(@, Position(@, b)),
                      ![n].nBlocksToDownload = @ - 1]
ArrivedFault(ns, b, from) ==
  IF mapBlocksInFlight[b] = None \/ from = None THEN ns
  ELSE [ns EXCEPT ![from].vBlocksInFlight = SelectSeq(@, LAMBDA e : e.hash # b),
                  ![from].nBlocksInFlight = @ - 1]
Arrived(ns, b, from) ==
  LET n == mapBlocksInFlight[b]
  IN  IF n = None THEN ns
      ELSE [ns EXCEPT
              ![n].vBlocksInFlight = RemoveAt(@, Position(Hashes(@), b)),
              ![n].nBlocksInFlight = @ - 1,
              ![n].nLastBlockReceive = IF n = from THEN "young" ELSE @]
MarkBlockAsReceived(ns, b, from) == Arrived(Unqueued(ns, b), b, from)

(* The score is only ever compared with BanScore, so it stops there. *)
Misbehaving(ns, n, howmuch) ==
  LET score == ns[n].nMisbehavior + howmuch
  IN  IF howmuch = 0 THEN ns
      ELSE [ns EXCEPT
              ![n].nMisbehavior = IF score < BanScore THEN score ELSE BanScore,
              ![n].fShouldBan = @ \/ score >= BanScore]

(* AddBlockToQueue does nothing for a block that is queued or requested.    *)
(* The fault: for one that is queued.                                       *)
CanQueueFault(b) == mapBlocksToDownload[b] = None
CanQueue(b) == mapBlocksToDownload[b] = None /\ mapBlocksInFlight[b] = None
AddBlockToQueue(ns, n, b) ==
  LET added == [ns EXCEPT ![n].vBlocksToDownload = Append(@, b),
                          ![n].nBlocksToDownload = @ + 1]
  IN  IF added[n].nBlocksToDownload > MaxToDownload THEN Misbehaving(added, n, 1)
                                                    ELSE added

(* ProcessMessage begins, for any message of a peer: nLastBlockProcess is   *)
(* now.                                                                     *)
Seen(age) == IF age = "old" THEN "overdue" ELSE age
Processing(n) ==
  [mapNodeState EXCEPT
     ![n].silent = FALSE,
     ![n].nLastBlockReceive = Seen(@),
     ![n].vBlocksInFlight =
        [i \in DOMAIN @ |-> [hash |-> @[i].hash, nTime |-> Seen(@[i].nTime)]]]
CanProcess(n) == sending = None /\ conn[n] = "up"

(* An inv message with a block that is new to the node (AlreadyHave). *)
Inv(n, b) ==
  /\ CanProcess(n)
  /\ CanQueue(b)
  /\ mapNodeState' = AddBlockToQueue(Processing(n), n, b)
  /\ mapBlocksToDownload' = [mapBlocksToDownload EXCEPT ![b] = n]
  /\ UNCHANGED <<conn, mapBlocksInFlight, sending>>

(* A block message, asked for or not.  ProcessBlock keeps the block or      *)
(* refuses it, so it may or may not be new when it is announced next, and   *)
(* blames the peer for it as it likes.                                      *)
BlockReceived(n, b) ==
  /\ CanProcess(n)
  /\ \E howmuch \in 0..BanScore :
       mapNodeState' =
         Misbehaving(MarkBlockAsReceived(Processing(n), b, n), n, howmuch)
  /\ mapBlocksToDownload' = [mapBlocksToDownload EXCEPT ![b] = None]
  /\ mapBlocksInFlight' = [mapBlocksInFlight EXCEPT ![b] = None]
  /\ UNCHANGED <<conn, sending>>

(* Any other message, or one of the above that is dropped or announces what *)
(* the node has: good, or blamed on the peer.                               *)
OtherMessage(n) ==
  /\ CanProcess(n)
  /\ \E howmuch \in 0..BanScore :
       mapNodeState' = Misbehaving(Processing(n), n, howmuch)
  /\ UNCHANGED <<conn, maps, sending>>

-----------------------------------------------------------------------------
(* "Detect stalled peers."  The fault: only those whose quota is used up.   *)
StalledFault(s) ==
  /\ s.nBlocksInFlight >= MAX_BLOCKS_IN_TRANSIT_PER_PEER
  /\ s.nLastBlockReceive = "overdue"
  /\ Head(s.vBlocksInFlight).nTime = "overdue"
Stalled(s) ==
  /\ s.nBlocksInFlight > 0
  /\ s.nLastBlockReceive = "overdue"
  /\ Head(s.vBlocksInFlight).nTime = "overdue"

(* SendMessages up to the requests: a peer that is to be banned, unless its *)
(* address is local, or that stalls is dropped.                             *)
SendMessages(n) ==
  /\ CanProcess(n)
  /\ LET s == mapNodeState[n]
     IN  IF (s.fShouldBan /\ n \notin Local) \/ Stalled(s)
           THEN conn' = [conn EXCEPT ![n] = "dropped"] /\ UNCHANGED sending
           ELSE sending' = n /\ UNCHANGED conn
  /\ mapNodeState' = [mapNodeState EXCEPT ![n].fShouldBan = FALSE]
  /\ UNCHANGED maps

(* MarkBlockAsInFlight. *)
MarkBlockAsInFlight(n, b) ==
  LET ns == MarkBlockAsReceived(mapNodeState, b, None)
  IN  [ns EXCEPT ![n].vBlocksInFlight = Append(@, [hash |-> b, nTime |-> "young"]),
                 ![n].nBlocksInFlight = @ + 1,
                 ![n].nLastBlockReceive =
                    IF ns[n].nBlocksInFlight = 0 THEN "young" ELSE @]

(* "Message: getdata (blocks)": one round of the loop, or its end. *)
MoreToRequest(n) ==
  /\ conn[n] = "up"
  /\ mapNodeState[n].nBlocksToDownload > 0
  /\ mapNodeState[n].nBlocksInFlight < MAX_BLOCKS_IN_TRANSIT_PER_PEER
RequestBlock ==
  /\ sending # None
  /\ IF MoreToRequest(sending)
       THEN LET b == Head(mapNodeState[sending].vBlocksToDownload)
            IN  /\ mapNodeState' = MarkBlockAsInFlight(sending, b)
                /\ mapBlocksToDownload' = [mapBlocksToDownload EXCEPT ![b] = None]
                /\ mapBlocksInFlight' = [mapBlocksInFlight EXCEPT ![b] = sending]
                /\ UNCHANGED sending
       ELSE sending' = None /\ UNCHANGED <<mapNodeState, maps>>
  /\ UNCHANGED conn

-----------------------------------------------------------------------------
(* The connection ends, at any time; or nothing was received for too long   *)
(* (ThreadSocketHandler).                                                   *)
Disconnect(n) ==
  /\ conn[n] = "up"
  /\ conn' = [conn EXCEPT ![n] = "dropped"]
  /\ UNCHANGED <<mapNodeState, maps, sending>>
SocketTimeout(n) == mapNodeState[n].silent /\ Disconnect(n)

(* Time passes: a limit is reached, for requests in the order they were     *)
(* made.                                                                    *)
Passing(n) == conn[n] = "up" /\ UNCHANGED <<conn, maps, sending>>
ReceiveAges(n) ==
  /\ Passing(n)
  /\ mapNodeState[n].nLastBlockReceive = "young"
  /\ mapNodeState' = [mapNodeState EXCEPT ![n].nLastBlockReceive = "old"]
RequestAges(n) ==
  /\ Passing(n)
  /\ LET v == mapNodeState[n].vBlocksInFlight
     IN  \E i \in DOMAIN v :
           /\ v[i].nTime = "young"
           /\ \A j \in 1..(i - 1) : v[j].nTime # "young"
           /\ mapNodeState' = [mapNodeState EXCEPT ![n].vBlocksInFlight[i].nTime = "old"]
FallsSilent(n) ==
  /\ Passing(n)
  /\ ~ mapNodeState[n].silent
  /\ mapNodeState' = [mapNodeState EXCEPT ![n].silent = TRUE]
Time(n) == ReceiveAges(n) \/ RequestAges(n) \/ FallsSilent(n)

Next ==
  \/ \E n \in NodeId :
       \/ InitializeNode(n) \/ FinalizeNode(n) \/ OtherMessage(n)
       \/ SendMessages(n) \/ Disconnect(n) \/ Time(n)
       \/ \E b \in Block : Inv(n, b) \/ BlockReceived(n, b)
  \/ RequestBlock

Spec == Init /\ [][Next]_vars

(* Time passes, a thread that waits for cs_main gets it in the end, and a   *)
(* peer whose socket stays silent is dropped.  Nothing is assumed of peers, *)
(* but that a socket with input in the end has a complete message.          *)
FairSpec ==
  /\ Spec
  /\ WF_vars(RequestBlock)
  /\ \A n \in NodeId :
       /\ SF_vars(SendMessages(n)) /\ SF_vars(FinalizeNode(n))
       /\ WF_vars(ReceiveAges(n)) /\ WF_vars(RequestAges(n))
       /\ WF_vars(FallsSilent(n)) /\ WF_vars(SocketTimeout(n))

-----------------------------------------------------------------------------
(* Every variable has its type; no counter goes below zero. *)
CNodeState ==
  [vBlocksInFlight : Seq([hash : Block, nTime : Age]), nBlocksInFlight : Nat,
   vBlocksToDownload : Seq(Block), nBlocksToDownload : Nat,
   nLastBlockReceive : Age, silent : BOOLEAN,
   nMisbehavior : Nat, fShouldBan : BOOLEAN]
TypeOK ==
  /\ conn \in [NodeId -> {"none", "up", "dropped"}]
  /\ mapNodeState \in [NodeId -> CNodeState]
  /\ mapBlocksToDownload \in [Block -> NodeId \cup {None}]
  /\ mapBlocksInFlight \in [Block -> NodeId \cup {None}]
  /\ sending \in NodeId \cup {None}

(* A list has every element of B once, and nothing else. *)
Lists(v, B) == IsInjective(v) /\ Range(v) = B

(* The lists of the peers, their counters and the two maps say the same: a  *)
(* block is in exactly the list that its map entry names, once, and the     *)
(* entry never names a deleted peer (State would be NULL).                  *)
DownloadMapsAgree ==
  \A n \in NodeId :
    LET s == mapNodeState[n]
    IN  /\ s.nBlocksToDownload = Len(s.vBlocksToDownload)
        /\ s.nBlocksInFlight = Len(s.vBlocksInFlight)
        /\ Lists(s.vBlocksToDownload, { b \in Block : mapBlocksToDownload[b] = n })
        /\ Lists(Hashes(s.vBlocksInFlight), { b \in Block : mapBlocksInFlight[b] = n })
        /\ \A b \in Block : n \in {mapBlocksToDownload[b], mapBlocksInFlight[b]}
                              => conn[n] # "none"

(* A block is asked of one peer at a time: it is never both queued and      *)
(* requested, so no second peer is asked while the first may still answer.  *)
OneRequest ==
  \A b \in Block : mapBlocksToDownload[b] = None \/ mapBlocksInFlight[b] = None

(* A peer can keep a block from being asked of others only as long as it    *)
(* goes on answering other requests: if a block stays queued for it or      *)
(* requested from it forever, the peer delivers requested blocks forever.   *)
(* Peers that stall, or only chat, or fall silent are dropped.              *)
DownloadsEnd ==
  \A n \in NodeId, b \in Block :
    <>[](n \in {mapBlocksToDownload[b], mapBlocksInFlight[b]})
      => []<>(mapNodeState[n].nLastBlockReceive = "young")

=============================================================================
