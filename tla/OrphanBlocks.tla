----------------------------- MODULE OrphanBlocks -----------------------------
(***************************************************************************)
(* ProcessBlock: blocks arrive in any order, from peers and from the node  *)
(* itself; one whose parent is unknown waits in the orphan pool.           *)
(*                                                                         *)
(* ProcessBlock holds cs_main from start to end, so a new block is handled *)
(* only when the work queue of the last one is empty.  What AcceptBlock    *)
(* does with a block whose parent is known is the subject of ChainState;   *)
(* here it is an outcome: the block is accepted, rejected (it does not get *)
(* into the index), or fails (it is indexed, but SetBestChain does not     *)
(* connect it, and AcceptBlock returns false all the same).                *)
(*                                                                         *)
(* The blocks come from one peer, after the initial download.  The node    *)
(* asks it for missing ancestors in two ways.  The answer to a getblocks   *)
(* message may or may not bring them (the peer leaves out what it believes *)
(* the node knows), so here it is just one more block that may arrive; the *)
(* direct request (CNode::AskFor) is modelled.                             *)
(***************************************************************************)
EXTENDS BlockTree, FiniteSets

CONSTANTS
  StakeTime,         \* CTransaction::nTime of every coinstake
  Rejectable,        \* blocks that CheckBlock, the checkpoint or AcceptBlock
                     \* reject, always or at times
  nMaxOrphanBlocks   \* -maxorphanblocks

ASSUME OrphanAssumption ==
  /\ Rejectable \subseteq Block \ {Genesis}
  /\ nMaxOrphanBlocks \in Nat

VARIABLES
  mapBlockIndex,          \* the blocks in the block index
  setStakeSeen,           \* their stakes
  mapOrphanBlocks,        \* the orphan pool
  mapOrphanBlocksByPrev,  \* the same orphans, found by their parent
  setStakeSeenOrphan,     \* their stakes
  vWorkQueue,             \* accepted blocks whose orphans are to be processed
  mapAskFor,              \* blocks that the peer is to be asked for
  setAskFor,              \* blocks that it was ever to be asked for
  asked                   \* getdata sent and not yet answered

orphans == <<mapOrphanBlocks, mapOrphanBlocksByPrev, setStakeSeenOrphan>>
index   == <<mapBlockIndex, setStakeSeen>>
askfor  == <<mapAskFor, setAskFor>>
vars    == <<index, orphans, vWorkQueue, askfor, asked>>

Init ==
  /\ mapBlockIndex = {Genesis} /\ setStakeSeen = {}
  /\ mapOrphanBlocks = {} /\ mapOrphanBlocksByPrev = {}
  /\ setStakeSeenOrphan = {}
  /\ vWorkQueue = <<>>
  /\ mapAskFor = {} /\ setAskFor = {} /\ asked = {}

(* CBlock::GetProofOfStake: the staked coins and the time of the stake. *)
GetProofOfStake(b) ==
  IF IsProofOfStake(b) THEN <<Kernel[Vtx[b][2]], StakeTime[Vtx[b][2]]>> ELSE None

OrphansOf(p) == { o \in mapOrphanBlocksByPrev : Parent[o] = p }

(* "Duplicate stake allowed only when there is orphan child block".  The    *)
(* fault: not even then.                                                    *)
DuplicateStakeFault(b, seen) == IsProofOfStake(b) /\ GetProofOfStake(b) \in seen
DuplicateStake(b, seen) ==
  IsProofOfStake(b) /\ GetProofOfStake(b) \in seen /\ OrphansOf(b) = {}

(* The blocks that SetBestChain cannot connect: the bad ones and those that *)
(* follow one.                                                              *)
Unconnectable == { b \in Block : Branch[b] \cap BadBlock # {} }

(* The outcomes of AcceptBlock, and what AddToBlockIndex does in two of     *)
(* them.  Only a block with more trust than the best chain is to connect.   *)
Outcomes(b) == {"accepted"} \cup (IF b \in Rejectable THEN {"rejected"} ELSE {})
                            \cup (IF b \in Unconnectable THEN {"failed"} ELSE {})
AddToBlockIndex(b, outcome) ==
  IF outcome = "rejected"
    THEN UNCHANGED index
    ELSE /\ mapBlockIndex' = mapBlockIndex \cup {b}
         /\ setStakeSeen' = setStakeSeen \cup
              (IF IsProofOfStake(b) THEN {GetProofOfStake(b)} ELSE {})

-----------------------------------------------------------------------------
(* ProcessBlock goes on with b after its first tests. *)
Wanted(b) ==
  /\ vWorkQueue = <<>>
  /\ b \notin mapBlockIndex \cup mapOrphanBlocks
  /\ ~ DuplicateStake(b, setStakeSeen)

(* ProcessBlock returns early: a block it has, a duplicate stake, or one    *)
(* that fails the tests that come before anything is stored.                *)
Refuse(b) ==
  /\ vWorkQueue = <<>>
  /\ \/ ~ Wanted(b)
     \/ b \in Rejectable
     \/ Parent[b] \notin mapBlockIndex /\ DuplicateStake(b, setStakeSeenOrphan)
  /\ asked' = asked \ {b}
  /\ UNCHANGED <<index, orphans, vWorkQueue, askfor>>

(* PruneOrphanBlocks: if the pool is over its limit, a random walk up the   *)
(* orphans ends in one that no other depends on, and that one goes, its     *)
(* stake with it.  The fault: the stake stays.                              *)
OverLimit == Cardinality(mapOrphanBlocksByPrev) > nMaxOrphanBlocks
PrunedStakeFault(o) == None
PrunedStake(o) == GetProofOfStake(o)
Prunable ==
  IF OverLimit THEN { o \in mapOrphanBlocks : OrphansOf(o) = {} } ELSE {None}

(* WantedByOrphan: the first block on the way down from b that is not in    *)
(* the pool.                                                                *)
WantedByOrphan(b, pool) ==
  CHOOSE a \in Branch[b] \ pool :
    \A c \in Branch[b] \ pool : Height[c] =< Height[a]

(* CNode::AskFor: "a peer may not have multiple non-responded queue         *)
(* positions for a single inv item".  Receiving a transaction erases it     *)
(* from setAskFor, receiving a block does not; SendGetData does, if the     *)
(* block is here before the request is sent.                                *)
AskFor(b) ==
  /\ mapAskFor' = mapAskFor \cup ({b} \ setAskFor)
  /\ setAskFor' = setAskFor \cup {b}

(* A peer's block whose parent is unknown goes into the pool, and the peer  *)
(* is asked for what is missing.                                            *)
AddOrphan(b) ==
  /\ Wanted(b)
  /\ Parent[b] \notin mapBlockIndex
  /\ ~ DuplicateStake(b, setStakeSeenOrphan)
  /\ \E gone \in Prunable :
       /\ mapOrphanBlocks' = (mapOrphanBlocks \ {gone}) \cup {b}
       /\ mapOrphanBlocksByPrev' = (mapOrphanBlocksByPrev \ {gone}) \cup {b}
       /\ setStakeSeenOrphan' =
            (setStakeSeenOrphan \ (IF gone = None THEN {} ELSE {PrunedStake(gone)}))
              \cup (IF IsProofOfStake(b) THEN {GetProofOfStake(b)} ELSE {})
  /\ AskFor(WantedByOrphan(b, mapOrphanBlocks'))
  /\ asked' = asked \ {b}
  /\ UNCHANGED <<index, vWorkQueue>>

(* A block whose parent is known goes to AcceptBlock; then the orphans that *)
(* waited for it are next, unless AcceptBlock returned false.               *)
Accept(b) ==
  /\ Wanted(b)
  /\ Parent[b] \in mapBlockIndex
  /\ \E outcome \in Outcomes(b) :
       /\ AddToBlockIndex(b, outcome)
       /\ vWorkQueue' = IF outcome = "accepted" THEN <<b>> ELSE <<>>
  /\ asked' = asked \ {b}
  /\ UNCHANGED <<orphans, askfor>>

(* The node's own block (ProcessBlock without a peer) is not stored as an   *)
(* orphan; if its parent is known it is handled like any other, by Accept.  *)
(* A block message.                                                         *)
Receive(b) == Refuse(b) \/ AddOrphan(b) \/ Accept(b)

(* What the work queue holds after an orphan has been processed.  The       *)
(* faults: only the orphans of the first block are processed; the result    *)
(* of AcceptBlock is ignored.                                               *)
QueuedFault(o, outcome) == vWorkQueue
QueuedAnyFault(o, outcome) == Append(vWorkQueue, o)
Queued(o, outcome) ==
  IF outcome = "accepted" THEN Append(vWorkQueue, o) ELSE vWorkQueue

(* One orphan of the block at the front of the work queue.  It leaves       *)
(* mapOrphanBlocks here, and mapOrphanBlocksByPrev when all are done.       *)
ProcessOrphan(o) ==
  /\ vWorkQueue # <<>>
  /\ o \in OrphansOf(Head(vWorkQueue)) \cap mapOrphanBlocks
  /\ \E outcome \in Outcomes(o) :
       /\ AddToBlockIndex(o, outcome)
       /\ vWorkQueue' = Queued(o, outcome)
  /\ mapOrphanBlocks' = mapOrphanBlocks \ {o}
  /\ setStakeSeenOrphan' = setStakeSeenOrphan \ {GetProofOfStake(o)}
  /\ UNCHANGED <<mapOrphanBlocksByPrev, askfor, asked>>

(* mapOrphanBlocksByPrev.erase, at the end of a round.  The fault: it is    *)
(* left out.                                                                *)
EraseByPrevFault(p) == mapOrphanBlocksByPrev
EraseByPrev(p) == mapOrphanBlocksByPrev \ OrphansOf(p)
FinishRound ==
  /\ vWorkQueue # <<>>
  /\ OrphansOf(Head(vWorkQueue)) \cap mapOrphanBlocks = {}
  /\ mapOrphanBlocksByPrev' = EraseByPrev(Head(vWorkQueue))
  /\ vWorkQueue' = Tail(vWorkQueue)
  /\ UNCHANGED <<index, mapOrphanBlocks, setStakeSeenOrphan, askfor, asked>>

Work == (\E o \in mapOrphanBlocks : ProcessOrphan(o)) \/ FinishRound

(* SendMessages, "Message: getdata (non-blocks)": the request goes out,     *)
(* unless the block has come by itself.                                     *)
SendGetData(b) ==
  /\ vWorkQueue = <<>>
  /\ b \in mapAskFor
  /\ mapAskFor' = mapAskFor \ {b}
  /\ IF b \in mapBlockIndex \cup mapOrphanBlocks
       THEN setAskFor' = setAskFor \ {b} /\ UNCHANGED asked
       ELSE asked' = asked \cup {b} /\ UNCHANGED setAskFor
  /\ UNCHANGED <<index, orphans, vWorkQueue>>

Next ==
  \/ \E b \in Block \ {Genesis} : Receive(b) \/ SendGetData(b)
  \/ Work

Spec == Init /\ [][Next]_vars

(* The threads of the node go on, and the peer sends a block it was asked   *)
(* for in the end.                                                          *)
FairSpec ==
  /\ Spec
  /\ WF_vars(Work)
  /\ \A b \in Block \ {Genesis} :
       WF_vars(SendGetData(b)) /\ WF_vars(b \in asked /\ Receive(b))

-----------------------------------------------------------------------------
Idle == vWorkQueue = <<>>

(* Every variable has its type. *)
TypeOK ==
  /\ mapBlockIndex \subseteq Block
  /\ mapOrphanBlocks \cup mapOrphanBlocksByPrev \subseteq Block \ {Genesis}
  /\ vWorkQueue \in Seq(mapBlockIndex)
  /\ mapAskFor \cup asked \subseteq setAskFor
  /\ setAskFor \subseteq Block \ {Genesis}

(* When ProcessBlock returns, the two maps hold the same orphans (an entry  *)
(* of mapOrphanBlocksByPrev alone would point to freed memory), and none of *)
(* them is in the index.                                                    *)
OrphanMapsAgree ==
  Idle => /\ mapOrphanBlocks = mapOrphanBlocksByPrev
          /\ mapOrphanBlocks \cap mapBlockIndex = {}

(* "Keep at most <n> unconnectable blocks in memory" (-maxorphanblocks in   *)
(* init.cpp) does not hold: PruneOrphanBlocks looks at the size of the pool *)
(* before the new orphan is added, and only removes one if the limit is     *)
(* already passed.  What does hold is this, with one block more.            *)
OrphansBounded == Cardinality(mapOrphanBlocks) =< nMaxOrphanBlocks + 1

(* A stake counts as seen among the orphans only while one of them has it:  *)
(* no removed orphan keeps blocks with its stake out.                       *)
OrphanStakesHeld ==
  setStakeSeenOrphan \subseteq { GetProofOfStake(o) : o \in mapOrphanBlocks }

(* "Recursively process any orphan blocks that depended on this one"        *)
(* (ProcessBlock): when it returns, no block waits for a parent that is in  *)
(* the index, unless that parent does not connect.                          *)
NoneLeftBehind ==
  Idle => \A o \in mapOrphanBlocks :
            Parent[o] \in mapBlockIndex => Parent[o] \in Unconnectable

(* "getblocks may not obtain the ancestor block rejected earlier by         *)
(* duplicate-stake check so we ask for it again directly" (ProcessBlock):   *)
(* no orphan of a good branch waits forever, not even one above a block     *)
(* whose stake has been seen.                                               *)
OrphansResolved ==
  \A b \in Block \ {Genesis} :
    Branch[b] \cap (BadBlock \cup Rejectable) = {} =>
      (b \in mapOrphanBlocks ~> b \notin mapOrphanBlocks)

(* The same as long as the pool stays below its limit, so that no orphan is *)
(* dropped between the request for its ancestor and the answer.             *)
UnprunedResolved == []~ OverLimit => OrphansResolved

=============================================================================
