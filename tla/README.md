# ZalemCoin: a TLA+ model of the node

ZalemCoin is a proof-of-stake coin descended from Bitcoin, BlackCoin and DASH. One
process per node keeps a block index, a leveldb database of transactions, a memory
pool, a wallet and connections to peers. Almost all of the logic that decides what
the ledger *is* lives in `src/src/main.cpp` and runs under one lock, `cs_main`.

This directory holds TLA+ modules for that logic, the TLC configurations that check
them on small instances, and TLAPS proofs for every instance.

## 1. Inventory

| Component | State | Operations | Talks to | What is hard | Correct means |
|---|---|---|---|---|---|
| Best chain (`main.cpp`) | `mapBlockIndex`, `pnext`, `pindexBest` | `AcceptBlock`, `AddToBlockIndex`, `SetBestChain`, `Reorganize`, `SetBestChainInner` | database, pool, orphans, kernel, checkpoints | a reorganisation in two phases, failure in either, a crash between commits | memory follows the database; the valid chain with the most trust wins |
| Transaction index (`main.cpp`, `main.h`) | `CTxIndex`: position and spent pointers | `ConnectInputs`, `DisconnectInputs`, `FetchInputs` | database | order of undoing, maturity at the boundary | the index is that of the best chain |
| Block database (`txdb-leveldb.cpp`) | records, open batch | `TxnBegin/Commit/Abort`, `Read` through the batch, `LoadBlockIndex` | best chain | loss of the batch, the move back to a fork at start | a committed state is never half of an update |
| Memory pool (`txmempool.cpp`) | `mapTx`, `mapNextTx` | `addUnchecked`, `remove`, `removeConflicts`, `AcceptToMemoryPool` | index, best chain | sequences of reorganisations | the maps agree; nothing confirmed stays |
| Orphan blocks (`main.cpp`) | `mapOrphanBlocks`, `mapOrphanBlocksByPrev`, `setStakeSeen`, `setStakeSeenOrphan` | `ProcessBlock`, `PruneOrphanBlocks` | peers, best chain | any order of arrival, duplicate stakes, the limit | bounded, consistent, nobody waits forever |
| Block download (`main.cpp`) | `CNodeState`, `mapBlocksToDownload`, `mapBlocksInFlight` | `AddBlockToQueue`, `MarkBlockAsInFlight`, `MarkBlockAsReceived`, `SendMessages` | peers | peers that stall, leave or answer late | each block asked of one peer; counters match lists |
| Orphan transactions (`main.cpp`) | `mapOrphanTransactions`, `...ByPrev` | `AddOrphanTx`, `EraseOrphanTx`, `LimitOrphanTxSize`, the `tx` handler | pool | retries, eviction | the maps agree and are bounded |
| InstantX (`instantx.cpp`) | `mapTxLocks`, `mapLockedInputs`, votes | `ProcessMessageInstantX`, `ProcessConsensusVote`, `CleanTransactionLocksList` | pool, blocks, floatingcities | votes before their transaction, conflicting locks, expiry | inputs are locked by consensus, the pool respects it, locks end |
| Caches of the chain (`main.cpp`, `floatingcity.cpp`, `blocksizecalculator.cpp`) | last answer by height, hashes by height, sizes of the last blocks | `FindBlockByHeight`, `GetBlockHash`, `ComputeBlockSize` | best chain, ranks, `CheckBlock` | reorganisations between two uses | what is cached is that of the best chain; the limit follows the sizes |
| Floatingcities (`floatingcity*.cpp`) | list of entries, winners | `Check`, pings, `ProcessBlock` of payments | kernel, chain | states by time | winner is deterministic |
| Address manager (`addrman.cpp`) | `mapInfo`, `vvNew`, `vvTried`, `vRandom` | `Add_`, `Good_`, `MakeTried`, `ShrinkNew`, `Attempt_` | net | reference counts, eviction | its own `Check_` |
| Retarget, velocity, rewards | none | pure functions | best chain | limits and overflow | bounds |
| Sporks, alerts, bounded containers | maps | insertion, expiry | peers | limits | latest value wins |
| Wallet, miner | keys, transactions | `SyncTransaction`, `CreateNewBlock` | pool, chain | staleness | spent means spent |
| Scripts, cryptography, RPC, Qt, sockets | - | conversion, input and output | - | - | - |

Not this project's subject: `leveldb`, `secp256k1`, `json`, `lz4`, `xxhash`, `crypto`
(vendored), `qt` (user interface).

`PROJECT.json` has the same list with the source files and what is left out of each,
and, under `hazards`, each place where something can go wrong that a test would
hardly reach.

## 2. Modules

```
BlockTree --- TxIndex --- MemPool --- ChainState --- MCChainState
    |            |           |  |         |  |  \--- TrustedChain (abstract, by INSTANCE)
    |     TxIndex_proofs     |  |         |  \--- NodeCaches --- MCNodeCaches
    |            |   MemPool_proofs       |            |
    |            \-----------+------ ChainState_proofs-+- NodeCaches_proofs
    |                        |
    |                   OrphanTx, InstantX --- TxRelay --- MCTxRelay
    |                                             \--- TxRelay_proofs
    \--- OrphanBlocks --- MCOrphanBlocks
              \--- OrphanBlocks_proofs

BlockDownload --- MCBlockDownload        AddrMan --- MCAddrMan
       \--- BlockDownload_proofs            \--- AddrMan_proofs
```

**BlockTree** gives the data: the blocks that exist, a tree (`Parent`, `Branch`,
`Height`, `ChainTrust`), the transactions of each (`Vtx`), the outputs each spends.
Hashes, amounts and scripts are abstracted away: a block that would fail
`CheckBlock` or the tests of amounts and signatures is a member of `BadBlock`.

**TxIndex** is `CTxIndex` and the functions on it. An index is a pair of functions,
the block of each transaction (`CDiskTxPos`) and the spender of each output
(`vSpent`). `ConnectPos`, `ConnectSpent`, `DisconnectPos`, `DisconnectSpent` are the
writes of `ConnectBlock` and `DisconnectBlock`; `InputsConnect` and `CanDisconnect`
their tests. `ValidChain` and `IndexMatches` are the reference: what a chain must
satisfy, and what its index must be, said without an index.

**MemPool** is `CTxMemPool` as a value and `AcceptToMemoryPool` on it.

**ChainState** is a node. Variables come in three groups: memory; the committed
database; the view through the open batch. `AcceptBlock` does all of `AcceptBlock`
and `AddToBlockIndex` up to the commit of the index record. `SetBestChain` picks
between extending and reorganising; `DisconnectBlock`, `ConnectTx`, `ConnectBlock`
work on the batch; `Commit` makes it durable and then changes `pnext`; `ResurrectTx`
and `DeleteTx` are the pool's part of `Reorganize`; `ConnectFurther` is the loop over
the postponed blocks; `NewBest` the assignments at the end. `Crash` may happen
between any two of them, and `LoadBlockIndex` follows. A step does at most one commit,
because the commits are the points a crash can tell apart; the steps between them
are small so that a crash, or a failing transaction or block, can end the work anywhere.

**TrustedChain** is the abstract specification: the best chain moves in one step to a
valid chain with more trust.

**OrphanBlocks** is `ProcessBlock`. What `AcceptBlock` does with a block is ChainState's
subject and is reduced to its three outcomes: accepted, rejected (not indexed),
failed (indexed, but `SetBestChain` returned false, so `AcceptBlock` does as well). A block
above one that does not connect can be rejected or fail, not be accepted (`Unconnectable`).
The blocks come from one peer, after the initial download. Of the two ways to ask it
for a missing ancestor, `CNode::AskFor` and the `getdata` that `SendMessages` makes of
it are modelled (`mapAskFor`, `setAskFor`, `SendGetData`); the answer to `getblocks`
may or may not bring a block, and is one more arrival.

**BlockDownload** is the queues of blocks to fetch. Its state is what `main.cpp` keeps
under `cs_main`: a `CNodeState` record for every peer (two lists, two counters, the
time of the last block, the score), the maps from blocks to peers, and the peer whose
`SendMessages` is at work. `InitializeNode` and `FinalizeNode` begin and end a peer;
`Inv`, `BlockReceived` and `OtherMessage` are `ProcessMessage`; `SendMessages` drops
a misbehaving or stalling peer or goes on to `RequestBlock`, one round of the `getdata`
loop, which another thread may cut short by `Disconnect`. The code compares times
only with the peer's last message, so a time has three values: `young`, `old` (the
limit has passed) and `overdue` (and a message has come since). Whether the node
already has a block is left open. The maps hold an iterator into a list; here it is the
position of the block in it, by which the code erases. An identifier of a peer is used again once
`FinalizeNode` has removed every trace of it; that it has is `DownloadMapsAgree`.

**NodeCaches** runs ChainState with three caches beside it. Only `NewBest` knows of one of
them: it clears `pblockindexFBBHLast`. `QueryByHeight` is RPC and wallet asking for a block
under `cs_main`. `GetBlockHash` runs in threads that do not hold it and reads `pindexBest` again
and again (floatingcity.cpp:31-47), so it is two steps of a `Thread`: `GetBlockHash` reads
the height and `BlockReading`, `CacheBlockHash` computes `nBlocksAgo` from what `pindexBest`
is by then, walks down and enters the hash. Any step of `SetBestChain` may come between.
`StartConnect` is the beginning of `ConnectBlock`: the size test of `CheckBlock` with the
limit of the moment, then the new limit from the window of sizes, which stays changed even
if the block fails afterwards. `GetBlockSize`, from which the window is filled, is 0 for every
block: it reads `blocks/blkNNNNN.dat`, and blocks are written to `blkNNNN.dat`. Three
history variables (`disturbed`, `overtaken`, `limited`) say under which past the
properties hold; nothing else reads them.

**OrphanTx** and **InstantX** are, like MemPool, values and operators on them: the two maps
of the orphan transactions; the five maps of the transaction locks. **TxRelay** is the node
that moves them. `ReceiveTx`, `RetryOrphan` and `NextWork` are the `tx` and `dstx` handlers,
`TxLockRequest` and `TxLockVote` those of `txlreq` and `txlvote`, `WalletLockRequest` is the
wallet's own request, `LockExpires` and `CleanLocks` time and the thread that removes
old locks, `ConnectBlock` a block with `CheckBlock`'s test of the locks. The chain only
grows and its index is computed from it: that a node keeps such an index is what
ChainState shows. Signatures, the ranks of floatingcities and `IsIXTXValid` are left
open, in favour of acceptance or of refusal. Where the code would go on with a pointer
it never set, and write to a database it opened for reading (`DisconnectBlock` for a
request that was rejected, instantx.cpp:119 and 391), the process ends and starts with
empty maps; it is the one place where these maps are reset.

**AddrMan** is `CAddrMan` and `peers.dat`. `Add`, `Good` and `GetAddr` are the operations that
change the tables; whatever the code draws at random or weighs by times is any
choice. `Restart` writes and reads `peers.dat` by what the serialiser does: the new
entries are renumbered by their place among the new ones, tried buckets are built anew.

`PROJECT.json` maps each definition to its lines. Operators whose name ends in
`Fault` are mutated forms of their neighbour: with one in the neighbour's place a
property of the runs must fail. They are not part of any specification.

## 3. Runs

| Run | Specification | Checks | Result |
|---|---|---|---|
| `chain` | `FairNodeSpec` | TypeOK, TxIndexMatchesChain, BestChainValid, MemoryMatchesDisk, MostTrustWins, PoolSpendsIndexed, PoolUnconfirmed, RefinesTrustedChain, ValidChainsAdopted | hold |
| `postponed` | `Spec` | MemoryMatchesDisk | violated |
| `resurrect` | `NodeSpec` | DisconnectedResurrected | violated |
| `stakeage` | `NodeSpec` | StakesAged | violated |
| `orphans` | `FairSpec` | TypeOK, OrphanMapsAgree, OrphanStakesHeld, NoneLeftBehind, UnprunedResolved | hold |
| `askagain` | `FairSpec` | OrphansResolved | violated |
| `download` | `FairSpec` | TypeOK, DownloadMapsAgree, OneRequest, DownloadsEnd | hold |
| `caches` | `CacheSpec` | FindsBestChain, HashesOfBestChain, TxIndexMatchesChain, MemoryMatchesDisk | hold |
| `limit` | `CacheSpec` | LimitFollowsMedian | violated |
| `relay` | `FairSpec` | TypeOK, OrphanTxsKept, AcceptedLocksAgreed, CompleteLocksRequested, PoolRespectsLocks, AcceptedLocksReleased | hold |
| `locks` | `Spec` | LocksAgreed | violated |
| `addrman` | `Spec` | TypeOK, RefCountsMatch, CountersMatch, IndexesMatch, BucketsBounded, ReadsWhatWasWritten, ForgetsForOthers | hold |

*Bounds.* `chain`: two branches over a common block, forks of them, one block with a
double spend and one that spends immature coins, loose transactions that are confirmed
on one branch, on both, or on none. The tree is deep enough that a reorganisation
disconnects and connects more than one block, postpones others, and fails in its
first transaction. Blocks arrive in every order that parents allow.
`orphans`: seven blocks above the genesis block, a pool limit of two, two blocks
with one stake, one block that may be rejected, one that does not connect and one above it: the
limit is reached, both stakes meet in the pool and in the index, and a rejected and
a failed block occur in the middle of the work queue. `download`: two connections that
come and go any number of times, two blocks, two requests allowed per peer and one
place in its queue, so that a block is asked of the other peer after the first has
left, answers come from a peer that was not asked, the second announcement reaches
the ban score (one peer is local and is not banned), and one of two requests is
withheld. `caches`: a fork of one
block against three, so that a reorganisation postpones blocks, and a block that is too large
for the limit; every other block connects. The process may end once, at any point, and
restarts after any move back that `LoadBlockIndex` may make. One thread asks for hashes, and a
query precedes and follows each reorganisation. The window has three blocks in place of 25, so
that it is filled, slides, and is filled again after the restart. `limit`: the same without
restarts. `relay`:
two transactions that spend the same output and a child of one of them, a block
that confirms the parent, two floatingcities of which both must vote, one vote for a
height that is not that of the lock, and place for one orphan: both locks can
complete, conflict, expire, be asked for again, and be contradicted by the block.
`addrman`: three hosts, one with two ports, heard of from three sources; every bucket holds
one entry, so that each arrival may evict, and an address may be in two of three
new buckets. Numbers of entries are used again (the least free one), which keeps
the state space finite; only their order could matter, in `peers.dat`.

Deadlock is not checked in the chain runs: once every block of the instance is
indexed and the pool is full, nothing is left to happen. `OrphanBlocks` can always
refuse one more message and `BlockDownload` always connect or hear one more peer;
their runs are checked for deadlock, and so is `addrman`. In `relay` and `locks` a message
that was seen before changes nothing, and the blocks run out, as in `caches`.

*Fairness.* `FairNodeSpec` assumes that `SetBestChain` goes on: it runs in the thread
that holds `cs_main` and waits for nobody. `FairSpec` of OrphanBlocks assumes the
same of `ProcessBlock`'s loop, and that a block a peer was asked for arrives in the
end. The second is an assumption about the one peer of that model, and a generous
one: `OrphansResolved` fails in spite of it. `FairSpec` of BlockDownload assumes
nothing of the sort. Time passes (weak fairness); a thread that again and again waits
for `cs_main` gets it (strong fairness of `SendMessages` and `FinalizeNode`, since a
step of another peer disables both for a while); the socket thread drops a peer from
which nothing comes. Of a peer only this is taken for granted: a socket that has
input has a complete message in the end. `FairSpec` of TxRelay assumes that time passes
(a lock that stays grows old) and that `ThreadCheckMNenginePool` goes on calling
`CleanTransactionLocksList`, once a minute (fcengine.cpp:1214-1219); nothing of any message.

*Violations.* Each states what a comment of the code says; `findings` in
`PROJECT.json` quotes it.

* `postponed`: when a postponed block fails, `SetBestChain` still makes it
  `pindexBest`. In a run without a crash a reorganisation that postpones blocks never
  commits: a block below `pindexNew` with more trust than the best chain has been tried
  before and did not connect (`RejectInv` of the proof). After a crash between the
  commit of an index record and `SetBestChain`, such a block may never have been tried.
* `resurrect`: of a chain of disconnected loose transactions only the first comes
  back, since `AcceptToMemoryPool` looks for inputs in the index alone. The same look-up defeats
  the loop of the `tx` handler that is to "Recursively process any orphan transactions that
  depended on this one" (main.cpp:4043): the parent is in the pool and not in the index,
  and "accepted orphan tx" (main.cpp:4059) is never reached. That is a theorem
  (`RetryAddsNothing`). An orphan that does not miss inputs then is erased; the others
  wait to be evicted.
* `stakeage`: the stake's age is judged by the index of the best chain, which may not
  be the branch of the block.
* `askagain`: an orphan is pruned between the request for its ancestor, refused for
  its stake, and the answer, which is therefore refused once more. When the orphan
  comes back nothing asks again: `setAskFor` keeps the hash of every request that was sent; the
  `tx` handler erases from it, and `SendMessages` if the block came by itself before. `UnprunedResolved` is what holds.
* `locks`: a request the pool rejects enters its inputs in `mapLockedInputs` at once, with
  no vote; the pool and `CheckBlock` refuse other spenders of them from then on, and
  nothing releases them. `AcceptedLocksAgreed` and `AcceptedLocksReleased` are what
  holds, of the requests that were accepted.
* `limit`: `MAX_BLOCK_SIZE` does not follow the median of the last sizes. `GetBlockSize` opens
  `blocks/blk%05u.dat` (main.cpp:4311-4313), a file the node makes empty and never writes;
  blocks go to `blk%04u.dat` in the data directory (main.cpp:3124-3128). All sizes are read
  as 0, and the limit is `MIN_BLOCK_SIZE` from the first block on (`LimitNeverAdapts`).

More differences were met and have no run of their own.

* "Keep at most <n> unconnectable blocks in memory" (init.cpp:269): the orphan pool may hold
  `-maxorphanblocks` + 1, since `ProcessBlock` prunes before it adds (theorem
  `OrphansAlwaysBounded`), and an orphan whose parent was indexed but did not connect stays in it
  (`NoneLeftBehind` states what holds).
* "Duplicate stake allowed only when there is orphan child block" (main.cpp:2926-2927):
  `setStakeSeenOrphan` is a set in which two orphans may share an entry; when one of them
  goes, a third with that stake is let in without a child.
* The test for stalled peers speaks of all requests of a peer but looks at the oldest, and
  at the time of the last block it delivered, so that a peer that goes on answering
  others can withhold one block (`DownloadsEnd` states what holds).
* `GetBlockHash` takes `nBlocksAgo` from another `pindexBest` than `BlockReading` if the tip moves
  between lines 42 and 47 of floatingcity.cpp. It then caches, for good, the hash of a block
  further down than other nodes use. `HashesOfBestChain` claims the right block only of a
  node in which that never happened (`~ overtaken`).
* The cached hashes are not corrected when blocks are disconnected (`disturbed` in
  `HashesOfBestChain`).
* `sorted` is set by the first call of `GetMedianBlockSize`, when the window may be empty, and
  a window filled later is not sorted. With every size read as 0 it makes no difference.
* `MAX_BLOCK_SIZE` is a `static` variable in a header (main.h:36), so each source file has its
  own: `ConnectBlock` changes that of main.cpp, and miner.cpp keeps the initial one.
* If all votes come before the request, the lock is complete when the request is accepted but
  nothing locks its inputs: only the arrival of one more vote does. A floatingcity's own
  vote enters `mapTxLockVote` but not its lock.
* A lock that only votes knew of expires alone; its votes stay in `mapTxLockVote`, where
  they keep the same votes from being counted again.
* A rejected request with enough votes cancels an accepted lock on the same input.
* `SelectTried` returns the position its oldest entry was swapped away from, so that
  another entry of the bucket is evicted. No table is damaged by it.

## 4. Proofs

All from the assumptions `TreeAssumption` (BlockTree: blocks form a tree, trust
grows along it, transactions of a block are distinct), and the types of the
constants of each component (`TxAssumption`, `OrphanAssumption`, `DownloadAssumption`,
`RelayAssumption`, `CacheAssumption`...); TLC evaluates each on every run.

**TxIndex_proofs.** `Branch[b]` is a path (`BranchIsPath`, `BranchOrder`). Connecting the
next transaction of a chain turns the index of its first *n* transactions into that of
the first *n+1*, and keeps the chain valid exactly if `InputsConnect` holds;
disconnecting its last block turns the index of the chain into that of the
parent's, and `CanDisconnect` never fails on it. So an index kept by ConnectInputs
and DisconnectInputs alone decides validity as the reference does.

**MemPool_proofs.** Admission and removal keep `mapNextTx` in step with `mapTx`.

**ChainState_proofs.** For a node whose process does not end (`NodeSpec`):

* `TypeCorrect`, `IndexCorrect`, `ChainValid`, `MemoryFollowsDisk`, `TrustWins`,
  `PoolHasUnconfirmed`: the safety invariants of the run `chain`, for every tree;
* `Refinement`: the node implements `TrustedChain`.

None of them is inductive as it stands. The inductive invariant `IInv` (`Invariant`) adds:

* `DbInv`: the committed index is that of the committed chain, which is valid;
* `BatchInv`: in the middle of an update, the batch is the index of the chain to
  `cursor` plus `nTx` transactions, and that piece is valid. Needed for `DbInv` at the
  commit;
* `BestInv`, `TargetInv`: where `pindexBest`, `dbBest`, `cursor`, `target` and
  `pindexNew` lie relative to each other at each value of `pc`, and which links
  memory and the batch have;
* `RejectInv`: an indexed block with more trust than the best chain either is the
  one being worked on or does not end a valid chain. It gives `MostTrustWins`, and it
  is why a transaction that commits always ends in `pindexNew`, so that `NewBest` is
  right to assign it.

`PoolHasUnconfirmed` needs `UnconfirmedInv` beside it: in the middle of an update, a
transaction of the pool that the new chain has is still in `vDelete`.

With crashes (`Spec`):

* `PoolCorrect`: the maps of the pool agree in every state;
* `IndexSurvivesCrashes` and `MemorySurvivesCrashes`: `TxIndexMatchesChain` and
  `MemoryMatchesDisk` wherever the process ends and however often, under the condition
  `PostponedConnect` on the steps: no postponed block fails. The run `postponed` shows that
  the second theorem is false without it;
* `ValidTreeSurvivesCrashes`: the condition holds of itself where every chain is valid, so
  there the two properties need none. The run `caches` has such a tree, with the size limit added.

`RejectInv` is false after a crash (a block may be indexed and never tried), and so a commit
may be for a block below `pindexNew`. `RestartInv` (`RestartInductive`) does without it:
`DbRight` keeps index, links and validity of the committed chain at every `pc`, with
memory's links as long as the process runs; `BestRight` says who is `dbBest` meanwhile:
`pindexBest` until the first commit, `target` after each, `pindexNew` at the end; `TargetRight`
that a postponed block is the child of the committed one.

**NodeCaches_proofs.** For every tree, sizes, limits and threads, with crashes (`CacheSpec`). Of the
constants, `CacheAssumption` asks that no block but the first is without transactions
(`CheckBlock`, `main.cpp:2461`): one without any would never reach the first half of
`ConnectBlock` in the model.

* `BlocksFoundByHeight`: where `pnext` links the best chain, `FindBlockByHeight` finds its
  blocks. `Upward` follows `pnext` through the ancestors by height and then falls off
  (`UpwardLeads`); the last answer is on the best chain (`LastInv`), because only `NewBest`
  moves `pindexBest` and it forgets the answer. `LastInv` has to speak of the time before the
  commit only: afterwards `pnext` is that of the new chain and `pindexBest` that of the old,
  and a walk in `ComputeBlockSize` may leave an answer on neither;
* `BlocksAlwaysFound`: `FindsBestChain` itself, if no postponed block fails (`RestartInv`
  again, with the size limit as one more reason to abort);
* `CachedHashesOfBestChain`: `HashesOfBestChain`, with its condition. `HashInv` says that while
  nothing was disconnected `SetBestChain` extends the best chain, so that a `BlockReading` of
  some time ago is still on it and what was cached stays right; that `pindexBest` has only
  grown since, so that `nBlocksAgo` leads to a block below the height asked for; and
  that, if it was not assigned since, `BlockReading` is `pindexBest` and the block is the
  one just below;
* `LinksStayOnChain`: what a failed postponed block leaves behind are links of `pnext` and
  `hashNext` that are missing, never ones that lead out of the committed best chain. `LinkInv`
  says it of memory, database and batch (`OnChain`: no link leaves the chain, some may be
  missing), and `PlaceInv` says where `dbBest` is meanwhile, which makes it inductive over all
  steps (`LinksInductive`), restarts after a failed postponed block included;
* `LimitNeverAdapts`: once computed, `MAX_BLOCK_SIZE` is `MIN_BLOCK_SIZE`. `LimitInv` says that the
  window holds zeros only. A window of zeros has at most one order, so sorting keeps it
  (`ZerosSorted`), sliding takes out a zero and puts one in, and twice a median of 0 is
  below the minimum.

**OrphanBlocks_proofs.** `OrphansTyped`, `OrphanMapsAlwaysAgree`, `OrphansAlwaysBounded`,
`OrphanStakesAlwaysHeld`, `NoneEverLeftBehind`: the safety invariants of the run `orphans` for
every tree, limit and set of stakes, and the bound that takes the place of the documented one. `OrphanInv` (`OrphansInductive`) says what holds inside
`ProcessBlock`: `mapOrphanBlocksByPrev` has more than `mapOrphanBlocks` only for the front of
the work queue (`LeftoversOfHead`), an orphan with an indexed parent waits for a block of the
queue or for one that does not connect (`WillBeProcessed`), and the bound is that of the larger
map (`ByPrevBounded`).

**BlockDownload_proofs.** `DownloadTyped`, `DownloadMapsAlwaysAgree`, `AlwaysOneRequest`. The three
are inductive together (`DownloadInductive`): a block can be appended to a list because
`OneRequest` and the maps say that it is in none, and a counter is positive when it goes down
because the list it counts is not empty. The lemmas are about lists without duplicates:
appending, and erasing by position.

**TxRelay_proofs.** For every chain, set of transactions, votes and limits, from the
assumptions above and those of OrphanTx and InstantX:

* `OrphanTxsCorrect`: the two maps of the orphans agree and are bounded. Adding,
  erasing a set and evicting each keep the agreement (lemmas on the operators);
* `RetryAddsNothing`: the retry loop leaves the pool alone. Its invariant says that every
  transaction of the work queue is unconfirmed and that the orphans' index has only
  true entries; an orphan that is tried therefore spends a transaction that is not in
  the index, and `Acceptable` is false of it. Since nothing is accepted, nothing
  joins the queue, and no block comes while it is not empty;
* `CompleteLocksKnown`: a lock whose height is set belongs to a request that was seen.
  This is stronger than `CompleteLocksRequested` and inductive: `CreateNewLock` is called only
  for a request, and `CleanTransactionLocksList` takes the lock along with the request.

* `AcceptedLocksAlwaysAgreed`, `PoolAlwaysRespectsLocks`, `RelayTyped`. Their invariant
  `RelayInv`: a lock has at most one vote of a floatingcity (`VotesOnce`), so that enough votes
  are votes of enough of them; a locked input belongs to its transaction, whose request was
  seen and, unless rejected, whose lock is complete (`LocksKnown`); and an accepted request
  is in the pool or in the chain, and nothing else in the pool spends its inputs
  (`RequestsHeld`). A vote never moves a lock to another height, and one more vote never
  lowers the count (`CountedGrows`).

**AddrMan_proofs.** For every set of addresses and sources and all numbers and sizes of
buckets. Assumed of the constants: the new buckets are finitely many natural numbers, both
hash functions give a bucket for every argument, the sizes and the limit on references are
positive, the two limits of `GetAddr_` are natural numbers, and `None` is not a number. Every property of the run
`addrman` follows from one invariant, `Consistent` (`ManagerStaysConsistent`), whose parts are

* `Indexed`: `mapAddr` and `vRandom` lead to the entries *and back*. `IndexesMatch` says only
  that each entry is at its place; that each place has its entry is what keeps the last
  position apart from the deleted one in `Delete`, and two positions apart in `SwapRandom`;
* `NewPlaced`, `TriedPlaced`, `Counted`: the reference count of an entry is the number of new
  buckets that hold it, a tried entry has one position of one bucket, the counters count
  the entries of each kind;
* `NewBounded`, `TriedBounded`: the limits on buckets and on references.

`Add_` creates an entry that is in no bucket yet, raises the count, shrinks the bucket and only
then puts the entry in. `AlmostPlaced` is what holds when it comes to the bucket (the entry at
work is not tried, and counts as new even while it is in no bucket), and `TakesPlace` is the
whole effect from there: at most one entry of that bucket goes, never the one at work, because
it is not in it. In `MakeTried` the bucket `nOrigin` has place for the evicted
entry because `nId` has just left it, which is the argument of the code's comment. `GetAddr_`
and the reading of `peers.dat` are loops, written as functions on `0..n`; that such a
function exists, and that an invariant of its steps holds to the end, is shown by looking at the
least number where it would fail (`LeastNatural`), since the library's induction theorems cannot
be used.

`AlwaysReadsWhatWasWritten` needs what the serialiser leaves out. The entries of a kind are
written in the order of their nIds, so the entry read at place i is the one with i - 1 of its
kind below it (`Rank`, `NthId`, and `Origin` from the new numbers to the old, shown to be one
to one); `mapUnkIds` gives the same number, so buckets of indices become buckets of the same
entries. No tried entry is lost, because those read so far for a bucket are some of those that
were in it, and it was not over its limit. No reference is dropped, because no entry had more
than its limit. The manager read is therefore consistent again, which makes `Restart` a
step like the others.

*Only model-checked:*

* the liveness properties `ValidChainsAdopted`, `UnprunedResolved`, `DownloadsEnd` and
  `AcceptedLocksReleased`, which are out of the prover's reach;
* `MostTrustWins`, `PoolUnconfirmed` and the refinement where the process may end: there they
  are not claimed (a block that was indexed before a crash may never be tried).

## 5. Not modelled

Failures of the storage (a write or `TxnCommit` that returns false); amounts, rewards
and fees; kernel hashes and stake modifiers; the address index; scripts, signatures
and encodings; the wallet's callbacks; and the components marked `not_modelled` in
`PROJECT.json`, each with its reason. Within the modelled parts:

* InstantX: `mapUnknownVotes` (it only decides what is relayed), signatures and ranks;
  `CleanTransactionLocksList` runs beside the handlers without a lock, and is one step
  here: what the race on the maps themselves may do is undefined in C++ and not modelled.
  Reorganisations do not meet locks: in TxRelay the chain only grows.
* Orphan transactions: the limit of 5000 bytes each; the allowance of free transactions
  per floatingcity (`dstx`).
* Caches: heights below zero in `GetBlockHash` (payments ask for `nBlockHeight - 576`, below zero on
  a short chain); what the race of its threads on the `std::map` itself may do, which is undefined;
  a tip that moves back between the test of the height and the assertion after it, which ends
  the process as any `Crash` does; loose transactions, which no cache reads; what lies before
  the data in the empty files `GetBlockSize` opens.
* Address manager: times, attempts, services; `Select_` changes nothing and is not an
  action, what it needs is `CountersMatch`; a change of the number of buckets between
  two versions.

## 6. Plan

1. *Done:* BlockTree, TxIndex, MemPool, ChainState, TrustedChain, OrphanBlocks, BlockDownload;
   proofs of the chain.
2. *Done:* NodeCaches, OrphanTx, InstantX, TxRelay, AddrMan; proofs of the orphan
   transactions and of the requests behind complete locks.
3. *Done:* proofs of the transaction locks, the orphan blocks, the download queues, the caches
   by height and of hashes, of the chain with crashes and its links, of the address manager with
   `peers.dat`, and of the block size limit that never adapts.
4. Floatingcity states and payments; the retarget and velocity as operators against
   their limits; `mruset` and `limitedmap` against bounded sets and maps.
5. OrphanBlocks composed with ChainState, so that the outcomes of `AcceptBlock` are
   computed and not chosen.
