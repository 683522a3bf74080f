# TLA+ models of the TomoX order-book dump and the ethapi backends

This directory holds the TLA+ specifications of the code under `src/`, the TLC
configurations that check them, and `PROJECT.json`, which lists every run, the
source lines each definition models, the findings and the hazards.

## 1. The system

| Part | Source | What it is |
|---|---|---|
| Order-book dump | `src/tomox/tomox_state/dump.go` | `DumpAskTrie` and `DumpBidTrie` of `TomoXStateDB`: walk one side of an order book and answer a map price -> (aggregate volume, order id -> volume). |
| Order-book store | not under `src/`, described by `spec.md` | An exchange object per order book; two side tries (asks, bids) from hashed price to an order list (aggregate `Volume`, `Root` of the order trie); order tries from hashed order id to volume; a preimage registry from hashed key back to the number. |
| Ordered trie | `src/tomox/tomox_state/tomox_trie_test.go` (its test) | `TryUpdate`, `TryDelete`, best-left and best-right search. |
| `OrderDao` | `src/tomox/interfaces.go` | The storage interface of TomoX: an interface only. |
| `EthApiBackend` | `src/les/api_backend.go`, lines 322-696 | The ethapi backend of a full node: chain access, `SetHead`, pools, PoSV queries (`GetVotersRewards`, `GetVotersCap`, `GetMasternodesCap`, `GetEpochDuration`), `GetOrderNonce`, `GetRewardByHash`. |
| `LesApiBackend` | `src/les/api_backend.go`, lines 47-269 | The same interface for a light client: headers and blocks retrieved on demand, a relay pool, stubs for the PoSV and TomoX queries. |

How the parts interact. Orders change a book through the store's write path,
which keeps the aggregate volume of each price level, deletes a level whose
volume reached zero and registers the preimage of every key it hashes. The
dump reads the tries back and needs the registry to turn hashed keys into
prices and order ids. The backends serve RPC requests, each on a goroutine of
its own, against a chain that the miner and the downloader extend and that
`SetHead` rewinds; they share nothing with one another but that chain, the
pools and the files of the reward folder, which the consensus engine writes.
`GetOrderNonce` is the one handler of the backend that reaches the TomoX
state.

What makes it hard:

* the dump trusts the registry and the stored encoding: a missing preimage or
  an undecodable level must not produce a wrong but well-formed answer;
* the dump walks tries with iterators that end the same way at the end of a
  trie and at a node the database cannot load, and tells the two apart only
  by a field the caller has to read;
* the PoSV queries compute block numbers with unsigned subtraction and read
  the chain several times per request, while `SetHead` runs between the reads;
* the guards of `GetVotersRewards` come after the first use of what they guard;
* `log.Crit` ends the process: an error inside a read-only request stops the node;
* reward files are written in place while requests read them, and stay in
  the folder when `SetHead` removes their block;
* receipts and logs are read in two steps (the number of a hash, then the
  receipts under that number) while `SetHead` removes blocks;
* the best price of a side has to be found among hashed keys, whose order is
  not the order of the prices;
* a light client answers from retrievals that time out or fail, and holds a
  header across the wait for the body that belongs to it.

## 2. Modules

| Module | Models | State | Actions |
|---|---|---|---|
| `TomoxState` | the store, its dump and its best-price queries | `exchanges` (order book -> side -> trie), `preimage` (registry), `reply` (the read being returned) | `UpsertOrder`, `RemoveOrder` (from `spec.md` 4.4), `Dump` (= `DumpAskTrie` or `DumpBidTrie`), `BestPrice` (= `bestAsk` or `bestBid` of `spec.md` 6), `Return`, the faults of the environment `LosePreimages`, `CorruptLevel`, `DumpUnreadable` (a dump over a database that cannot load one trie) |
| `OrderBookSpec` | what the store promises (`spec.md` 4.4, 4.5, 6) | `books` (order book -> side -> resting orders), `answer` (the read being returned) | `Write` (place or cancel one order), `Dump`, `Best`, `Return` |
| `MCTomoxState` | constants for TLC | | |
| `EthApiBackend` | chain access and PoSV queries of `EthApiBackend` | `head`, `syncing`, `alive`, `tomox`, `posv`, `call` (per goroutine: handler, step, argument, locals, answer) | `SetHeadCancel`, `SetHeadRewind`, `HeaderByNumberCall`, `BlockByNumberCall`, `StateAndHeaderByNumberCall`, `GetVotersCap`, `GetMasternodesCap`, `GetOrderNonce`, `VotersRewardsStart/Checkpoint/Signers`, `EpochDurationStart/Last/SecondToLast`, `Return`, environment `InsertBlock`, `StartSync`, and `Stopped` (a node that exited does nothing more) |
| `MCEthApiBackend` | constants and symmetry for TLC | | |
| `LesApiBackend` | the light backend: chain access over retrievals on demand, `SetHead`, relay pool, reward folder, accessors, stubs | `head`, `syncing`, `pending` (relay pool), `files` (reward folder), `call` (per goroutine: handler, step, argument, the hash waited for, answer) | `Lookup` (entry of `HeaderByNumber`, `BlockByNumber`, `StateAndHeaderByNumber`), `HeaderRetrieved`, `GetBlock`, `GetReceipts`, `GetLogs`, `GetPoolNonce`, `SuggestPrice`, `Retrieval`, `CurrentBlock`, `GetTd`, `SetHeadCancel`, `SetHeadRewind`, `SendTx`, `SendOrderTx`, `RemoveTx`, the pool queries, `Accessor`, `ChainConfig`, `GetEngine`, `BloomStatus`, `GetIPCClient`, `Stub`, `GetRewardByHash`, `ReadFallback`, `Return`, environment `InsertBlock`, `StartSync`, `OpenFile`, `WriteFile` |
| `MCLesApiBackend` | constants and symmetry for TLC | | |
| `EthApiStores` | the handlers of `EthApiBackend` that answer from the chain database by hash, the pools, the reward folder and the backend's fields; composed with the chain of `EthApiBackend` by `INSTANCE` | `head`, `syncing`, `alive`, `tomox`, `posv`, `call` (those of `EthApiBackend`), `pending`, `queued` (transaction pool), `orders` (order pool), `files` (reward folder) | `GetBlock`, `GetTd`, `ReceiptsNumber`, `ReceiptsRead` (`GetReceipts`, `GetLogs`), `GetEVM`, `GetBlocksHashCache`, `AreTwoBlockSamePath`, `SendTx`, `SendOrderTx`, the pool queries, `Accessor`, `ChainConfig`, `GetEngine`, `SuggestPrice`, `BloomStatus`, `GetIPCClient`, `GetRewardByHash`, `ReadFallback`, and of `EthApiBackend` `SetHeadCancel`, `SetHeadRewind`, `Return`; environment `InsertBlock`, `StartSync`, `Promote`, `TakeOrder`, `OpenFile`, `WriteFile` |
| `MCEthApiStores` | constants and symmetry for TLC | | |
| `RewardFiles` | what one read of the reward folder and one decoding give (`GetRewardByHash` of both backends) | none: operators over the folder | `ReadFile`, `Unmarshal` |

### Correspondence with the code

`TomoxState`. A trie is a function from hashed keys to values; `Hash(n)` is
the storage key of number `n` and is not a number, so the dump can only get a
price back through `GetKey`. `SetBytes` is `big.Int.SetBytes`: the bytes of a
number give the number, no bytes give 0. `DumpTrie` is the body shared by the
two dumps (`dump.go` 38-55): any undecodable level among those the iterator
yields makes the whole call fail with no result; otherwise every level
yielded is answered with its stored aggregate and the orders yielded for it.
What the iterators yield is `Yielded(trie, loads)`, where `loads` says which
tries the database can load. A trie iterator of go-ethereum returns false
from `Next` at the end of the trie and at a node that cannot be loaded, and
keeps the error in its `Err` field; the loops of lines 40 and 50 are
`for it.Next()` and nothing reads `Err`, and `getAsksTrie`, `getBidsTrie` and
`getTrie` return a trie and no error. `Dump` is the dump over a database that
loads everything (`Sound`); `DumpUnreadable` is the dump over one that cannot
open one trie of the side (`Unopened`): the side trie itself, or the order
trie of one level. `reply.iterErr` is the `Err` the code leaves unread: the
caller of the Go function cannot see it, and the refinement mapping leaves it
out. The result is a function of the *storage key*, with the
resolved price inside the entry, because the Go maps are keyed by pointer:
entries never merge, whatever price they resolve to. The write path is not
under `src/`; it is modelled from `spec.md` and marked `spec_modelled` in the
map. Calls are sequential (`reply = Nil` guards every write and every read),
as `spec.md` section 5 prescribes for one state version. The best-left and
best-right searches are `Traverse`, a recursive walk over the keys of a trie
that keeps the key whose number, as the registry gives it, lies furthest to
the end asked for; `bestPrice` takes the left end for asks and the right end
for bids, answers an explicit absence for an empty side, and fails with
`CorruptState` when a key has no preimage or the best level does not decode
(`spec.md` 4.1, 4.4, 7). The searches themselves are outside `src/`; the test
under `src/` calls them after `TryUpdate` and `TryDelete` and prints what
they answer.

`EthApiBackend`. The canonical chain is its head number: block `n` is on the
chain iff `n <= head`, and `GetBlockByNumber` answers nil above it. Block
numbers are `uint64` in the source and `Width` bits wide in the model; `Sub` is
the machine's subtraction. A handler that calls the chain more than once is
one action per call, with its locals in `call[c]`; handlers that call it once
are one action. An answer is `ok`, `nil`, `error`, `panic` (a method called on
a nil block, or the type assertion of line 558 on an engine that is not
PoSV) or `exit` (`log.Crit`, after which the node is down and only `Stopped`
stutters; what a restart finds is an initial state, since the node starts
with any head). `posv` is chosen when the node starts and never changes: a
node runs PoSV, with `ChainConfig().Posv` set and a `*posv.Posv` engine, or
it does not, and then `GetVotersRewards` and `GetEpochDuration` panic at
lines 558 and 645. What the contracts package and the state database compute is
outside `src/`: the signers of a checkpoint and the failure of a computation
are chosen nondeterministically. Block times are `number * BlockPeriod`.

`OrderBookSpec` and the refinement. The abstract book of one side is a
function from (price, order id) to a remaining volume above zero; a snapshot
groups it by price and sums each group. It knows no tries, no hashes, no
stored aggregate and no registry. `TomoxState` instantiates it with
`books <- ` the orders its side tries hold (`RestingOrders`, read through
`VolumeOf`) and `answer <- ` the dump as a caller reads it (`AsRead`: the
entries of the pointer-keyed Go map under the prices and order ids they
carry), or the best price as a caller reads it (`BestAsRead`).
`ImplementsOrderBook` is the abstract specification under that mapping; it is
checked of `SpecReliable`, the store without loss of the registry, without
damaged levels and without unreadable tries, since the abstract book has no
such faults and the store's answer to them is the subject of `book`,
`dump_preimage_miss` and `dump_iterator_error`.

`LesApiBackend`. The light chain is its head number and a hash is the number
of its block. A handler that needs the network stops at `pc = "header"` or
`pc = "odr"`, and the retrieval ends in a later step with the value or an
error; a header the chain stores is answered at once. What the `light`
package delivers is assumed (see below). `txPool.Add` refuses a transaction it already holds and
one that does not validate; `pending` is what it accepted and no block has
mined. The eight handlers of lines 235-269 answer constants (`Stubs`).
`BloomIndexerSet` is the nil test of line 191; the runs take the indexer to be
set, and the branch for a missing one answers (0, 0). `GetRewardByHash` is
one action up to the first file, guarded by the header lookup of lines
212-213 (`KnownHeader`: the light chain answers a header by hash from what it
stores, with no retrieval), and `ReadFallback` is the read of the second
file. A light client computes no rewards itself; the folder is shared with
whatever process does, so files appear and are rewritten at any time
(`OpenFile`, `WriteFile`), and nothing removes them.

`RewardFiles`. A file is missing, partial (created or truncated and not yet
filled) or written. `ReadFile` fails on a missing file only; `Unmarshal` fails
on a partial one. The module has no state: the folder is a variable of
`EthApiStores` and of `LesApiBackend`.

`EthApiStores`. The chain is that of `EthApiBackend`, instantiated with the
same variables, so `SetHead`, the arrival of blocks and the bookkeeping of a
request are the definitions of that module and not copies of them; the PoSV
queries are left to `EthApiBackend`, `alive` stays true because no handler
here reaches `log.Crit`, and `posv` because none asks the engine for its kind. A hash is the number of its block and hash
`MaxHead + 1` names no block. `GetReceipts` and `GetLogs` are two reads of the
chain database, `core.GetBlockNumber` and then `core.GetBlockReceipts`, and
two actions, with the number read kept in `call[c]`; an unknown hash has the
number `MissingNumber`. What the second read answers is assumed (see
below), and no property is stated about it.
`GetRewardByHash` is one action up to the first file
and `ReadFallback` the read of the second. The pools are sets. Of
`core.TxPool` and the order pool, which are outside `src/`, the model assumes
that `AddLocal` refuses what the pool holds and may refuse anything else, that
an accepted transaction is pending or queued, that `Pending()` may fail, and
that between requests a block mines pending transactions, a queued one
becomes pending and the matching engine takes orders. `GetBlocksHashCache`
answers the hash cached for a number or nothing; `AreTwoBlockSamePath`
answers true for two blocks the database holds.

### Assumptions about code outside `src/`

The handlers call into packages the repository does not hold. The modules
give each call a definition, which is an assumption and not a translation;
these definitions are not in the map, and the properties are about what
the handlers do with what the calls give them.

| Definition | Call | Assumed |
|---|---|---|
| `EthApiBackend!Rewind`, `LesApiBackend!Rewind` | `blockchain.SetHead(number)`, lines 337 and 62 | the blocks above `number` leave the chain; a number above the head changes nothing |
| `EthApiStores!GetBlockReceipts` | `core.GetBlockReceipts`, lines 386 and 390 | receipts are found under the hash and the number of a block the database holds, and nil comes back otherwise |
| `LesApiBackend!Retrieved` | `GetHeaderByNumberOdr`, line 70 | a retrieval ends with the header of the number asked for or with an error, never with neither |
| `LesApiBackend!Served` | `GetBlock`, `GetBlockReceipts`, `GetBlockLogs` of package `light`, lines 90, 94, 98 | a body, receipts or logs are delivered only for a hash whose header the chain holds when the retrieval ends |
| `TomoxState!Yielded`, `DumpUnreadable` | `trie.Iterator.Next`, `dump.go` 40 and 50 | `Next` answers false at the end of the trie and at a node the database cannot load, and keeps the error in `Err` |
| `posv` | `GetEngine()`, `ChainConfig().Posv`, lines 558-560, 645 | the engine is a `*posv.Posv` exactly when the chain configuration has a `Posv` section |

## 3. Runs

| Run | Module / cfg | Expect | Shows |
|---|---|---|---|
| `book` | `MCTomoxState` / `TomoxState.cfg` | pass | `TypeOK`; `AggregateVolumeIsSum`; `NoEmptyLevel`; `DumpReplayReproducesBook` (a successful dump whose iterators ran to the end, with an intact registry, replayed as upserts into an empty trie, gives the stored side); `NoSnapshotOfDamagedSide` (a dump fails only on a damaged level, and one that read the whole side fails on every damaged level); `DumpKeepsEveryEntry` (a dump answers no level and no order that is not stored, cut short or not, and all of them when its iterators ran to the end); `BestPriceIsBestResting` (the best price answered is the lowest ask or the highest bid that rests, with the volume resting there, and the query fails exactly on an unresolvable key or a damaged best level) |
| `dump_preimage_miss` | `MCTomoxState` / `TomoxStateMiss.cfg` | violation | `DumpedPricesAreStored`: after the registry lost entries the dump answers price 0 without an error |
| `dump_iterator_error` | `MCTomoxState` / `TomoxStateIter.cfg` | violation | `SnapshotHoldsEveryLevel`: a dump whose iterator stopped at an unreadable trie answers what it had so far, with no error |
| `eth_backend` | `MCEthApiBackend` / `EthApiBackend.cfg` | pass | `TypeOK`; `RewardsOnlyForSettledCheckpoint`; `EpochDurationSpansOneEpoch` (the duration answered is taken between the last checkpoint before the head the request read and the checkpoint one epoch earlier, whatever the chain did between the reads) |
| `young_chain` | `MCEthApiBackend` / `EthYoungChain.cfg` | violation | `YoungChainQueryReturns`: unsigned wrap, then a nil block dereferenced before the guard |
| `sethead_race` | `MCEthApiBackend` / `EthSetHeadRace.cfg` | violation | `SettledChainQueryReturns`: `SetHead` between two reads of a reward query |
| `cap_query` | `MCEthApiBackend` / `EthCapQuery.cfg` | violation | `CapQueryReturns`: a checkpoint above the head |
| `epoch_duration_sign` | `MCEthApiBackend` / `EthEpochDuration.cfg` | violation | `EpochDurationIsElapsedTime`: the duration answered is the earlier time minus the later one, below zero |
| `query_ends_node` | `MCEthApiBackend` / `EthCritExit.cfg` | violation | `QueryLeavesNodeRunning`: a failed reward computation ends the node in `log.Crit` |
| `eth_stores` | `MCEthApiStores` / `EthApiStores.cfg` | pass | `TypeOK` (each pool holds what was sent to it and nothing else); `RewardsAnsweredAreWritten` (rewards are only answered from a file of the block asked for that is whole when it is read, whatever the engine writes and `SetHead` removes meanwhile) |
| `book_refines` | `MCTomoxState` / `TomoxRefines.cfg` | pass | `ImplementsOrderBook`: every step of the store without faults, best-price queries included, is a step of `OrderBookSpec` under the refinement mapping |
| `les_backend` | `MCLesApiBackend` / `LesApiBackend.cfg` | pass | `TypeOK`; `FailedRetrievalIsAnError` (a retrieval that failed is answered as an error, never dereferenced, and an answer without error is the header of the number asked for, also after the second wait of `BlockByNumber`); `RewardsOnlyForHeaderFound` (rewards are read only for a hash whose header the chain held when the handler looked it up, from a file that is whole, and the second file only after the first was missing, whatever files a rewind left behind) |

Every property of a passing run has a mutant in `PROJECT.json`: a changed form
of a definition that models code, under which TLC finds the property violated.

### Bounds

* `book`: one order book, prices {1, 2}, order ids {1, 3}, volumes up to
  `MaxVolume = 2`. Two prices and two ids give levels with one and two orders,
  a level that drains while the other stays, and a price and an id with the
  same number (1) whose storage keys must not be confused. Order books do not
  share state, so one is enough. Two prices are what a best-price query
  needs: a bid side searched like the ask side answers price 1 where 2 rests.
  A database that fails, fails to load one trie of the side dumped, the side
  trie or the order trie of one level (`Unopened`): that gives the empty
  snapshot of a full side, a side with one level empty and the other whole,
  and a damaged level hidden behind an unreadable side. An iterator that
  stops in the middle of a trie gives a subset of the same kind and the same
  unread error; with it the run has 2.1 million states and no new case.
  About 810,000 distinct states.
* `eth_backend`: `Epoch = 2`, `RewardCheckpoint = 2`, `Width = 4`, `MaxHead = 7`,
  two goroutines, two masternodes. Block 4 is the first checkpoint rewards are
  paid for and is used with current block 6 or 7; shorter chains take every
  early return; the wrapped numbers 14 and 15 name no block, as no real chain
  reaches 2^64 - Epoch. The initial head is any number up to `MaxHead`: a node
  starts with the chain it has on disk. Goroutines and masternodes are
  symmetric. The node runs PoSV or not, chosen at the start. About 1.2
  million distinct states.
* `eth_stores`: two goroutines, one transaction, one order, `MaxHead = 1`,
  reward files for block 1 under both names. Block 1 is the block `SetHead`
  removes and a new block brings back, hash 2 the hash of no block; one
  transaction is enough to be refused, queued, promoted and mined, and the
  handlers never relate two transactions. The node starts with head 0 or 1.
  Goroutines are symmetric. About 640,000 distinct states.
* `book_refines`: the instance of `book` with `MaxVolume = 1`. TLC evaluates
  the abstract next-state relation, through the mapping, on every step of
  the store, which costs about twenty times the run without it. With unit
  volumes the run still has levels of one and of two orders, aggregates of 1
  and 2, levels that drain, cancels of absent orders and the shared number 1;
  what it leaves to `book` is an order that is partly filled. About 1,500
  distinct states.
* `les_backend`: two goroutines, one transaction, one order, `MaxHead = 2`,
  reward files for block 1 under both names.
  Hash 3 names a block the chain never holds; a `SetHead` from 2 to 0 drops
  two headers while the other goroutine waits, and blocks arrive again after
  it. Block 1 is a block whose files are
  written, whose header a `SetHead` to 0 removes and a new block brings
  back; hash 3 has neither header nor file. One transaction is enough to be
  accepted, refused as known, removed and mined, and no handler relates two.
  Goroutines are symmetric. About 1.2 million distinct states.

### Fairness

No run assumes fairness and no liveness property is checked. A handler of
the full node takes one to three steps of its own and waits for no lock and
no channel held by another request: that it ends follows from the shape of
the handler and says nothing the code could get wrong. A handler of the
light backend ends when its retrieval does, and that rests on the timers of
the retrieval manager (soft and hard timeouts, the context of the request),
which are outside `src/`: the model takes the end of a retrieval as a step
that may happen and checks what the handler does when it does. A node that
`log.Crit` ended stays down; the runs check deadlock, and `Stopped` is the
stuttering step of that node.

## 4. Findings

1. `dump.go:41` A preimage miss during a dump is answered as price 0 (and
   order id 0), with no error; `spec.md` section 7 asks for a corrupt-state error.
2. `api_backend.go:564` On a chain shorter than one epoch `GetVotersRewards`
   (and `GetEpochDuration`, lines 647-648) computes a wrapped block number and
   calls a method on the nil block; the guard of line 575 comes too late and,
   on unsigned numbers, `<= 0` is `== 0`.
3. `api_backend.go:561` A `SetHead` between the reads of a reward query makes
   it dereference nil.
4. `api_backend.go:624` `GetVotersCap` and `GetMasternodesCap` dereference the
   nil block of a checkpoint above the head.
5. `api_backend.go:650` `GetEpochDuration` answers the earlier time minus the
   later one, a negative duration, where the comment of lines 639-640
   promises the duration of the epoch (`epoch_duration_sign`).
6. `api_backend.go:588` `GetVotersRewards` reports a failed reward
   computation with `log.Crit` (lines 588, 594, 608), which ends the process:
   the `return nil` after each call is never reached and a read-only query
   stops the node (`query_ends_node`).
7. `dump.go:40` The dump never reads the error of its iterators (lines 40 and
   50): when the database cannot load a node, the loop ends as at the end of
   the trie and the entries collected so far are returned with a nil error,
   a side with levels missing or a level with its aggregate and fewer orders.
   `spec.md` sections 4.4 and 7 ask for the complete side or an error.

## 5. Not modelled

* The Merkle trie engine (node hashing, database, root computation): a trie is
  a finite function here, and its searches walk the set of its keys, not the
  nodes of a tree.
* Committed and uncommitted versions of the order-book state (`spec.md` 5):
  commit belongs to the external trie engine and nothing under `src/` calls
  it. A model would be a second copy of every book that a commit step
  overwrites, and what could be said of it would hold by that construction.
* An iterator that fails in the middle of a trie, after some entries and
  before others: the model takes the failure at the opening of a trie (see
  the bounds of `book`).
* The `OrderDao` interface: it has no implementation and no caller under
  `src/` and `spec.md` does not describe it, so a model of what `Put`,
  `Delete` or `CommitBulk` do would be invented.
* Event subscriptions (`Subscribe...Event`) and `ServiceFilter` of both
  backends: each hands a channel or a session to `event.Feed` or
  `bloombits.MatcherSession`, which decide what is delivered, in what order,
  and when a subscription ends; they are neither under `src/` nor in
  `spec.md`. The handlers themselves are one call each, and the type of the
  channel fixes the feed it can be handed to: there is no state of the
  backend they change and no order of steps to get wrong.
* Inside the pools of the full node: nonce gaps, replacement by price and the
  order pool's nonces. The model keeps the outcome of `AddLocal` and leaves
  its reason open.
* Removal of reward files: nothing under `src/` deletes one, and the models
  never do.
* A pending block that is nil: `HeaderByNumber` of the full node takes what
  `miner.PendingBlock` answers, and whether that can be nil is decided
  outside `src/`.
* Liveness (see Fairness).
* `LesApiBackend.SendOrderTx` returns nil and hands the order to nothing
  (line 115). The light backend has no TomoX service and its TomoX handlers
  are stubs; the model has the handler as it is and states nothing of it.
* What the downloader does when `SetHead` rewinds the chain under a
  synchronisation that started after the `Cancel` of lines 336 and 61: the
  interleaving is in every run, its consequence is outside `src/`.
* The light pool's return of transactions to `pending` when the block that
  mined them is rewound: `InsertBlock` removes what a block mined, and a
  rewind leaves the pool as it is.
* `AreTwoBlockSamePath` of the light backend answers true for any two hashes;
  what its callers do with that is outside `src/`.
* What the contracts package computes for rewards: only whether it fails and
  which signers it finds.
* Forks: a block is its number; a rewind followed by new blocks gives blocks
  the model does not tell from the old ones.

## 6. State of the project

Every handler of both backends that changes state or reads it in more than
one step is an action of a module, and so are both dumps. What is left out is
listed in section 5: code that is outside `src/` and that `spec.md` does not
describe (the trie engine, event feeds, the bloom matcher, the pools'
admission rules), and the two extensions below, which need code the
repository does not hold.

1. Forks in the backends: a block identified by number and branch, so that
   `AreTwoBlockSamePath` has something to decide. Reads by hash do not depend
   on it: a hash names one block whatever the canonical chain is.
2. Versions of the order-book state, once the commit path is part of the
   repository.
