----------------------------- MODULE TomoxState -----------------------------
(***************************************************************************)
(* The order book store of TomoX and its dump.                             *)
(*                                                                         *)
(* A TomoXStateDB holds one exchange object per order book.  An exchange   *)
(* object owns two tries, asks and bids, that map the storage form of a    *)
(* price to an encoded orderList {Volume, Root}; Root names the trie of    *)
(* that price, which maps the storage form of an order id to the order's   *)
(* remaining volume.  Storage keys are hashes: the number behind one is    *)
(* recovered only through the preimage registry (GetKey).                  *)
(*                                                                         *)
(* DumpAskTrie and DumpBidTrie are translated from                         *)
(* src/tomox/tomox_state/dump.go.  The write path (UpsertOrder,            *)
(* RemoveOrder) and the registry are not in src/ and follow spec.md        *)
(* sections 3, 4.1, 4.2 and 4.4, and so do the best-price queries.         *)
(*                                                                         *)
(* A trie is a function whose domain is the set of storage keys present.   *)
(* A root digest is determined by the content it authenticates, so Root    *)
(* is modelled by the content of the trie it names.                        *)
(***************************************************************************)
EXTENDS Integers, FiniteSets, FiniteSetsExt, Functions, TLC

CONSTANTS
    OrderBooks,   \* order book identifiers (common.Hash of the pair)
    Prices,       \* the prices orders may rest at, positive integers
    OrderIds,     \* order identifiers, positive integers
    MaxVolume,    \* bound: the largest remaining volume of one order
    Nil,          \* Go's nil: no exchange object, no result, no error
    NoBytes,      \* the empty byte slice GetKey returns on a registry miss
    Corrupt       \* a stored value that rlp.DecodeBytes rejects

ASSUME
    /\ Prices \subseteq Nat \ {0} /\ OrderIds \subseteq Nat \ {0}
    /\ IsFiniteSet(Prices) /\ IsFiniteSet(OrderIds)
    /\ MaxVolume \in Nat \ {0}

VARIABLES
    exchanges,    \* exchanges[b]: Nil, or the exchange object of book b
    preimage,     \* the registry: storage key -> the key's original bytes
    reply         \* what the last read returned, Nil once the caller has it

vars == <<exchanges, preimage, reply>>

Ask == "Ask"
Bid == "Bid"
Side == {Ask, Bid}

(***************************************************************************)
(* Keys.  Prices and order ids are hashed by the same function, so the     *)
(* number 1 has one storage key whether it is a price or an order id.      *)
(***************************************************************************)
Keys == Prices \cup OrderIds
Hash(n) == <<"sha3", n>>
StorageKeys == {Hash(n) : n \in Keys}

\* An order trie: storage key of an order id -> remaining volume.
OrderTries ==
    UNION {[ks -> 1..MaxVolume] : ks \in SUBSET {Hash(i) : i \in OrderIds}}

\* The decoded value of a price level (type orderList of the source).
OrderLists ==
    [Volume : 0..(MaxVolume * Cardinality(OrderIds)), Root : OrderTries]

\* A side trie: storage key of a price -> encoded orderList.
SideTries ==
    UNION {[ks -> OrderLists \cup {Corrupt}] : ks \in SUBSET {Hash(p) : p \in Prices}}

ExchangeObjects == [Side -> SideTries]

EmptyTrie == <<>>
EmptyExchange == [s \in Side |-> EmptyTrie]
EmptyOrderList == [Volume |-> 0, Root |-> EmptyTrie]

-----------------------------------------------------------------------------
(***************************************************************************)
(* The ordered trie, as far as the store uses it (spec.md 4.1).            *)
(***************************************************************************)
TryGet(trie, key, absent) == IF key \in DOMAIN trie THEN trie[key] ELSE absent

TryUpdate(trie, key, value) == (key :> value) @@ trie

TryDelete(trie, key) == Restrict(trie, DOMAIN trie \ {key})

(***************************************************************************)
(* The preimage registry (spec.md 4.2) and the two conversions the dump    *)
(* applies to what it finds there.  GetKey answers from the table alone;   *)
(* big.Int.SetBytes of the empty slice is 0.                               *)
(***************************************************************************)
GetKey(shaKey) == TryGet(preimage, shaKey, NoBytes)

SetBytes(bytes) == IF bytes = NoBytes THEN 0 ELSE bytes

Register(reg, ns) == [h \in DOMAIN reg \cup {Hash(n) : n \in ns} |->
                        IF h \in DOMAIN reg THEN reg[h]
                        ELSE CHOOSE n \in ns : Hash(n) = h]

-----------------------------------------------------------------------------
(***************************************************************************)
(* The write path (spec.md 4.4, 4.5).                                      *)
(***************************************************************************)
getStateExchangeObject(orderBook) == exchanges[orderBook]

\* openOrCreate: a write opens an empty book for an identifier never seen.
OpenOrCreate(orderBook) ==
    IF exchanges[orderBook] = Nil THEN EmptyExchange ELSE exchanges[orderBook]

Decodable(value) == value # Corrupt

\* NewAggregate gone wrong: the order's earlier volume is not taken off.
NewAggregateKeepsOld(volume, old, new) == volume + new

\* The aggregate volume after one order's volume went from old to new.
NewAggregate(volume, old, new) == volume - old + new

\* The queue after the order's volume became new: gone when nothing remains.
SetOrderVolume(queue, id, new) ==
    IF new > 0 THEN TryUpdate(queue, Hash(id), new) ELSE TryDelete(queue, Hash(id))

\* WriteLevel gone wrong: a drained level is written back with volume zero.
WriteLevelKeepsDrained(trie, price, volume, queue) ==
    TryUpdate(trie, Hash(price), [Volume |-> volume, Root |-> queue])

\* The side trie after the level's aggregate and queue were written back:
\* a level whose aggregate reached zero is deleted, never stored.
WriteLevel(trie, price, volume, queue) ==
    IF volume = 0 THEN TryDelete(trie, Hash(price))
    ELSE TryUpdate(trie, Hash(price), [Volume |-> volume, Root |-> queue])

\* The side trie after the volume of order id at price became new.
SetInTrie(trie, price, id, new) ==
    LET level == TryGet(trie, Hash(price), EmptyOrderList)
        old   == TryGet(level.Root, Hash(id), 0)
    IN  WriteLevel(trie, price, NewAggregate(level.Volume, old, new),
                   SetOrderVolume(level.Root, id, new))

\* What an order holds at a price of a side trie, 0 when it is not there.
VolumeOf(trie, price, id) ==
    TryGet(TryGet(trie, Hash(price), EmptyOrderList).Root, Hash(id), 0)

\* upsertOrder moves the order by delta; nothing remains below zero.
UpsertInTrie(trie, price, id, delta) ==
    LET moved == VolumeOf(trie, price, id) + delta
    IN  SetInTrie(trie, price, id, IF moved > 0 THEN moved ELSE 0)

\* removeOrder takes the order away; an absent order stays absent.
RemoveInTrie(trie, price, id) == SetInTrie(trie, price, id, 0)

\* The storage keys an update wrote, which the registry learns.
KeysWritten(after, price, id) ==
    IF Hash(price) \notin DOMAIN after THEN {}
    ELSE {price} \cup
         (IF Hash(id) \in DOMAIN after[Hash(price)].Root THEN {id} ELSE {})

\* A write reaches only a level whose stored value decodes; on a damaged
\* one it fails and leaves the state as it was.
Writable(trie, price) == Decodable(TryGet(trie, Hash(price), EmptyOrderList))

UpsertOrder(orderBook, side, price, id, delta) ==
    LET obj   == OpenOrCreate(orderBook)
        trie  == obj[side]
        after == UpsertInTrie(trie, price, id, delta)
    IN  /\ reply = Nil
        /\ Writable(trie, price)
        /\ VolumeOf(trie, price, id) + delta <= MaxVolume
        /\ exchanges' = [exchanges EXCEPT ![orderBook] = [obj EXCEPT ![side] = after]]
        /\ preimage' = Register(preimage, KeysWritten(after, price, id))
        /\ UNCHANGED reply

RemoveOrder(orderBook, side, price, id) ==
    LET obj  == OpenOrCreate(orderBook)
        trie == obj[side]
    IN  /\ reply = Nil
        /\ Writable(trie, price)
        /\ exchanges' = [exchanges EXCEPT ![orderBook] =
                            [obj EXCEPT ![side] = RemoveInTrie(trie, price, id)]]
        /\ UNCHANGED <<preimage, reply>>

-----------------------------------------------------------------------------
(***************************************************************************)
(* The dump (src/tomox/tomox_state/dump.go).                               *)
(*                                                                         *)
(* The Go maps are keyed by *big.Int, a pointer: every iteration step      *)
(* adds an entry of its own, whatever number it carries.  A dumped map is  *)
(* therefore a function from the iteration step (the storage key visited)  *)
(* to the entry, with the number the caller reads in field price or id.    *)
(***************************************************************************)
getAsksTrie(exhangeObject) == exhangeObject[Ask]

\* getBidsTrie gone wrong: the copy of the ask dump still reads the asks.
getBidsTrieReadsAsks(exhangeObject) == exhangeObject[Ask]

getBidsTrie(exhangeObject) == exhangeObject[Bid]

\* getTrie gone wrong: the order list is opened from an empty root.
getTrieOfNoRoot(data) == EmptyTrie

\* newStateOrderList(...).getTrie: the trie of the orders at one price.
getTrie(data) == data.Root

\* The orders of a stored level, none when its value does not decode.
OrdersOf(value) == IF Decodable(value) THEN DOMAIN getTrie(value) ELSE {}

\* What the two nested iterators yield when every node loads: each level
\* of the side, and each order of each level.
Whole(trie) == [k \in DOMAIN trie |-> OrdersOf(trie[k])]

\* Next returns false at the end of a trie and also when the database
\* cannot load a node; the error stays in the iterator, where the dump
\* never reads it.  loads[k] is defined for the levels the database lets
\* the outer iterator reach and holds the orders it lets the inner one
\* reach.
Yielded(trie, loads) ==
    [k \in DOMAIN trie \cap DOMAIN loads |-> OrdersOf(trie[k]) \cap loads[k]]

\* a database that loads every node
Sound == [k \in StorageKeys |-> StorageKeys]

\* Bound: a database that fails, fails to load the root of one trie, the
\* side's or the order trie of one level, and the iterator of that trie
\* yields nothing.
Unopened(trie) == {<<>>} \cup {[Sound EXCEPT ![k] = {}] : k \in DOMAIN trie}

\* The inner loop: one entry per order the iterator yielded.
DumpOrderList(data, orders) ==
    [Volume |-> data.Volume,
     Orders |-> [k \in orders |->
                    [id |-> SetBytes(GetKey(k)), volume |-> getTrie(data)[k]]]]

\* the levels of a reading whose stored value decodes
Decoded(trie, seen) == {k \in DOMAIN seen : Decodable(trie[k])}

Entry(trie, seen, k) ==
    [price |-> SetBytes(GetKey(k))] @@ DumpOrderList(trie[k], seen[k])

DecodeFailed == [err |-> "DecodeFailed", result |-> Nil]

\* DumpTrie gone wrong: a decode error is returned beside the entries read.
DumpTriePartialResult(trie, loads) ==
    LET seen == Yielded(trie, loads)
    IN  [err |-> IF Decoded(trie, seen) = DOMAIN seen THEN Nil ELSE "DecodeFailed",
         result |-> [k \in Decoded(trie, seen) |-> Entry(trie, seen, k)]]

\* DumpTrie gone wrong: a value that does not decode is skipped.
DumpTrieSkipsDamaged(trie, loads) ==
    LET seen == Yielded(trie, loads)
    IN  [err |-> Nil, result |-> [k \in Decoded(trie, seen) |-> Entry(trie, seen, k)]]

\* DumpTrie gone wrong: a level whose key has no preimage is skipped.
DumpTrieSkipsUnresolved(trie, loads) ==
    LET seen == Yielded(trie, loads)
    IN  IF Decoded(trie, seen) # DOMAIN seen THEN DecodeFailed
        ELSE [err |-> Nil,
              result |-> [k \in DOMAIN seen \cap DOMAIN preimage |-> Entry(trie, seen, k)]]

\* The outer loop: fails on the first value that does not decode, else one
\* entry per level the iterator yielded, under the price the registry gives
\* for its key.
DumpTrie(trie, loads) ==
    LET seen == Yielded(trie, loads)
    IN  IF Decoded(trie, seen) # DOMAIN seen THEN DecodeFailed
        ELSE [err |-> Nil, result |-> [k \in DOMAIN seen |-> Entry(trie, seen, k)]]

NotFound == [err |-> "OrderBookNotFound", result |-> Nil]

DumpAskTrie(orderBook, loads) ==
    LET exhangeObject == getStateExchangeObject(orderBook)
    IN  IF exhangeObject = Nil THEN NotFound
        ELSE DumpTrie(getAsksTrie(exhangeObject), loads)

DumpBidTrie(orderBook, loads) ==
    LET exhangeObject == getStateExchangeObject(orderBook)
    IN  IF exhangeObject = Nil THEN NotFound
        ELSE DumpTrie(getBidsTrie(exhangeObject), loads)

\* the side a dump iterates, empty for a book that is not there
IteratedTrie(orderBook, side) == OpenOrCreate(orderBook)[side]

\* A caller's dump while the database loads what loads says; the store is
\* left as it was.  iterErr is the error the iterators hold, unread, when
\* the dump returns.
DumpLoading(orderBook, side, loads) ==
    LET trie == IteratedTrie(orderBook, side)
    IN  /\ reply = Nil
        /\ reply' = [op |-> "dump", orderBook |-> orderBook, side |-> side,
                     iterErr |-> Yielded(trie, loads) # Whole(trie)] @@
                     (IF side = Ask THEN DumpAskTrie(orderBook, loads)
                      ELSE DumpBidTrie(orderBook, loads))
        /\ UNCHANGED <<exchanges, preimage>>

\* A dump whose iterators run to the end of their tries.
Dump(orderBook, side) == DumpLoading(orderBook, side, Sound)

-----------------------------------------------------------------------------
(***************************************************************************)
(* The best price (spec.md 4.1, 4.4, 6).  Hashing destroys the order of    *)
(* the keys: the traversal compares the numbers the registry gives for the *)
(* storage keys it meets, never the storage keys.                          *)
(***************************************************************************)

\* Key k takes the place of the best so far: its number lies further
\* towards the end asked for.
Further(left, k, best) ==
    \/ best = Nil
    \/ IF left THEN GetKey(k) < GetKey(best) ELSE GetKey(k) > GetKey(best)

RECURSIVE Traverse(_, _, _)
Traverse(keys, left, best) ==
    IF keys = {} THEN best
    ELSE LET k == CHOOSE key \in keys : TRUE
         IN  Traverse(keys \ {k}, left, IF Further(left, k, best) THEN k ELSE best)

\* The storage key of the smallest and of the largest number, Nil when empty.
TryGetBestLeftKeyAndValue(trie) == Traverse(DOMAIN trie, TRUE, Nil)

TryGetBestRightKeyAndValue(trie) == Traverse(DOMAIN trie, FALSE, Nil)

\* BestKey gone wrong: the bid side is searched like the ask side.
BestKeyLeftmost(trie, side) == TryGetBestLeftKeyAndValue(trie)

\* The best ask is the cheapest offer, the best bid the richest.
BestKey(trie, side) ==
    IF side = Ask THEN TryGetBestLeftKeyAndValue(trie)
    ELSE TryGetBestRightKeyAndValue(trie)

CorruptState == [err |-> "CorruptState", result |-> Nil]

\* the explicit absence an empty side is answered with
Absent == [price |-> Nil, Volume |-> 0]

\* bestPrice: a key the registry cannot resolve and a best level that does
\* not decode are corrupt state; emptiness is an answer, not an error.
bestPrice(trie, side) ==
    LET k == BestKey(trie, side)
    IN  IF ~(DOMAIN trie \subseteq DOMAIN preimage) THEN CorruptState
        ELSE IF k = Nil THEN [err |-> Nil, result |-> Absent]
        ELSE IF ~Decodable(trie[k]) THEN CorruptState
        ELSE [err |-> Nil,
              result |-> [price |-> SetBytes(GetKey(k)), Volume |-> trie[k].Volume]]

\* bestAsk, bestBid: a caller asks for the best price of one side.
BestPrice(orderBook, side) ==
    /\ reply = Nil
    /\ reply' = [op |-> "best", orderBook |-> orderBook, side |-> side] @@
                 (IF getStateExchangeObject(orderBook) = Nil THEN NotFound
                  ELSE bestPrice(getStateExchangeObject(orderBook)[side], side))
    /\ UNCHANGED <<exchanges, preimage>>

\* The caller takes the answer: calls are synchronous, one at a time.
Return ==
    /\ reply # Nil
    /\ reply' = Nil
    /\ UNCHANGED <<exchanges, preimage>>

-----------------------------------------------------------------------------
(***************************************************************************)
(* Faults of the environment the code has an answer to.                    *)
(***************************************************************************)

\* The process restarts and the registry entries that were never persisted
\* are gone (spec.md 4.2, 9).
LosePreimages ==
    /\ reply = Nil
    /\ \E lost \in SUBSET DOMAIN preimage :
         /\ lost # {}
         /\ preimage' = Restrict(preimage, DOMAIN preimage \ lost)
    /\ UNCHANGED <<exchanges, reply>>

\* The database hands back a damaged value for one price level.
CorruptLevel(orderBook, side, price) ==
    /\ reply = Nil
    /\ exchanges[orderBook] # Nil
    /\ Hash(price) \in DOMAIN exchanges[orderBook][side]
    /\ Decodable(exchanges[orderBook][side][Hash(price)])
    /\ exchanges' = [exchanges EXCEPT ![orderBook][side][Hash(price)] = Corrupt]
    /\ UNCHANGED <<preimage, reply>>

\* The database cannot load a node of a trie while it is dumped: an iterator
\* stops before the end of its trie.
DumpUnreadable(orderBook, side) ==
    LET trie == IteratedTrie(orderBook, side)
    IN  \E loads \in Unopened(trie) :
            /\ Yielded(trie, loads) # Whole(trie)
            /\ DumpLoading(orderBook, side, loads)

-----------------------------------------------------------------------------
Init ==
    /\ exchanges = [b \in OrderBooks |-> Nil]
    /\ preimage = EmptyTrie
    /\ reply = Nil

Write ==
    \E b \in OrderBooks, s \in Side, p \in Prices, i \in OrderIds :
        \/ \E delta \in (-MaxVolume..MaxVolume) \ {0} : UpsertOrder(b, s, p, i, delta)
        \/ RemoveOrder(b, s, p, i)

Read ==
    \/ \E b \in OrderBooks, s \in Side : Dump(b, s) \/ BestPrice(b, s)
    \/ Return

Fault ==
    \/ LosePreimages
    \/ \E b \in OrderBooks, s \in Side, p \in Prices : CorruptLevel(b, s, p)
    \/ \E b \in OrderBooks, s \in Side : DumpUnreadable(b, s)

\* The store with a registry that is never lost and a database never damaged.
NextReliable == Write \/ Read

Next == Write \/ Read \/ Fault

SpecReliable == Init /\ [][NextReliable]_vars

Spec == Init /\ [][Next]_vars

-----------------------------------------------------------------------------
\* The side tries of the books that exist, as <<book, side>> pairs.
OpenSides == {bs \in OrderBooks \X Side : exchanges[bs[1]] # Nil}

SideTrie(bs) == exchanges[bs[1]][bs[2]]

\* The decodable price levels of a side trie.
Readable(trie) == {k \in DOMAIN trie : Decodable(trie[k])}

\* Every storage key of the side, of prices and of orders, is registered.
Resolvable(trie) ==
    \A k \in DOMAIN trie :
        /\ k \in DOMAIN preimage
        /\ Decodable(trie[k]) => DOMAIN trie[k].Root \subseteq DOMAIN preimage

\* A fresh side trie into which every (price, id, volume) of a dump is
\* put with upsertOrder.
Replay(result) ==
    LET steps == {ko \in (DOMAIN result) \X StorageKeys : ko[2] \in DOMAIN result[ko[1]].Orders}
        Put(ko, trie) ==
            UpsertInTrie(trie, result[ko[1]].price,
                         result[ko[1]].Orders[ko[2]].id,
                         result[ko[1]].Orders[ko[2]].volume)
    IN  FoldSet(Put, EmptyTrie, steps)

\* a dump is answered with a snapshot
Answered == reply # Nil /\ reply.op = "dump" /\ reply.err = Nil

\* a dump whose iterators ran to the end of their tries has returned
Iterated == reply # Nil /\ reply.op = "dump" /\ ~reply.iterErr

\* The number a storage key is the hash of: known to the model, not to the code.
NumberOf(k) == CHOOSE n \in Keys : Hash(n) = k

-----------------------------------------------------------------------------
(***************************************************************************)
(* Properties.                                                             *)
(***************************************************************************)

\* The type invariant: books are absent or hold two side tries of encoded
\* order lists, the registry maps a storage key to the number it is the
\* hash of, and a reply is an error without a result or a result without
\* an error.
TypeOK ==
    /\ exchanges \in [OrderBooks -> ExchangeObjects \cup {Nil}]
    /\ DOMAIN preimage \subseteq StorageKeys
    /\ \A h \in DOMAIN preimage : Hash(preimage[h]) = h
    /\ \/ reply = Nil
       \/ /\ reply.orderBook \in OrderBooks /\ reply.side \in Side
          /\ reply.op \in {"dump", "best"}
          /\ reply.op = "dump" => reply.iterErr \in BOOLEAN
          /\ \/ reply.err \in {"OrderBookNotFound", "DecodeFailed", "CorruptState"}
                   /\ reply.result = Nil
             \/ reply.err = Nil /\ DOMAIN reply.result \subseteq
                   IF reply.op = "dump" THEN StorageKeys ELSE {"price", "Volume"}

\* The aggregate volume stored with a price level is the sum of the
\* remaining volumes of the orders in that level's queue, after every
\* sequence of upsertOrder and removeOrder (spec.md 3 and 8); dump.go
\* reports data.Volume without recomputing it, so a drift would be dumped.
AggregateVolumeIsSum ==
    \A bs \in OpenSides : \A k \in Readable(SideTrie(bs)) :
        SideTrie(bs)[k].Volume = SumFunction(SideTrie(bs)[k].Root)

\* A price level that is stored has at least one order: the level whose
\* last order was filled or cancelled is deleted, never kept with volume
\* zero (spec.md 3, 9), so the outer loop of the dump visits no empty level.
NoEmptyLevel ==
    \A bs \in OpenSides : \A k \in Readable(SideTrie(bs)) :
        DOMAIN SideTrie(bs)[k].Root # {}

\* Round trip (spec.md 8): when the registry resolves every key of the
\* side and the iterators ran to the end, replaying the triples of
\* DumpAskTrie / DumpBidTrie into a fresh trie gives back the side that was
\* dumped, and dumping that gives the same snapshot, aggregate volumes
\* included.
DumpReplayReproducesBook ==
    Answered /\ Iterated /\ Resolvable(SideTrie(<<reply.orderBook, reply.side>>)) =>
        /\ Replay(reply.result) = SideTrie(<<reply.orderBook, reply.side>>)
        /\ DumpTrie(Replay(reply.result), Sound).result = reply.result

\* A side with a price level that does not decode is never answered with a
\* snapshot once the iterator reached that level: DumpAskTrie / DumpBidTrie
\* return the decode error and no partial result, so damaged liquidity is
\* not passed off as absent (spec.md 7, CorruptStateError), and a side
\* without damage is never answered with that error.
NoSnapshotOfDamagedSide ==
    reply # Nil /\ reply.op = "dump" /\ exchanges[reply.orderBook] # Nil =>
        LET trie == SideTrie(<<reply.orderBook, reply.side>>)
        IN  /\ reply.err # Nil => Readable(trie) # DOMAIN trie
            /\ Iterated => (reply.err = Nil <=> Readable(trie) = DOMAIN trie)

\* Whatever the registry has lost and wherever an iterator stopped, a
\* snapshot reports nothing that is not stored: each entry is a stored
\* price level with its stored volume, each of its orders rests there with
\* the volume reported.  A miss in GetKey only turns the number of an entry
\* into 0, it never drops or merges entries (the Go maps are keyed by
\* pointer), and when both loops ran to the end (lines 40 and 50) no level
\* and no order is missing.
DumpKeepsEveryEntry ==
    Answered =>
        LET trie == SideTrie(<<reply.orderBook, reply.side>>)
            Among(part, all) == part \subseteq all /\ (Iterated => part = all)
        IN  /\ Among(DOMAIN reply.result, DOMAIN trie)
            /\ \A k \in DOMAIN reply.result :
                 /\ reply.result[k].price \in {0, NumberOf(k)}
                 /\ reply.result[k].Volume = trie[k].Volume
                 /\ Among(DOMAIN reply.result[k].Orders, DOMAIN trie[k].Root)
                 /\ \A o \in DOMAIN reply.result[k].Orders :
                      reply.result[k].Orders[o].volume = trie[k].Root[o]

\* After every sequence of writes, losses of the registry and damage to
\* levels, bestAsk answers the lowest price at which an order rests and
\* bestBid the highest, with the volume resting there (spec.md 4.4, 8; the
\* searches tomox_trie_test.go prints after TryUpdate and TryDelete and
\* asserts nothing about).  An empty side is answered with the explicit
\* absence, and the query fails exactly when a key of the side cannot be
\* resolved or the best level does not decode.
BestPriceIsBestResting ==
    reply # Nil /\ reply.op = "best" /\ exchanges[reply.orderBook] # Nil =>
        LET trie   == SideTrie(<<reply.orderBook, reply.side>>)
            prices == {NumberOf(k) : k \in DOMAIN trie}
            best   == Hash(IF reply.side = Ask THEN Min(prices) ELSE Max(prices))
            sound  == /\ DOMAIN trie \subseteq DOMAIN preimage
                      /\ prices # {} => Decodable(trie[best])
        IN  /\ reply.err = Nil <=> sound
            /\ reply.err = Nil => IF prices = {} THEN reply.result = Absent
                                  ELSE /\ Hash(reply.result.price) = best
                                       /\ reply.result.Volume = SumFunction(trie[best].Root)
                                       /\ reply.result.Volume > 0

\* What spec.md 7 asks of a registry miss: it is escalated, never
\* swallowed, so every price of a snapshot is the price of a stored level.
\* dump.go takes GetKey's empty answer for the number 0 instead.
DumpedPricesAreStored ==
    Answered =>
        \A k \in DOMAIN reply.result :
            Hash(reply.result[k].price) \in DOMAIN SideTrie(<<reply.orderBook, reply.side>>)

\* What spec.md 4.4 and 7 ask of a dump: a snapshot is the whole side at one
\* point in time, and a trie the engine cannot read is an error to the
\* caller, never a shorter book.  dump.go ends both loops when Next returns
\* false and returns the entries it has with a nil error, whether the
\* iterator reached the end or stopped on a node it could not load.
SnapshotHoldsEveryLevel ==
    Answered =>
        LET trie == SideTrie(<<reply.orderBook, reply.side>>)
        IN  /\ DOMAIN reply.result = DOMAIN trie
            /\ \A k \in DOMAIN trie :
                 DOMAIN reply.result[k].Orders = DOMAIN trie[k].Root

-----------------------------------------------------------------------------
(***************************************************************************)
(* Refinement.  The store implements OrderBookSpec: a book is the orders   *)
(* its side tries hold, read through the keys' numbers, and an answer is   *)
(* the dump as its caller reads it, keyed by the prices and order ids the  *)
(* dump reported.                                                          *)
(***************************************************************************)
RestingOrders(trie) ==
    [o \in {po \in Prices \X OrderIds : VolumeOf(trie, po[1], po[2]) > 0} |->
        VolumeOf(trie, o[1], o[2])]

\* The map a caller of the dump reads: its entries under their numbers.
AsRead(result) ==
    [p \in {result[k].price : k \in DOMAIN result} |->
        LET level == result[CHOOSE k \in DOMAIN result : result[k].price = p]
            order(i) == level.Orders[CHOOSE o \in DOMAIN level.Orders : level.Orders[o].id = i]
        IN  [Volume |-> level.Volume,
             Orders |-> [i \in {level.Orders[o].id : o \in DOMAIN level.Orders} |->
                            order(i).volume]]]

\* The best price as its caller reads it: nothing, or one price and what
\* rests there.
BestAsRead(result) == [p \in {result.price} \ {Nil} |-> [Volume |-> result.Volume]]

Book == INSTANCE OrderBookSpec WITH
    books  <- [b \in OrderBooks |->
                 IF exchanges[b] = Nil THEN Nil
                 ELSE [s \in Side |-> RestingOrders(exchanges[b][s])]],
    answer <- IF reply = Nil THEN Nil
              ELSE [op |-> reply.op, orderBook |-> reply.orderBook,
                    side |-> reply.side, err |-> reply.err,
                    result |-> IF reply.result = Nil THEN Nil
                               ELSE IF reply.op = "dump" THEN AsRead(reply.result)
                               ELSE BestAsRead(reply.result)]

\* With a registry that lost nothing and a database that damaged nothing,
\* every step of the store is a step of the abstract order book: a write
\* changes the resting orders as place and cancel say, and DumpAskTrie /
\* DumpBidTrie answer, under the prices and order ids they resolved through
\* GetKey, exactly the orders resting on the side asked for, each level with
\* the sum of its orders as its volume (dump.go 33-81 against spec.md 4.4);
\* a best-price query answers the best resting price and what rests there.
ImplementsOrderBook == Book!Spec
=============================================================================
