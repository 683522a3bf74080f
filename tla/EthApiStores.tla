---------------------------- MODULE EthApiStores ----------------------------
(***************************************************************************)
(* The handlers of EthApiBackend that answer from the stores of a full     *)
(* node: the chain database by block hash, the transaction pool, the order *)
(* pool, the reward folder and the backend's own fields                    *)
(* (src/les/api_backend.go, second file, lines 327-544 and 673-679).       *)
(*                                                                         *)
(* The chain, SetHead and the arrival of blocks are those of               *)
(* EthApiBackend, instantiated here without its PoSV queries: no handler   *)
(* of this module ends the node.  A block's number stands for its hash.    *)
(* A handler that reads a store twice is an action per read.               *)
(***************************************************************************)
EXTENDS RewardFiles, Integers, FiniteSets

CONSTANTS
    Callers,        \* the goroutines that serve RPC requests
    Txs,            \* signed transactions
    Orders,         \* signed order transactions
    RewardBlocks,   \* the blocks the consensus engine writes reward files for
    MaxHead         \* bound: the highest block the chain reaches

ASSUME MaxHead \in Nat /\ RewardBlocks \subseteq 0..MaxHead

VARIABLES
    head,      \* number of the current block of the canonical chain
    syncing,   \* the downloader is running a synchronisation
    alive,     \* the node process is running
    tomox,     \* the TomoX service is registered
    posv,      \* the node runs PoSV
    call,      \* call[c]: the request goroutine c is serving
    pending,   \* txPool: the transactions that can be mined
    queued,    \* txPool: the transactions that wait for an earlier nonce
    orders,    \* orderPool
    files      \* files[<<block, name>>]: what the reward folder holds

stores == <<pending, queued, orders, files>>
vars == <<head, syncing, alive, tomox, posv, call, pending, queued, orders, files>>

Chain == INSTANCE EthApiBackend WITH
    Masternodes <- {}, Epoch <- 1, RewardCheckpoint <- 0,
    FoudationWalletSet <- FALSE, Width <- 8, BlockPeriod <- 1

Ok(v) == Chain!Ok(v)
ReturnNil == Chain!ReturnNil
Err == Chain!Err

Hashes == 0..(MaxHead + 1)

\* what call[c] is when the handler op has answered out
Done(op, arg, out) ==
    [Chain!IdleCall EXCEPT !.op = op, !.pc = "done", !.arg = arg, !.out = out]

\* a handler that reads one store once: entered and answered in one step
Read(c, op, arg, out) == Chain!Answer(c, op, arg, out) /\ UNCHANGED stores

-----------------------------------------------------------------------------
(***************************************************************************)
(* The chain database, by hash.                                            *)
(***************************************************************************)
Stored(hash) == Chain!GetBlockByNumber(hash) # Nil

\* blockchain.GetBlockByHash: a nil block, and no error, for an unknown hash
GetBlock(c, blockHash) ==
    Read(c, "GetBlock", blockHash,
         IF Stored(blockHash) THEN Ok([header |-> Chain!Header(blockHash)]) ELSE ReturnNil)

GetTd(c, blockHash) ==
    Read(c, "GetTd", blockHash, IF Stored(blockHash) THEN Ok([td |-> blockHash]) ELSE ReturnNil)

\* core.missingNumber, the number of no block
MissingNumber == -1

\* core.GetBlockNumber: the number the database maps the hash to
GetBlockNumber(hash) == IF Stored(hash) THEN hash ELSE MissingNumber

\* core.GetBlockReceipts: the receipts stored under number and hash
GetBlockReceipts(hash, number) ==
    IF Stored(hash) /\ number = hash THEN [header |-> Chain!Header(hash)] ELSE Nil

\* the hashes the chain's cache holds for the number: that of the block that
\* arrived at this height, or none when the cache has no entry for it
GetBlocksHashCache(c, blockNr) ==
    \E hashes \in SUBSET {blockNr} : Read(c, "GetBlocksHashCache", blockNr, Ok(hashes))

\* two blocks the database holds lie on the one chain of this model; of a
\* hash it does not hold the chain answers what it will
AreTwoBlockSamePath(c, bh1, bh2) ==
    \E same \in BOOLEAN :
        /\ Stored(bh1) /\ Stored(bh2) => same
        /\ Read(c, "AreTwoBlockSamePath", bh1, Ok(same))

ReceiptsOps == {"GetReceipts", "GetLogs"}

\* GetReceipts, GetLogs: the first read, of the number of the hash
ReceiptsNumber(c, op, blockHash) ==
    /\ Chain!Idle(c)
    /\ Chain!Enter(c, op, blockHash, "receipts", GetBlockNumber(blockHash), 0)
    /\ UNCHANGED <<head, syncing, alive, tomox, posv, stores>>

\* the second read, of the receipts; GetLogs takes the logs out of each
ReceiptsRead(c) ==
    /\ call[c].pc = "receipts"
    /\ LET receipts == GetBlockReceipts(call[c].arg, call[c].number)
       IN  Chain!Finish(c, IF receipts = Nil THEN ReturnNil ELSE Ok(receipts))
    /\ UNCHANGED <<head, syncing, alive, tomox, posv, stores>>

\* the balance of the sender is raised in the caller's copy of the state,
\* and the error function answered always returns nil
GetEVM(c) == Read(c, "GetEVM", Nil, Ok([balance |-> "MaxBig256", vmError |-> Nil]))

-----------------------------------------------------------------------------
(***************************************************************************)
(* The pools.  AddLocal refuses a transaction the pool holds and one that  *)
(* does not validate; what it accepts is pending or queued.                *)
(***************************************************************************)
InPool == pending \cup queued

SendTx(c, signedTx) ==
    /\ Chain!Idle(c)
    /\ \E outcome \in {"pending", "queued", "refused"} :
         /\ signedTx \in InPool => outcome = "refused"
         /\ pending' = IF outcome = "pending" THEN pending \cup {signedTx} ELSE pending
         /\ queued' = IF outcome = "queued" THEN queued \cup {signedTx} ELSE queued
         /\ call' = [call EXCEPT ![c] =
                        Done("SendTx", signedTx, IF outcome = "refused" THEN Err ELSE ReturnNil)]
    /\ UNCHANGED <<head, syncing, alive, tomox, posv, orders, files>>

\* the order is put into the pool of transactions
SendOrderTxToTxPool(c, signedTx) ==
    /\ Chain!Idle(c)
    /\ pending' = pending \cup {signedTx}
    /\ call' = [call EXCEPT ![c] = Done("SendOrderTx", signedTx, ReturnNil)]
    /\ UNCHANGED <<head, syncing, alive, tomox, posv, queued, orders, files>>

SendOrderTx(c, signedTx) ==
    /\ Chain!Idle(c)
    /\ \E accepted \in BOOLEAN :
         /\ signedTx \in orders => ~accepted
         /\ orders' = IF accepted THEN orders \cup {signedTx} ELSE orders
         /\ call' = [call EXCEPT ![c] =
                        Done("SendOrderTx", signedTx, IF accepted THEN ReturnNil ELSE Err)]
    /\ UNCHANGED <<head, syncing, alive, tomox, posv, pending, queued, files>>

\* txPool.Pending may fail; its batches, one per account, are joined
GetPoolTransactions(c) ==
    \E failed \in BOOLEAN :
        Read(c, "GetPoolTransactions", Nil, IF failed THEN Err ELSE Ok(pending))

GetPoolTransaction(c, hash) ==
    Read(c, "GetPoolTransaction", hash, IF hash \in InPool THEN Ok(hash) ELSE ReturnNil)

\* the nonce in the pool's state: past every pending transaction
GetPoolNonce(c) == Read(c, "GetPoolNonce", Nil, Ok([nonce |-> Cardinality(pending)]))

Stats(c) ==
    Read(c, "Stats", Nil, Ok([pending |-> Cardinality(pending), queued |-> Cardinality(queued)]))

TxPoolContent(c) == Read(c, "TxPoolContent", Nil, Ok([pending |-> pending, queued |-> queued]))

-----------------------------------------------------------------------------
(***************************************************************************)
(* Handlers that answer from the backend's own fields.                     *)
(***************************************************************************)
Fields == {"Downloader", "ProtocolVersion", "ChainDb", "EventMux", "AccountManager"}

Accessor(c, field) == Read(c, field, Nil, Ok(field))

ChainConfig(c) == Read(c, "ChainConfig", Nil, Ok("chainConfig"))

GetEngine(c) == Read(c, "GetEngine", Nil, Ok("engine"))

SuggestPrice(c) ==
    \E failed \in BOOLEAN : Read(c, "SuggestPrice", Nil, IF failed THEN Err ELSE Ok("price"))

\* the sections the bloom indexer has processed, of BloomBitsBlocks each
BloomStatus(c) ==
    \E sections \in 0..head :
        Read(c, "BloomStatus", Nil, Ok([size |-> "BloomBitsBlocks", sections |-> sections]))

GetIPCClient(c) ==
    \E failed \in BOOLEAN : Read(c, "GetIPCClient", Nil, IF failed THEN Err ELSE Ok("client"))

-----------------------------------------------------------------------------
(***************************************************************************)
(* GetRewardByHash.                                                        *)
(***************************************************************************)

\* Up to the first file: an unknown hash is answered with the empty map; a
\* first file that is there settles the answer, whole or not; only a first
\* file that is not there sends the handler to the second.
GetRewardByHash(c, hash) ==
    LET read == ReadFile(files, hash, ByHash)
    IN  /\ Chain!Idle(c)
        /\ IF ~Stored(hash) THEN call' = [call EXCEPT ![c] = Done("GetRewardByHash", hash, Ok(Empty))]
           ELSE IF read.err THEN Chain!Enter(c, "GetRewardByHash", hash, "fallback", 0, 0)
           ELSE call' = [call EXCEPT ![c] =
                           Done("GetRewardByHash", hash, Ok(Unmarshal(hash, read.data)))]
        /\ UNCHANGED <<head, syncing, alive, tomox, posv, stores>>

\* the second file, read when the first one was not there
ReadFallback(c) ==
    LET read == ReadFile(files, call[c].arg, ByHashNoValidator)
    IN  /\ call[c].pc = "fallback"
        /\ Chain!Finish(c, Ok(IF read.err THEN Empty ELSE Unmarshal(call[c].arg, read.data)))
        /\ UNCHANGED <<head, syncing, alive, tomox, posv, stores>>

-----------------------------------------------------------------------------
(***************************************************************************)
(* The environment: the chain of EthApiBackend, the pool's own moves, the  *)
(* consensus engine that writes reward files.                              *)
(***************************************************************************)

\* a block arrives and mines some of what is pending
InsertBlock ==
    /\ Chain!InsertBlock
    /\ \E mined \in SUBSET pending : pending' = pending \ mined
    /\ UNCHANGED <<queued, orders, files>>

\* the nonce a queued transaction waited for was used: it can be mined
Promote(tx) ==
    /\ tx \in queued
    /\ queued' = queued \ {tx}
    /\ pending' = pending \cup {tx}
    /\ UNCHANGED <<head, syncing, alive, tomox, posv, call, orders, files>>

\* the matching engine took the order out of the pool
TakeOrder(order) ==
    /\ order \in orders
    /\ orders' = orders \ {order}
    /\ UNCHANGED <<head, syncing, alive, tomox, posv, call, pending, queued, files>>

\* the file is created, or truncated if it is there
OpenFile(b, name) ==
    /\ Stored(b)
    /\ files[<<b, name>>] # Partial
    /\ files' = [files EXCEPT ![<<b, name>>] = Partial]
    /\ UNCHANGED <<head, syncing, alive, tomox, posv, call, pending, queued, orders>>

\* the JSON is written to its end
WriteFile(b, name) ==
    /\ files[<<b, name>>] = Partial
    /\ files' = [files EXCEPT ![<<b, name>>] = Written]
    /\ UNCHANGED <<head, syncing, alive, tomox, posv, call, pending, queued, orders>>

-----------------------------------------------------------------------------
Init ==
    /\ head \in 0..MaxHead
    /\ syncing = FALSE
    /\ alive = TRUE
    /\ tomox = TRUE
    /\ posv = TRUE
    /\ call = [c \in Callers |-> Chain!IdleCall]
    /\ pending = {} /\ queued = {} /\ orders = {}
    /\ files = [f \in RewardBlocks \X Names |-> Missing]

Environment ==
    \/ InsertBlock
    \/ Chain!StartSync /\ UNCHANGED stores
    \/ \E tx \in Txs : Promote(tx)
    \/ \E order \in Orders : TakeOrder(order)
    \/ \E b \in RewardBlocks, name \in Names : OpenFile(b, name) \/ WriteFile(b, name)

ChainHandler(c) ==
    \/ \E number \in 0..MaxHead : Chain!SetHeadCancel(c, number) /\ UNCHANGED stores
    \/ Chain!SetHeadRewind(c) /\ UNCHANGED stores
    \/ \E blockHash \in Hashes :
         \/ GetBlock(c, blockHash)
         \/ GetTd(c, blockHash)
         \/ \E op \in ReceiptsOps : ReceiptsNumber(c, op, blockHash)
         \/ GetRewardByHash(c, blockHash)
         \/ \E bh2 \in Hashes : AreTwoBlockSamePath(c, blockHash, bh2)
    \/ \E blockNr \in 0..MaxHead : GetBlocksHashCache(c, blockNr)
    \/ ReceiptsRead(c)
    \/ ReadFallback(c)
    \/ GetEVM(c)

PoolHandler(c) ==
    \/ \E tx \in Txs : SendTx(c, tx) \/ GetPoolTransaction(c, tx)
    \/ \E order \in Orders : SendOrderTx(c, order)
    \/ GetPoolTransactions(c)
    \/ GetPoolNonce(c)
    \/ Stats(c)
    \/ TxPoolContent(c)

FieldHandler(c) ==
    \/ \E field \in Fields : Accessor(c, field)
    \/ ChainConfig(c)
    \/ GetEngine(c)
    \/ SuggestPrice(c)
    \/ BloomStatus(c)
    \/ GetIPCClient(c)

Handler(c) ==
    \/ ChainHandler(c) \/ PoolHandler(c) \/ FieldHandler(c)
    \/ Chain!Return(c) /\ UNCHANGED stores

Next == Environment \/ \E c \in Callers : Handler(c)

Spec == Init /\ [][Next]_vars

-----------------------------------------------------------------------------
(***************************************************************************)
(* Properties.                                                             *)
(***************************************************************************)
Ops == Fields \cup ReceiptsOps \cup
       {"SetHead", "GetBlock", "GetTd", "GetEVM", "SendTx", "SendOrderTx",
        "GetPoolTransactions", "GetPoolTransaction", "GetPoolNonce", "Stats",
        "TxPoolContent", "SuggestPrice", "BloomStatus", "GetIPCClient",
        "GetRewardByHash", "ChainConfig", "GetEngine", "GetBlocksHashCache",
        "AreTwoBlockSamePath"}

\* goroutine c answers op in this step
Answers(c, op) == call[c].pc # "done" /\ call'[c].pc = "done" /\ call'[c].op = op

\* Every variable has a value of its kind: each pool holds what is sent to
\* it and nothing else (lines 433-440), a transaction is pending or queued
\* and never both, the reward folder has files of the reward blocks, and a
\* request has an answer exactly when it is done.
TypeOK ==
    /\ head \in 0..MaxHead /\ syncing \in BOOLEAN /\ alive /\ tomox /\ posv
    /\ pending \subseteq Txs /\ queued \subseteq Txs /\ pending \cap queued = {}
    /\ orders \subseteq Orders
    /\ files \in [RewardBlocks \X Names -> Contents]
    /\ \A c \in Callers :
         /\ call[c].op \in Ops \cup {Nil}
         /\ call[c].pc \in {"idle", "rewind", "receipts", "fallback", "done"}
         /\ call[c].arg \in Hashes \cup Txs \cup Orders \cup {Nil}
         /\ call[c].number \in Hashes \cup {MissingNumber}
         /\ call[c].pc = "done" <=> call[c].out # Nil
         /\ call[c].out # Nil => call[c].out.status \in {"ok", "nil", "error"}

\* GetRewardByHash never answers with rewards that are not written in full
\* for the block asked: at the step it answers with rewards, a file of that
\* block is whole, and a file the engine is still writing is answered with
\* the empty map (the checks of json.Unmarshal's error, lines 528-529 and
\* 536-537).
RewardsAnsweredAreWritten ==
    [][\A c \in Callers :
          Answers(c, "GetRewardByHash") /\ call'[c].out.value # Empty =>
             /\ call'[c].out.value = RewardsOfBlock(call'[c].arg)
             /\ \E name \in Names : FileOf(files, call'[c].arg, name) = Written]_vars
=============================================================================
