---------------------------- MODULE LesApiBackend ----------------------------
(***************************************************************************)
(* LesApiBackend, the ethapi backend of a light client (the first file of  *)
(* src/les/api_backend.go, package les).                                   *)
(*                                                                         *)
(* A light client stores headers only.  What else a handler needs comes    *)
(* from a retrieval on demand (ODR): the request goroutine waits until a   *)
(* peer delivered, no peer is left, the hard timeout dropped the peer or   *)
(* the request's context ended.  While it waits, other requests run,       *)
(* blocks arrive and SetHead rewinds the chain: a retrieval is a step of   *)
(* its own, and what the handler holds across it is in call[c].            *)
(*                                                                         *)
(* The chain is its head number, and the number of a block stands for its  *)
(* hash: a hash is known iff its number is at or below the head.           *)
(***************************************************************************)
EXTENDS RewardFiles, Integers, FiniteSets

CONSTANTS
    Callers,           \* the goroutines that serve RPC requests
    Txs,               \* signed transactions
    Orders,            \* signed order transactions
    MaxHead,           \* bound: the highest block the chain reaches
    RewardBlocks,      \* the blocks the reward folder may hold files for
    BloomIndexerSet    \* LightEthereum.bloomIndexer is not nil

ASSUME MaxHead \in Nat /\ BloomIndexerSet \in BOOLEAN

VARIABLES
    head,      \* number of the current header of the light chain
    syncing,   \* the downloader is running a synchronisation
    pending,   \* the relay pool: transactions sent and not yet mined
    call,      \* call[c]: the request goroutine c is serving
    files      \* files[<<block, name>>]: what the reward folder holds

vars == <<head, syncing, pending, call, files>>

Pending == -2   \* rpc.PendingBlockNumber
Latest  == -1   \* rpc.LatestBlockNumber
Hashes == 0..(MaxHead + 1)
BlockNumbers == {Pending, Latest} \cup Hashes

Ok(v)     == [status |-> "ok", value |-> v]
ReturnNil == [status |-> "nil", value |-> Nil]      \* a nil result, no error
Err       == [status |-> "error", value |-> Nil]    \* a non-nil error
Panic     == [status |-> "panic", value |-> Nil]    \* nil pointer dereference

IdleCall == [op |-> Nil, pc |-> "idle", arg |-> Nil, hash |-> Nil, out |-> Nil]

\* goroutine c waits at pc for the retrieval of what hash names
Waiting(op, arg, pc, hash) == [op |-> op, pc |-> pc, arg |-> arg, hash |-> hash, out |-> Nil]

Done(op, arg, out) == [op |-> op, pc |-> "done", arg |-> arg, hash |-> Nil, out |-> out]

Idle(c) == call[c].pc = "idle"

\* a handler that neither waits nor writes: entered and answered in one step
Answer(c, op, arg, out) ==
    /\ Idle(c)
    /\ call' = [call EXCEPT ![c] = Done(op, arg, out)]
    /\ UNCHANGED <<head, syncing, pending, files>>

-----------------------------------------------------------------------------
(***************************************************************************)
(* The light chain and the retrievals.                                     *)
(***************************************************************************)
Header(n) == [number |-> n]

CurrentHeader == Header(head)

Stored(hash) == hash \in 0..head

\* the two results of a header lookup: (header, nil) and (nil, err)
Found(header) == [header |-> header, failed |-> FALSE]
Failed == [header |-> Nil, failed |-> TRUE]

\* HeaderByNumber as far as it answers from the chain's own store: a number
\* above the head is covered by no trusted checkpoint and is an error.
HeaderByNumber(blockNr) ==
    IF blockNr \in {Latest, Pending} THEN Found(CurrentHeader)
    ELSE IF Stored(blockNr) THEN Found(Header(blockNr))
    ELSE Failed

\* GetHeaderByNumberOdr over the network: the header the trusted checkpoint
\* vouches for, or the error the retrieval ended with.
Retrieved(number) == {Found(Header(number)), Failed}

\* the guard of lines 75 and 83, dropped
NoHeaderUnchecked(r) == FALSE

\* if header == nil || err != nil
NoHeader(r) == r.header = Nil \/ r.failed

\* what the three handlers do with the result r of the lookup
AfterLookup(op, blockNr, r) ==
    IF op = "HeaderByNumber" THEN Done(op, blockNr, IF r.failed THEN Err ELSE Ok([header |-> r.header]))
    ELSE IF NoHeader(r) THEN Done(op, blockNr, IF r.failed THEN Err ELSE ReturnNil)
    ELSE IF r.header = Nil THEN Done(op, blockNr, Panic)
    ELSE IF op = "BlockByNumber" THEN Waiting(op, blockNr, "odr", r.header.number)
    ELSE Done(op, blockNr, Ok([state |-> r.header.number, header |-> r.header]))

Lookups == {"HeaderByNumber", "BlockByNumber", "StateAndHeaderByNumber"}

\* The handler is entered: the header is in the store, or it is below the
\* client's checkpoint and asked of the network.
Lookup(c, op, blockNr) ==
    /\ Idle(c)
    /\ \/ call' = [call EXCEPT ![c] = AfterLookup(op, blockNr, HeaderByNumber(blockNr))]
       \/ /\ Stored(blockNr)
          /\ call' = [call EXCEPT ![c] = Waiting(op, blockNr, "header", blockNr)]
    /\ UNCHANGED <<head, syncing, pending, files>>

HeaderRetrieved(c) ==
    /\ call[c].pc = "header"
    /\ \E r \in Retrieved(call[c].hash) :
         call' = [call EXCEPT ![c] = AfterLookup(call[c].op, call[c].arg, r)]
    /\ UNCHANGED <<head, syncing, pending, files>>

\* a retrieval by hash or of state: hash is Nil where the request names none
Request(c, op, arg, hash) ==
    /\ Idle(c)
    /\ call' = [call EXCEPT ![c] = Waiting(op, arg, "odr", hash)]
    /\ UNCHANGED <<head, syncing, pending, files>>

GetBlock(c, blockHash) == Request(c, "GetBlock", blockHash, blockHash)

GetReceipts(c, blockHash) == Request(c, "GetReceipts", blockHash, blockHash)

GetLogs(c, blockHash) == Request(c, "GetLogs", blockHash, blockHash)

GetPoolNonce(c) == Request(c, "GetPoolNonce", Nil, Nil)

SuggestPrice(c) == Request(c, "SuggestPrice", Nil, Nil)

\* a body, receipts or logs are only served for a header the chain holds
Served(hash) == hash = Nil \/ Stored(hash)

\* The retrieval ends: with what was asked for, or with an error.  This is
\* also the second read of BlockByNumber, b.GetBlock(ctx, header.Hash()).
Retrieval(c) ==
    /\ call[c].pc = "odr"
    /\ \E delivered \in BOOLEAN :
         call' = [call EXCEPT ![c] =
                    Done(call[c].op, call[c].arg,
                         IF delivered /\ Served(call[c].hash)
                         THEN Ok([header |-> Header(call[c].hash)]) ELSE Err)]
    /\ UNCHANGED <<head, syncing, pending, files>>

CurrentBlock(c) == Answer(c, "CurrentBlock", Nil, Ok([header |-> CurrentHeader]))

GetTd(c, blockHash) ==
    Answer(c, "GetTd", blockHash, IF Stored(blockHash) THEN Ok([td |-> blockHash]) ELSE ReturnNil)

-----------------------------------------------------------------------------
(***************************************************************************)
(* GetRewardByHash: the header is looked up in the light chain, the files  *)
(* are read from the folder the node shares with whatever writes them.     *)
(***************************************************************************)

\* the test of line 213, dropped
KnownHeaderUnchecked(hash) == TRUE

\* GetHeaderByHash answers a header: the light chain holds one for the hash
KnownHeader(hash) == Stored(hash)

\* Up to the first file: an unknown hash is answered with the empty map, a
\* first file that is there settles the answer, whole or not, and only a
\* first file that is not there sends the handler to the second.
GetRewardByHash(c, hash) ==
    LET read == ReadFile(files, hash, ByHash)
    IN  /\ Idle(c)
        /\ call' = [call EXCEPT ![c] =
                      IF ~KnownHeader(hash) THEN Done("GetRewardByHash", hash, Ok(Empty))
                      ELSE IF read.err THEN Waiting("GetRewardByHash", hash, "fallback", hash)
                      ELSE Done("GetRewardByHash", hash, Ok(Unmarshal(hash, read.data)))]
        /\ UNCHANGED <<head, syncing, pending, files>>

\* the second file, read when the first one was not there
ReadFallback(c) ==
    LET read == ReadFile(files, call[c].hash, ByHashNoValidator)
    IN  /\ call[c].pc = "fallback"
        /\ call' = [call EXCEPT ![c] =
                      Done("GetRewardByHash", call[c].arg,
                           Ok(IF read.err THEN Empty ELSE Unmarshal(call[c].hash, read.data)))]
        /\ UNCHANGED <<head, syncing, pending, files>>

-----------------------------------------------------------------------------
(***************************************************************************)
(* SetHead: cancel the downloader, then rewind the chain.                  *)
(***************************************************************************)
SetHeadCancel(c, number) ==
    /\ Idle(c)
    /\ syncing' = FALSE
    /\ call' = [call EXCEPT ![c] = Waiting("SetHead", number, "rewind", Nil)]
    /\ UNCHANGED <<head, pending, files>>

\* blockchain.SetHead: the headers above number leave the chain
Rewind(number) == IF number < head THEN number ELSE head

SetHeadRewind(c) ==
    /\ call[c].pc = "rewind"
    /\ head' = Rewind(call[c].arg)
    /\ call' = [call EXCEPT ![c] = Done("SetHead", call[c].arg, ReturnNil)]
    /\ UNCHANGED <<syncing, pending, files>>

-----------------------------------------------------------------------------
(***************************************************************************)
(* The relay pool.                                                         *)
(***************************************************************************)

\* txPool.Add refuses a transaction it holds and one that does not validate
\* against the state it reads; what it accepts is pending and relayed.
SendTx(c, signedTx) ==
    /\ Idle(c)
    /\ \E valid \in BOOLEAN :
         LET accepted == valid /\ signedTx \notin pending
         IN  /\ pending' = IF accepted THEN pending \cup {signedTx} ELSE pending
             /\ call' = [call EXCEPT ![c] =
                          Done("SendTx", signedTx, IF accepted THEN ReturnNil ELSE Err)]
    /\ UNCHANGED <<head, syncing, files>>

\* the order is put into the pool of transactions
SendOrderTxToPool(c, signedTx) ==
    /\ Idle(c)
    /\ pending' = pending \cup {signedTx}
    /\ call' = [call EXCEPT ![c] = Done("SendOrderTx", signedTx, ReturnNil)]
    /\ UNCHANGED <<head, syncing, files>>

SendOrderTx(c, signedTx) == Answer(c, "SendOrderTx", signedTx, ReturnNil)

RemoveTx(c, txHash) ==
    /\ Idle(c)
    /\ pending' = pending \ {txHash}
    /\ call' = [call EXCEPT ![c] = Done("RemoveTx", txHash, ReturnNil)]
    /\ UNCHANGED <<head, syncing, files>>

GetPoolTransactions(c) == Answer(c, "GetPoolTransactions", Nil, Ok(pending))

GetPoolTransaction(c, txHash) ==
    Answer(c, "GetPoolTransaction", txHash, IF txHash \in pending THEN Ok(txHash) ELSE ReturnNil)

\* the light pool queues nothing: queued is the constant 0
Stats(c) == Answer(c, "Stats", Nil, Ok([pending |-> Cardinality(pending), queued |-> 0]))

TxPoolContent(c) == Answer(c, "TxPoolContent", Nil, Ok([pending |-> pending, queued |-> {}]))

-----------------------------------------------------------------------------
(***************************************************************************)
(* Handlers that answer from the backend's own fields, and the handlers a  *)
(* light client has no service for.                                        *)
(***************************************************************************)
Fields == {"Downloader", "ChainDb", "EventMux", "AccountManager"}

Accessor(c, field) == Answer(c, field, Nil, Ok(field))

ChainConfig(c) == Answer(c, "ChainConfig", Nil, Ok("chainConfig"))

GetEngine(c) == Answer(c, "GetEngine", Nil, Ok("engine"))

\* the versions of the light protocol a client speaks
LesVersions == {1, 2}

ProtocolVersion(c) ==
    \E version \in LesVersions : Answer(c, "ProtocolVersion", Nil, Ok(version + 10000))

\* the balance of the sender is raised in the caller's copy of the state,
\* and the error function answered is that state's own
GetEVM(c) == Answer(c, "GetEVM", Nil, Ok([balance |-> "MaxBig256", vmError |-> "state.Error"]))

BloomStatus(c) ==
    \E sections \in 0..head :
        Answer(c, "BloomStatus", Nil,
               IF ~BloomIndexerSet THEN Ok([size |-> 0, sections |-> 0])
               ELSE Ok([size |-> "BloomTrieFrequency", sections |-> sections]))

GetIPCClient(c) == Answer(c, "GetIPCClient", Nil, ReturnNil)

Stubs ==
    [GetVotersRewards    |-> Ok({}),
     GetVotersCap        |-> Ok({}),
     GetEpochDuration    |-> ReturnNil,
     GetMasternodesCap   |-> ReturnNil,
     GetBlocksHashCache  |-> Ok({}),
     AreTwoBlockSamePath |-> Ok(TRUE),
     GetOrderNonce       |-> Err,
     TomoxService        |-> ReturnNil]

Stub(c, op) == Answer(c, op, Nil, Stubs[op])

-----------------------------------------------------------------------------
(***************************************************************************)
(* The environment: headers arrive and mine what is pending,               *)
(* synchronisations start, callers take their answers.                     *)
(***************************************************************************)
InsertBlock ==
    /\ head < MaxHead
    /\ head' = head + 1
    /\ \E mined \in SUBSET pending : pending' = pending \ mined
    /\ UNCHANGED <<syncing, call, files>>

StartSync ==
    /\ ~syncing
    /\ syncing' = TRUE
    /\ UNCHANGED <<head, pending, call, files>>

\* a reward file of a block of the chain is created, or truncated if it is
\* there, by the process that computes rewards
OpenFile(b, name) ==
    /\ Stored(b)
    /\ files[<<b, name>>] # Partial
    /\ files' = [files EXCEPT ![<<b, name>>] = Partial]
    /\ UNCHANGED <<head, syncing, pending, call>>

\* the JSON is written to its end
WriteFile(b, name) ==
    /\ files[<<b, name>>] = Partial
    /\ files' = [files EXCEPT ![<<b, name>>] = Written]
    /\ UNCHANGED <<head, syncing, pending, call>>

Return(c) ==
    /\ call[c].pc = "done"
    /\ call' = [call EXCEPT ![c] = IdleCall]
    /\ UNCHANGED <<head, syncing, pending, files>>

-----------------------------------------------------------------------------
Init ==
    /\ head \in 0..MaxHead
    /\ syncing = FALSE
    /\ pending = {}
    /\ call = [c \in Callers |-> IdleCall]
    /\ files = [f \in RewardBlocks \X Names |-> Missing]

Environment ==
    \/ InsertBlock
    \/ StartSync
    \/ \E b \in RewardBlocks, name \in Names : OpenFile(b, name) \/ WriteFile(b, name)

ChainHandler(c) ==
    \/ \E number \in 0..MaxHead : SetHeadCancel(c, number)
    \/ SetHeadRewind(c)
    \/ \E op \in Lookups, blockNr \in BlockNumbers : Lookup(c, op, blockNr)
    \/ HeaderRetrieved(c)
    \/ \E blockHash \in Hashes :
         \/ GetBlock(c, blockHash)
         \/ GetReceipts(c, blockHash)
         \/ GetLogs(c, blockHash)
         \/ GetTd(c, blockHash)
         \/ GetRewardByHash(c, blockHash)
    \/ Retrieval(c)
    \/ ReadFallback(c)
    \/ CurrentBlock(c)

PoolHandler(c) ==
    \/ \E tx \in Txs :
         \/ SendTx(c, tx)
         \/ RemoveTx(c, tx)
         \/ GetPoolTransaction(c, tx)
    \/ \E order \in Orders : SendOrderTx(c, order)
    \/ GetPoolTransactions(c)
    \/ GetPoolNonce(c)
    \/ Stats(c)
    \/ TxPoolContent(c)
    \/ SuggestPrice(c)

FieldHandler(c) ==
    \/ \E field \in Fields : Accessor(c, field)
    \/ ChainConfig(c)
    \/ GetEngine(c)
    \/ ProtocolVersion(c)
    \/ GetEVM(c)
    \/ BloomStatus(c)
    \/ GetIPCClient(c)
    \/ \E op \in DOMAIN Stubs : Stub(c, op)

Handler(c) == ChainHandler(c) \/ PoolHandler(c) \/ FieldHandler(c) \/ Return(c)

Next == Environment \/ \E c \in Callers : Handler(c)

Spec == Init /\ [][Next]_vars

-----------------------------------------------------------------------------
(***************************************************************************)
(* Properties.                                                             *)
(***************************************************************************)
Ops == Lookups \cup Fields \cup DOMAIN Stubs \cup
       {"SetHead", "GetBlock", "GetReceipts", "GetLogs", "GetTd", "CurrentBlock",
        "SendTx", "SendOrderTx", "RemoveTx", "GetPoolTransactions",
        "GetPoolTransaction", "GetPoolNonce", "Stats", "TxPoolContent",
        "SuggestPrice", "ChainConfig", "GetEngine", "BloomStatus", "GetIPCClient",
        "ProtocolVersion", "GetEVM", "GetRewardByHash"}

\* goroutine c answers op in this step
Answers(c, op) == call[c].pc # "done" /\ call'[c].pc = "done" /\ call'[c].op = op

\* Every variable has a value of its kind: the relay pool holds transactions
\* and nothing else, a request that waits holds the number of the header it
\* waits for, and a request has an answer exactly when it is done.
TypeOK ==
    /\ head \in 0..MaxHead
    /\ syncing \in BOOLEAN
    /\ pending \subseteq Txs
    /\ files \in [RewardBlocks \X Names -> Contents]
    /\ \A c \in Callers :
         /\ call[c].op \in Ops \cup {Nil}
         /\ call[c].pc \in {"idle", "header", "odr", "rewind", "fallback", "done"}
         /\ call[c].arg \in BlockNumbers \cup Txs \cup Orders \cup {Nil}
         /\ call[c].hash \in Hashes \cup {Nil}
         /\ call[c].pc = "header" => call[c].hash \in Hashes
         /\ call[c].pc = "done" <=> call[c].out # Nil
         /\ call[c].out # Nil => call[c].out.status \in {"ok", "nil", "error", "panic"}

\* A retrieval that failed (timeout, no peer, context done, no trusted
\* checkpoint) is an error to the client and nothing else: HeaderByNumber,
\* BlockByNumber and StateAndHeaderByNumber never go on with the nil header
\* it left them (lines 75-77, 83-85), and an answer without error is the
\* header of the number asked for.
FailedRetrievalIsAnError ==
    \A c \in Callers :
        call[c].op \in Lookups /\ call[c].pc = "done" =>
            /\ call[c].out.status \in {"ok", "error"}
            /\ call[c].out.status = "ok" /\ call[c].arg >= 0
                   => call[c].out.value.header.number = call[c].arg

\* Reward files outlive the blocks a SetHead removes, and nothing but the
\* header lookup of lines 212-213 keeps the handler from them: rewards are
\* answered only for a hash whose header the light chain held when the
\* handler looked it up, from a file of that block that is whole when it is
\* read, and the second file is read only after the first was missing
\* (lines 214-230).
RewardsOnlyForHeaderFound ==
    [][\A c \in Callers :
          /\ Idle(c) /\ call'[c].pc = "fallback" =>
                Stored(call'[c].arg) /\ FileOf(files, call'[c].arg, ByHash) = Missing
          /\ Answers(c, "GetRewardByHash") /\ call'[c].out.value # Empty =>
                /\ call'[c].out.value = RewardsOfBlock(call'[c].arg)
                /\ IF Idle(c)
                   THEN Stored(call'[c].arg) /\ FileOf(files, call'[c].arg, ByHash) = Written
                   ELSE FileOf(files, call'[c].arg, ByHashNoValidator) = Written]_vars
=============================================================================
