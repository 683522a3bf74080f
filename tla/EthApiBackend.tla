---------------------------- MODULE EthApiBackend ----------------------------
(***************************************************************************)
(* The chain access and the PoSV queries of EthApiBackend, the ethapi      *)
(* backend of a full node (src/les/api_backend.go, second file, package    *)
(* eth).                                                                   *)
(*                                                                         *)
(* Every RPC request runs on a goroutine of its own.  A handler that       *)
(* reads the chain more than once is an action per read: between two       *)
(* reads other requests run, blocks are imported and SetHead rewinds the   *)
(* chain.  What a handler keeps in local variables between two reads is    *)
(* in call[c].                                                             *)
(*                                                                         *)
(* The canonical chain is its head number: block n is on it iff n <= head. *)
(* Block numbers are uint64 in the source; here they are Width bits wide   *)
(* and every subtraction wraps as the machine's does.                      *)
(***************************************************************************)
EXTENDS Integers, FiniteSets

CONSTANTS
    Callers,             \* the goroutines that serve RPC requests
    Masternodes,         \* masternode addresses
    Epoch,               \* ChainConfig.Posv.Epoch
    RewardCheckpoint,    \* ChainConfig.Posv.RewardCheckpoint
    FoudationWalletSet,  \* Posv.FoudationWalletAddr is not the zero address
    Width,               \* bound: bits of the integer that stands for uint64
    MaxHead,             \* bound: the highest block the chain reaches
    BlockPeriod,         \* seconds between two blocks
    Nil                  \* Go's nil

Modulus == 2 ^ Width
Uint == 0..(Modulus - 1)

ASSUME
    /\ Epoch \in Nat \ {0} /\ RewardCheckpoint \in Uint /\ Width \in Nat \ {0}
    /\ BlockPeriod \in Nat \ {0} /\ FoudationWalletSet \in BOOLEAN
    \* no chain is long enough to hold the block a wrapped number names
    /\ MaxHead \in Nat /\ MaxHead + 1 < Modulus - Epoch

VARIABLES
    head,      \* number of the current block of the canonical chain
    syncing,   \* the downloader is running a synchronisation
    alive,     \* the node process is running
    tomox,     \* the TomoX service is registered (GetTomoX() # nil)
    posv,      \* the node runs PoSV: ChainConfig().Posv is set and the
               \* engine GetEngine() returns is a *posv.Posv
    call       \* call[c]: the request goroutine c is serving

vars == <<head, syncing, alive, tomox, posv, call>>

Pending == -2   \* rpc.PendingBlockNumber
Latest  == -1   \* rpc.LatestBlockNumber
BlockNumbers == {Pending, Latest} \cup (0..(MaxHead + 1))

\* the subtraction of unbounded integers
SubUnbounded(a, b) == a - b

\* unsigned subtraction of the machine
Sub(a, b) == (a - b) % Modulus

-----------------------------------------------------------------------------
(***************************************************************************)
(* What a handler answers.                                                 *)
(***************************************************************************)
Ok(v)     == [status |-> "ok", value |-> v]
ReturnNil == [status |-> "nil", value |-> Nil]      \* a nil result, no error
Err       == [status |-> "error", value |-> Nil]    \* a non-nil error
Panic     == [status |-> "panic", value |-> Nil]    \* nil pointer dereference
Exit      == [status |-> "exit", value |-> Nil]     \* log.Crit ended the process

IdleCall == [op |-> Nil, pc |-> "idle", arg |-> Nil, number |-> 0,
             checkpoint |-> 0, out |-> Nil]

Idle(c) == alive /\ call[c].pc = "idle"

At(c, op, pc) == alive /\ call[c].op = op /\ call[c].pc = pc

\* goroutine c enters handler op with argument arg and stops before pc
Enter(c, op, arg, pc, number, checkpoint) ==
    call' = [call EXCEPT ![c] = [op |-> op, pc |-> pc, arg |-> arg,
                                  number |-> number, checkpoint |-> checkpoint,
                                  out |-> Nil]]

\* goroutine c enters handler op and panics before its first read of the chain
PanicAtEntry(c, op, arg) ==
    call' = [call EXCEPT ![c] = [IdleCall EXCEPT !.op = op, !.pc = "done",
                                                  !.arg = arg, !.out = Panic]]

\* the handler of goroutine c returns out
Finish(c, out) == call' = [call EXCEPT ![c].pc = "done", ![c].out = out]

\* a handler that reads the chain once: entered and answered in one step
Answer(c, op, arg, out) ==
    /\ Idle(c)
    /\ call' = [call EXCEPT ![c] = [IdleCall EXCEPT !.op = op, !.pc = "done",
                                                     !.arg = arg, !.out = out]]
    /\ UNCHANGED <<head, syncing, alive, tomox, posv>>

-----------------------------------------------------------------------------
(***************************************************************************)
(* The chain, seen through the calls the backend makes on it.              *)
(***************************************************************************)
Header(n) == [number |-> n]

Time(n) == n * BlockPeriod

\* blockchain.GetBlockByNumber, GetHeaderByNumber: nil above the head
GetBlockByNumber(n) == IF n \in 0..head THEN Header(n) ELSE Nil

CurrentBlock == Header(head)

\* miner.PendingBlock: the block being built on the current one
PendingBlock == Header(head + 1)

HeaderByNumber(blockNr) ==
    IF blockNr = Pending THEN PendingBlock
    ELSE IF blockNr = Latest THEN CurrentBlock
    ELSE GetBlockByNumber(blockNr)

BlockByNumber(blockNr) == HeaderByNumber(blockNr)

\* StateAndHeaderByNumber: a nil header is returned with no state and no
\* error; the state of a header that is there may still fail to open.
StateAndHeaderByNumber(blockNr, stateOpens) ==
    LET header == HeaderByNumber(blockNr)
    IN  IF header = Nil THEN ReturnNil
        ELSE IF blockNr # Pending /\ ~stateOpens THEN Err
        ELSE Ok([state |-> header.number, header |-> header])

-----------------------------------------------------------------------------
(***************************************************************************)
(* The environment: blocks arrive, synchronisations start.                 *)
(***************************************************************************)
InsertBlock ==
    /\ alive /\ head < MaxHead
    /\ head' = head + 1
    /\ UNCHANGED <<syncing, alive, tomox, posv, call>>

StartSync ==
    /\ alive /\ ~syncing
    /\ syncing' = TRUE
    /\ UNCHANGED <<head, alive, tomox, posv, call>>

\* the caller takes the answer and the goroutine ends
Return(c) ==
    /\ alive /\ call[c].pc = "done" /\ call[c].out.status # "exit"
    /\ call' = [call EXCEPT ![c] = IdleCall]
    /\ UNCHANGED <<head, syncing, alive, tomox, posv>>

\* log.Crit ended the process: nothing runs any more
Stopped == ~alive /\ UNCHANGED vars

-----------------------------------------------------------------------------
(***************************************************************************)
(* SetHead: cancel the downloader, then rewind the chain.                  *)
(***************************************************************************)
SetHeadCancel(c, number) ==
    /\ Idle(c)
    /\ syncing' = FALSE
    /\ Enter(c, "SetHead", number, "rewind", 0, 0)
    /\ UNCHANGED <<head, alive, tomox, posv>>

\* blockchain.SetHead: the blocks above number leave the chain
Rewind(number) == IF number < head THEN number ELSE head

SetHeadRewind(c) ==
    /\ At(c, "SetHead", "rewind")
    /\ head' = Rewind(call[c].arg)
    /\ Finish(c, ReturnNil)
    /\ UNCHANGED <<syncing, alive, tomox, posv>>

-----------------------------------------------------------------------------
(***************************************************************************)
(* The handlers that read the chain once.                                  *)
(***************************************************************************)
HeaderByNumberCall(c, blockNr) ==
    Answer(c, "HeaderByNumber", blockNr,
           IF HeaderByNumber(blockNr) = Nil THEN ReturnNil ELSE Ok(HeaderByNumber(blockNr)))

BlockByNumberCall(c, blockNr) ==
    Answer(c, "BlockByNumber", blockNr,
           IF BlockByNumber(blockNr) = Nil THEN ReturnNil ELSE Ok(BlockByNumber(blockNr)))

StateAndHeaderByNumberCall(c, blockNr) ==
    \E stateOpens \in BOOLEAN :
        Answer(c, "StateAndHeaderByNumber", blockNr,
               StateAndHeaderByNumber(blockNr, stateOpens))

\* GetVotersCap and GetMasternodesCap: the block of the checkpoint is
\* dereferenced as it comes from GetBlockByNumber.
CapsAt(checkpoint, stateOpens) ==
    IF GetBlockByNumber(checkpoint) = Nil THEN Panic
    ELSE IF ~stateOpens THEN ReturnNil
    ELSE Ok([caps |-> checkpoint])

GetVotersCap(c, checkpoint) ==
    \E stateOpens \in BOOLEAN :
        Answer(c, "GetVotersCap", checkpoint, CapsAt(checkpoint, stateOpens))

GetMasternodesCap(c, checkpoint) ==
    \E stateOpens \in BOOLEAN :
        Answer(c, "GetMasternodesCap", checkpoint, CapsAt(checkpoint, stateOpens))

\* GetOrderNonce: the nonce in the TomoX state of the current block
GetOrderNonce(c) ==
    \E stateOpens \in BOOLEAN :
        Answer(c, "GetOrderNonce", Nil,
               IF ~tomox \/ ~stateOpens THEN Err ELSE Ok([nonceAt |-> CurrentBlock.number]))

-----------------------------------------------------------------------------
(***************************************************************************)
(* GetVotersRewards.                                                       *)
(***************************************************************************)

\* the checkpoint the rewards are computed for, from the block number read
LastCheckpointNumber(number) == Sub(Sub(number, number % Epoch), Epoch)

\* the guard without its test of the reward checkpoint
NothingToRewardAtGenesisOnly(lastCheckpointNumber) ==
    ~FoudationWalletSet \/ lastCheckpointNumber <= 0

\* the guard after the state is open: nothing to pay at or before the
\* first reward checkpoint, or without a foundation wallet
NothingToReward(lastCheckpointNumber) ==
    \/ ~FoudationWalletSet
    \/ lastCheckpointNumber <= 0
    \/ Sub(lastCheckpointNumber, RewardCheckpoint) <= 0

\* lines 555-560: the current block is read, the engine is taken for a
\* *posv.Posv (an unchecked type assertion) and the checkpoint computed
VotersRewardsStart(c, masternodeAddr) ==
    /\ Idle(c)
    /\ IF posv
       THEN Enter(c, "GetVotersRewards", masternodeAddr, "checkpoint",
                  head, LastCheckpointNumber(head))
       ELSE PanicAtEntry(c, "GetVotersRewards", masternodeAddr)
    /\ UNCHANGED <<head, syncing, alive, tomox, posv>>

\* lines 561-577: the checkpoint block is fetched, its state opened, and
\* only then the guard is evaluated
VotersRewardsCheckpoint(c) ==
    /\ At(c, "GetVotersRewards", "checkpoint")
    /\ \E stateOpens \in BOOLEAN :
         IF GetBlockByNumber(call[c].checkpoint) = Nil THEN Finish(c, Panic)
         ELSE IF ~stateOpens \/ NothingToReward(call[c].checkpoint)
              THEN Finish(c, ReturnNil)
         ELSE call' = [call EXCEPT ![c].pc = "signers"]
    /\ UNCHANGED <<head, syncing, alive, tomox, posv>>

\* lines 581-616.  The signers of the checkpoint come from the block signer
\* contract; failure names the computation that returns an error, if one does.
\* An error goes to log.Crit, which ends the process: the return that follows
\* it in the source is never reached.
Failures == {"none", "GetRewardForCheckpoint", "CalculateRewardForSigner",
             "CalculateRewardForHolders"}

RewardsOf(masternodeAddr, lastCheckpointNumber, number, signers, failure) ==
    IF failure \in {"GetRewardForCheckpoint", "CalculateRewardForSigner"} THEN Exit
    ELSE IF signers = {} \/ masternodeAddr \notin signers THEN ReturnNil
    ELSE IF failure = "CalculateRewardForHolders" THEN Exit
    ELSE Ok([masternode |-> masternodeAddr, checkpoint |-> lastCheckpointNumber,
             number |-> number])

VotersRewardsSigners(c) ==
    /\ At(c, "GetVotersRewards", "signers")
    /\ \E signers \in SUBSET Masternodes, failure \in Failures :
         LET out == RewardsOf(call[c].arg, call[c].checkpoint, call[c].number,
                              signers, failure)
         IN  Finish(c, out) /\ alive' = (out # Exit)
    /\ UNCHANGED <<head, syncing, tomox, posv>>

-----------------------------------------------------------------------------
(***************************************************************************)
(* GetEpochDuration.                                                       *)
(***************************************************************************)

\* the block number itself, not rounded down to its epoch
EpochStartNotRounded(number) == number

\* the first block of the epoch of number
EpochStart(number) == Sub(number, number % Epoch)

\* lines 642-645: the current block is read and the checkpoint computed from
\* ChainConfig().Posv, dereferenced as it is
EpochDurationStart(c) ==
    /\ Idle(c)
    /\ IF posv
       THEN Enter(c, "GetEpochDuration", Nil, "last", head, EpochStart(head))
       ELSE PanicAtEntry(c, "GetEpochDuration", Nil)
    /\ UNCHANGED <<head, syncing, alive, tomox, posv>>

\* line 646: the time of the last checkpoint block
EpochDurationLast(c) ==
    /\ At(c, "GetEpochDuration", "last")
    /\ IF GetBlockByNumber(call[c].checkpoint) = Nil THEN Finish(c, Panic)
       ELSE call' = [call EXCEPT ![c].pc = "secondToLast"]
    /\ UNCHANGED <<head, syncing, alive, tomox, posv>>

\* secondToLast.Add(secondToLast, last.Mul(last, -1))
Duration(secondToLastTime, lastTime) == secondToLastTime + lastTime * (-1)

\* lines 647-650: the time of the checkpoint before it, and the difference
EpochDurationSecondToLast(c) ==
    LET secondToLast == Sub(call[c].checkpoint, Epoch)
    IN  /\ At(c, "GetEpochDuration", "secondToLast")
        /\ IF GetBlockByNumber(secondToLast) = Nil THEN Finish(c, Panic)
           ELSE Finish(c, Ok([duration |-> Duration(Time(secondToLast),
                                                    Time(call[c].checkpoint)),
                              from |-> secondToLast,
                              to |-> call[c].checkpoint]))
        /\ UNCHANGED <<head, syncing, alive, tomox, posv>>

-----------------------------------------------------------------------------
Init ==
    /\ head \in 0..MaxHead
    /\ syncing = FALSE
    /\ alive = TRUE
    /\ tomox \in BOOLEAN
    /\ posv \in BOOLEAN
    /\ call = [c \in Callers |-> IdleCall]

Environment == InsertBlock \/ StartSync \/ Stopped

Handler(c) ==
    \/ \E number \in 0..MaxHead : SetHeadCancel(c, number)
    \/ SetHeadRewind(c)
    \/ \E blockNr \in BlockNumbers :
         \/ HeaderByNumberCall(c, blockNr)
         \/ BlockByNumberCall(c, blockNr)
         \/ StateAndHeaderByNumberCall(c, blockNr)
    \/ \E checkpoint \in 0..(MaxHead + 1) :
         \/ GetVotersCap(c, checkpoint)
         \/ GetMasternodesCap(c, checkpoint)
    \/ GetOrderNonce(c)
    \/ \E m \in Masternodes : VotersRewardsStart(c, m)
    \/ VotersRewardsCheckpoint(c)
    \/ VotersRewardsSigners(c)
    \/ EpochDurationStart(c)
    \/ EpochDurationLast(c)
    \/ EpochDurationSecondToLast(c)
    \/ Return(c)

Next == Environment \/ \E c \in Callers : Handler(c)

Spec == Init /\ [][Next]_vars

-----------------------------------------------------------------------------
(***************************************************************************)
(* Properties.                                                             *)
(***************************************************************************)
Statuses == {"ok", "nil", "error", "panic", "exit"}

Ops == {"SetHead", "HeaderByNumber", "BlockByNumber", "StateAndHeaderByNumber",
        "GetVotersCap", "GetMasternodesCap", "GetOrderNonce",
        "GetVotersRewards", "GetEpochDuration"}

Answered(c, op) ==
    call[c].op = op /\ call[c].pc = "done" /\ call[c].out.status = "ok"

Panicked(c) == call[c].pc = "done" /\ call[c].out.status = "panic"

\* Every variable has a value of its kind; the block numbers a handler holds
\* are machine integers (the subtractions of lines 560, 645 and 647 wrap,
\* they never leave the range of uint64).
TypeOK ==
    /\ head \in 0..MaxHead
    /\ syncing \in BOOLEAN /\ alive \in BOOLEAN /\ tomox \in BOOLEAN
    /\ posv \in BOOLEAN
    /\ \A c \in Callers :
         /\ call[c].op \in Ops \cup {Nil}
         /\ call[c].pc \in {"idle", "rewind", "checkpoint", "signers", "last",
                             "secondToLast", "done"}
         /\ call[c].arg \in BlockNumbers \cup Masternodes \cup {Nil}
         /\ call[c].number \in Uint /\ call[c].checkpoint \in Uint
         /\ call[c].pc = "done" <=> call[c].out # Nil
         /\ call[c].out # Nil => call[c].out.status \in Statuses

\* GetVotersRewards pays only for a checkpoint that is settled: the rewards it
\* returns are those of a checkpoint block at the start of an epoch, after the
\* reward checkpoint, and one full epoch below the block the handler read as
\* current, whatever the chain did between the handler's reads (lines 556-577).
RewardsOnlyForSettledCheckpoint ==
    \A c \in Callers :
        Answered(c, "GetVotersRewards") =>
            LET checkpoint == call[c].out.value.checkpoint
                number == call[c].out.value.number
            IN  /\ checkpoint % Epoch = 0
                /\ checkpoint > RewardCheckpoint
                /\ checkpoint + Epoch <= number
                /\ number < checkpoint + 2 * Epoch

\* GetEpochDuration measures one epoch: when it answers, the two blocks whose
\* times it subtracts are consecutive checkpoints, Epoch blocks apart, the
\* later one at or below the block it read as current, whatever the chain
\* did between the handler's reads (lines 643-648).
EpochDurationSpansOneEpoch ==
    \A c \in Callers :
        Answered(c, "GetEpochDuration") =>
            LET v == call[c].out.value
            IN  /\ v.to % Epoch = 0
                /\ v.from + Epoch = v.to
                /\ v.to <= call[c].number

\* The guard of line 575 returns nil when there is no checkpoint to pay for:
\* on a PoSV chain shorter than one epoch GetVotersRewards and
\* GetEpochDuration answer, they do not panic.
YoungChainQueryReturns ==
    \A c \in Callers :
        (posv /\ call[c].op \in {"GetVotersRewards", "GetEpochDuration"} /\ call[c].number < Epoch)
            => ~Panicked(c)

\* On a PoSV node a reward query that read a current block with a full epoch
\* behind it answers, whatever other requests do to the chain meanwhile
\* (lines 561-564, 646-648 after the read of lines 556, 643).
SettledChainQueryReturns ==
    \A c \in Callers :
        (posv /\ call[c].op \in {"GetVotersRewards", "GetEpochDuration"} /\ call[c].number >= Epoch)
            => ~Panicked(c)

\* GetVotersCap and GetMasternodesCap answer for every checkpoint number a
\* client sends, as they do when the state of the block fails to open (lines
\* 623-629, 655-661).
CapQueryReturns ==
    \A c \in Callers :
        call[c].op \in {"GetVotersCap", "GetMasternodesCap"} => ~Panicked(c)

\* The comment of GetEpochDuration (lines 639-640): the answer is the time the
\* latest epoch took, "30min for each epoch", a duration, never negative.
EpochDurationIsElapsedTime ==
    \A c \in Callers :
        Answered(c, "GetEpochDuration") => call[c].out.value.duration >= 0

\* GetVotersRewards is a query: when a computation of the contracts package
\* fails it is to answer nil, as the return that follows each log.Crit says
\* (lines 587-590, 593-596, 607-610) and as it does when the state does not
\* open (lines 565-568).  No request ends the node.
QueryLeavesNodeRunning ==
    \A c \in Callers : call[c].pc = "done" => call[c].out.status # "exit"
=============================================================================
