-------------------------- MODULE MCEthApiBackend --------------------------
(***************************************************************************)
(* EthApiBackend for TLC: two request goroutines, two masternodes, epochs  *)
(* of two blocks, integers of four bits.  The chain reaches block 7: the   *)
(* third checkpoint (block 4) is the first GetVotersRewards pays for, with *)
(* current block 6 or 7, the chains below it take every early return, and  *)
(* no wrapped number (14 or 15) names a block of the chain.                *)
(***************************************************************************)
EXTENDS EthApiBackend, TLC

MCEpoch == 2
MCRewardCheckpoint == 2
MCWidth == 4
MCMaxHead == 7
MCBlockPeriod == 2

\* request goroutines are interchangeable, and so are masternodes
MCSymmetry == Permutations(Callers) \cup Permutations(Masternodes)
=============================================================================
