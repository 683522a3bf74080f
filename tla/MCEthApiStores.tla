--------------------------- MODULE MCEthApiStores ---------------------------
(***************************************************************************)
(* EthApiStores for TLC: two request goroutines, one transaction, one      *)
(* order, a chain that reaches block 1 and reward files for block 1.  Hash *)
(* 2 names a block the chain never holds; a SetHead to 0 takes block 1,    *)
(* its receipts and its header away while another request is between two   *)
(* reads, and block 1 arrives again after it.                              *)
(***************************************************************************)
EXTENDS EthApiStores, TLC

MCMaxHead == 1
MCRewardBlocks == {1}

\* request goroutines are interchangeable
MCSymmetry == Permutations(Callers)
=============================================================================
