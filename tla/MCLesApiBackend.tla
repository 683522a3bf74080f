-------------------------- MODULE MCLesApiBackend --------------------------
(***************************************************************************)
(* LesApiBackend for TLC: two request goroutines, one transaction, one     *)
(* order, a chain that reaches block 2.  Hash 3 names a block the chain    *)
(* never holds; a SetHead from 2 to 0 drops two headers while the other    *)
(* goroutine waits for a retrieval, and blocks arrive again after it.      *)
(* Reward files are written for block 1, which a SetHead to 0 removes and  *)
(* leaves the files of.                                                    *)
(***************************************************************************)
EXTENDS LesApiBackend, TLC

MCMaxHead == 2
MCRewardBlocks == {1}

\* request goroutines are interchangeable, and so are transactions
MCSymmetry == Permutations(Callers) \cup Permutations(Txs)
=============================================================================
