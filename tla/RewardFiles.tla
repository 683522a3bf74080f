----------------------------- MODULE RewardFiles -----------------------------
(***************************************************************************)
(* The reward folder, as GetRewardByHash reads it.  The handler is the     *)
(* same in LesApiBackend and EthApiBackend (src/les/api_backend.go, lines  *)
(* 211-233 and 522-544): the rewards of a block are read from a JSON file  *)
(* named after the block's number and hash, or else after its number and   *)
(* the hash it has without its validator field.                            *)
(*                                                                         *)
(* The files are written by the consensus engine while requests read them. *)
(* A file is written in place: it is created or truncated, then filled.    *)
(* This module holds what one read of the folder gives; the steps of the   *)
(* handler are actions of EthApiStores and of LesApiBackend.               *)
(***************************************************************************)
CONSTANT Nil    \* Go's nil

\* the two names a block's reward file may have
ByHash == "Hash"
ByHashNoValidator == "HashNoValidator"
Names == {ByHash, ByHashNoValidator}

\* what a file holds: nothing (no such file), a part of its JSON, all of it
Missing == "missing"
Partial == "partial"
Written == "written"
Contents == {Missing, Partial, Written}

\* the folder has files for the blocks of its domain and for no other
FileOf(files, block, name) ==
    IF <<block, name>> \in DOMAIN files THEN files[<<block, name>>] ELSE Missing

\* an answer: the rewards of a block, or the empty map
Empty == [rewardsOf |-> Nil]
RewardsOfBlock(b) == [rewardsOf |-> b]

\* ioutil.ReadFile: an error when there is no such file
ReadFile(files, block, name) ==
    IF FileOf(files, block, name) = Missing THEN [err |-> TRUE, data |-> Nil]
    ELSE [err |-> FALSE, data |-> FileOf(files, block, name)]

\* the JSON is taken for rewards whether or not it is whole
UnmarshalUnchecked(block, data) == RewardsOfBlock(block)

\* json.Unmarshal into the rewards map, and the answer that follows: the
\* rewards when the data is whole, else the empty map at the handler's end
Unmarshal(block, data) ==
    IF data = Written THEN RewardsOfBlock(block) ELSE Empty
=============================================================================
