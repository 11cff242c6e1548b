------------------------------- MODULE MCWal --------------------------------
(***************************************************************************)
(* Two connections.  Both read and a writes; in one instance a checkpoints *)
(* in mode PASSIVE and b in mode TRUNCATE, in the other only b checkpoints *)
(* and in mode PASSIVE, as WCDB's background queue does.                   *)
(***************************************************************************)
EXTENDS Wal, TLC

CONSTANTS a, b

MCModes == [h \in Checkpointers |-> IF h = a THEN {"PASSIVE"} ELSE {"TRUNCATE"}]
MCPassive == [h \in Checkpointers |-> {"PASSIVE"}]
=============================================================================
