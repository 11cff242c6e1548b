-------------------------- MODULE MCHybridStorage ---------------------------
(***************************************************************************)
(* Two keys; a small object, and one of more than the limit.  Without an   *)
(* expiry, an entry stays a second in memory and for ever on disk.         *)
(***************************************************************************)
EXTENDS HybridStorage, TLC

CONSTANTS small, large

MCSize == [x \in Objects |-> IF x = large THEN 5 ELSE 1]
MCExpiries == {Never, Seconds(1), OnDate(1)}
MCMemoryExpiry == Seconds(1)
MCDiskExpiry == Never
MCSymmetry == Permutations(Keys)

ASSUME MCMemoryFirst == MemoryFirst
=============================================================================
