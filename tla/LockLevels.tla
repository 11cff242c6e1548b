----------------------------- MODULE LockLevels -----------------------------
(***************************************************************************)
(* The five locking levels of a database file, and SQLITE's order on them. *)
(***************************************************************************)
EXTENDS Naturals

NO_LOCK        == 0
SHARED_LOCK    == 1
RESERVED_LOCK  == 2
PENDING_LOCK   == 3
EXCLUSIVE_LOCK == 4

Level == NO_LOCK .. EXCLUSIVE_LOCK
=============================================================================
