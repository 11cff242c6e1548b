------------------------------ MODULE FileLock ------------------------------
(***************************************************************************)
(* What the locks of a database file promise its users, whatever process   *)
(* they are in: any number of readers, one of whom may have announced that *)
(* it will write (RESERVED), one of whom may wait for the others to leave  *)
(* (PENDING), and a writer who is alone (EXCLUSIVE).  While somebody waits *)
(* nobody starts to read, except beside a reader of the same process.      *)
(*                                                                         *)
(* A handle that rolls back a hot journal goes to PENDING without RESERVED *)
(* and may meet a RESERVED one of another process on its way.              *)
(***************************************************************************)
EXTENDS LockLevels

CONSTANTS
    Files,  \* handles
    Owner   \* the process of each handle

VARIABLE level  \* the lock each handle holds

Compatible(lv) ==
    \A f, g \in Files : f # g =>
        /\ ~(lv[f] = RESERVED_LOCK /\ lv[g] = RESERVED_LOCK)
        /\ lv[f] >= PENDING_LOCK => lv[g] < PENDING_LOCK
        /\ lv[f] = EXCLUSIVE_LOCK => lv[g] = NO_LOCK

Init == level = [f \in Files |-> NO_LOCK]

\* A handle starts to read.
Share(f) ==
    /\ level[f] = NO_LOCK
    /\ \A g \in Files :
          \/ level[g] < PENDING_LOCK
          \/ /\ level[g] = PENDING_LOCK
             /\ \E h \in Files : Owner[h] = Owner[f] /\ level[h] # NO_LOCK
    /\ level' = [level EXCEPT ![f] = SHARED_LOCK]

\* A reader goes up.
Raise(f, l) ==
    /\ NO_LOCK < level[f] /\ level[f] < l
    /\ level' = [level EXCEPT ![f] = l]
    /\ Compatible(level')

\* A handle ends its write or its read.
Lower(f, l) ==
    /\ l <= SHARED_LOCK /\ l < level[f]
    /\ level' = [level EXCEPT ![f] = l]

\* The handles of a process end with it.
Vanish(p) == level' = [f \in Files |-> IF Owner[f] = p THEN NO_LOCK ELSE level[f]]

Next ==
    \/ \E f \in Files : Share(f)
    \/ \E f \in Files, l \in Level : Raise(f, l) \/ Lower(f, l)
    \/ \E h \in Files : Vanish(Owner[h])

Spec == Init /\ [][Next]_level
=============================================================================
