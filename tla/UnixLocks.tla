----------------------------- MODULE UnixLocks ------------------------------
(***************************************************************************)
(* The locks of a database file as WCDB's SQLite keeps them with POSIX     *)
(* advisory locks (os_unix.c), and the queue of waiting threads WCDB adds  *)
(* to them (os_wcdb.c).                                                    *)
(*                                                                         *)
(* A POSIX lock belongs to a process, not to a handle: two handles of one  *)
(* process never exclude each other, and closing any of them drops every   *)
(* lock of the process.  So each process keeps, per file, a record of the  *)
(* locks of its handles (unixInodeInfo) under one mutex, puts off closing  *)
(* a descriptor while locks are held, and asks the system only for what    *)
(* other processes must see.  Here every call of fcntl is a step: other    *)
(* processes run between them, the handles of the same process do not,     *)
(* since the mutex is held for the whole of a lock or unlock.              *)
(*                                                                         *)
(* A handle that its own process keeps from a lock queues up and sleeps,   *)
(* until an unlock signals it or ten seconds pass; then the attempt        *)
(* returns SQLITE_BUSY.  What becomes of a BUSY is the caller's business:  *)
(* sqlite3BtreeBeginTrans and pager_wait_on_lock, whose busy handler       *)
(* always says "again", retry; an upgrade from a read gives up.            *)
(***************************************************************************)
EXTENDS LockLevels, Sequences, FiniteSets

CONSTANTS
    Files,     \* handles (unixFile), each used by a thread of its own
    Procs,     \* processes that open the database
    Owner,     \* the process of each handle
    Main,      \* handles used by the main thread of their process
    Writers,   \* handles opened for writing; the others are read-only
    MaxStale   \* bound: entries without a sleeper that timeouts leave in a queue

ASSUME FilesAssumption == IsFiniteSet(Files)
ASSUME OwnerAssumption == Owner \in [Files -> Procs]
ASSUME MainAssumption == Main \subseteq Files
ASSUME WritersAssumption == Writers \subseteq Files
ASSUME MaxStaleAssumption == MaxStale \in Nat

VARIABLES
    isOpen,    \* whether the handle is open
    fileLock,  \* unixFile.eFileLock
    inode,     \* unixInodeInfo of the file in each process
    posix,     \* fcntl locks each process holds on the three byte ranges
    queue,     \* unixInodeInfo.qWaitQueue
    pc,        \* where the thread of each handle is in unixLock or posixUnlock
    op,        \* what the caller of these functions is doing
    hot,       \* whether the handle is to roll back a hot journal first
    target,    \* the level an unlock under way goes down to
    late       \* auxiliary: the processes in which a wait has timed out

callers == <<op, hot, target>>
vars == <<isOpen, fileLock, inode, posix, queue, pc, callers, late>>

Range3 == {"pending", "reserved", "shared"}
Pc == {"idle", "shared", "drop", "dropBusy", "exclusive", "asleep", "backoff",
       "clear", "release", "leave"}
Op == {"none", "read", "write", "upgrade", "commit"}
Inode == [eFileLock : Level, nShared : Nat, nLock : Nat, nUnused : Nat]

\* A waiting thread.  freed: the handle was closed while its entry was queued.
WaitInfo == [file : Files, eFileLock : Level, eFlag : {"shared", "exclusive"},
             freed : BOOLEAN]

NewInode == [eFileLock |-> NO_LOCK, nShared |-> 0, nLock |-> 0, nUnused |-> 0]
Unlocked == [r \in Range3 |-> "none"]

HandlesOf(p) == {f \in Files : Owner[f] = p}

\* The thread of f is inside unixLock or posixUnlock and holds the VFS mutex.
HoldsMutex(f) == pc[f] \in {"shared", "drop", "dropBusy", "exclusive", "clear",
                            "release"}
MutexFree(p) == \A f \in HandlesOf(p) : ~HoldsMutex(f)

\* F_SETLK grants a lock when no other process holds one that conflicts.
MayRead(p, r) == \A q \in Procs \ {p} : posix[q][r] # "write"
MayWrite(p, r) == \A q \in Procs \ {p} : posix[q][r] = "none"

\* unixCheckReservedLock: somebody, in this process or another, holds RESERVED.
ReservedHeld(p) == inode[p].eFileLock > SHARED_LOCK \/ ~MayWrite(p, "reserved")

(***************************************************************************)
(* Callers.  A read takes SHARED; a write takes SHARED, then RESERVED; an  *)
(* upgrade takes RESERVED inside a read; a commit takes EXCLUSIVE, and so  *)
(* does the rollback of a hot journal found when SHARED has been taken.    *)
(***************************************************************************)
Wanted(f) ==
    IF hot[f] \/ op[f] = "commit" THEN EXCLUSIVE_LOCK
    ELSE IF op[f] = "upgrade" \/ (op[f] = "write" /\ fileLock[f] # NO_LOCK) THEN RESERVED_LOCK
    ELSE SHARED_LOCK

\* bWait: pager_wait_on_lock sets it and clears it, so that of the locks a write
\* asks for only the first may wait.
MayWait(f) == ~hot[f] /\ (op[f] \in {"upgrade", "commit"} \/ fileLock[f] = NO_LOCK)

\* An attempt came back BUSY: retry as it is, or give the lock up first.
AfterBusy(f) ==
    IF hot[f] \/ op[f] = "upgrade" \/ (op[f] = "write" /\ fileLock[f] = SHARED_LOCK)
    THEN "backoff"
    ELSE "idle"

\* An attempt that is about to begin.
Attempts(f) ==
    /\ pc[f] = "idle"
    /\ op[f] # "none"
    /\ fileLock[f] < Wanted(f)
    /\ MutexFree(Owner[f])

(***************************************************************************)
(* The waiting queue.                                                      *)
(***************************************************************************)

\* A lock of the process, held through another handle, precludes going from lk
\* to l.
Precludes(in, lk, l) ==
    lk # in.eFileLock /\ (in.eFileLock >= PENDING_LOCK \/ l > SHARED_LOCK)

\* Whether entry e still waits, its handle's lock being lk.
StillWaits(in, e, lk) ==
    \/ e.eFlag = "shared" /\ Precludes(in, lk, e.eFileLock)
    \/ e.eFlag = "exclusive" /\ e.eFileLock = EXCLUSIVE_LOCK /\ in.nShared > 1

\* What may be read as the lock of an entry's handle: of a freed one, anything.
LockRead(e) == IF e.freed THEN Level ELSE {fileLock[e.file]}

\* TrySignal signals entries from the front until one still waits.  n is how many go.
SignalledByTrySignal(p, in, n) ==
    /\ \A i \in 1 .. n : \E lk \in LockRead(queue[p][i]) : ~StillWaits(in, queue[p][i], lk)
    /\ n < Len(queue[p]) =>
          \E lk \in LockRead(queue[p][n + 1]) : StillWaits(in, queue[p][n + 1], lk)

\* The queue without its first n entries.
PoppedTwice(q, n) == SubSeq(q, n + 2, Len(q))
Popped(q, n) == SubSeq(q, n + 1, Len(q))

\* The first n entries leave the queue and their threads, if asleep, wake up;
\* the thread of f goes on to pcf.
SignalFirst(p, n, f, pcf) ==
    /\ queue' = [queue EXCEPT ![p] = Popped(@, n)]
    /\ pc' = [g \in Files |->
                 CASE g = f -> pcf
                   [] g # f /\ pc[g] = "asleep"
                      /\ \E i \in 1 .. n : queue[p][i].file = g -> AfterBusy(g)
                   [] OTHER -> pc[g]]

SignalNobody(p, in, f, pcf) == SignalFirst(p, 0, f, pcf)
TrySignal(p, in, f, pcf) ==
    \E n \in 0 .. Len(queue[p]) : SignalledByTrySignal(p, in, n) /\ SignalFirst(p, n, f, pcf)

\* Two threads that both want to go above SHARED, one of them to EXCLUSIVE, would
\* wait for each other.
Clash(l, front) ==
    \/ l = EXCLUSIVE_LOCK /\ front.eFileLock > SHARED_LOCK
    \/ front.eFileLock = EXCLUSIVE_LOCK /\ l > SHARED_LOCK

NewEntry(f, l, flag) == [file |-> f, eFileLock |-> l, eFlag |-> flag, freed |-> FALSE]

\* WCDBOsWait, and the return of BUSY.
WaitOrReturn(f, l, flag) ==
    LET p == Owner[f] IN
    \/ /\ ~MayWait(f)
       /\ pc' = [pc EXCEPT ![f] = AfterBusy(f)]
       /\ UNCHANGED queue
    \/ /\ MayWait(f)
       /\ queue[p] # <<>> /\ Clash(l, Head(queue[p]))
       /\ SignalFirst(p, 1, f, AfterBusy(f))
    \/ /\ MayWait(f)
       /\ queue[p] # <<>> => ~Clash(l, Head(queue[p]))
       /\ queue' = [queue EXCEPT ![p] =
                       IF f \in Main THEN <<NewEntry(f, l, flag)>> \o @
                                     ELSE Append(@, NewEntry(f, l, flag))]
       /\ pc' = [pc EXCEPT ![f] = "asleep"]

(***************************************************************************)
(* Opening, closing and what the callers start.                            *)
(***************************************************************************)
Init ==
    /\ isOpen = [f \in Files |-> FALSE]
    /\ fileLock = [f \in Files |-> NO_LOCK]
    /\ inode = [p \in Procs |-> NewInode]
    /\ posix = [p \in Procs |-> Unlocked]
    /\ queue = [p \in Procs |-> <<>>]
    /\ pc = [f \in Files |-> "idle"]
    /\ op = [f \in Files |-> "none"]
    /\ hot = [f \in Files |-> FALSE]
    /\ target = [f \in Files |-> NO_LOCK]
    /\ late = {}

\* unixOpen takes over a descriptor whose closing was put off, if there is one.
TakesOver(n) == n - 1
MayTakeOver(n) == IF n > 0 THEN n - 1 ELSE n

Open(f) ==
    LET p == Owner[f] IN
    /\ ~isOpen[f] /\ MutexFree(p)
    /\ isOpen' = [isOpen EXCEPT ![f] = TRUE]
    /\ inode' = [inode EXCEPT ![p].nUnused = MayTakeOver(@)]
    /\ UNCHANGED <<fileLock, posix, queue, pc, callers>>

\* Whether unixClose puts off closing the descriptor: while the process has locks.
ClosesAtOnce(in) == FALSE
PutsOffClose(in) == in.nLock > 0
OneMoreUnused(in) == [in EXCEPT !.nUnused = @ + 1]

\* unixClose of a handle that is not locked.  close() drops the locks of the whole
\* process; the last handle takes the inode with it, and the queue.
Close(f) ==
    LET p == Owner[f]
        last == \A g \in HandlesOf(p) : isOpen[g] => g = f
    IN
    /\ isOpen[f] /\ pc[f] = "idle" /\ op[f] = "none" /\ fileLock[f] = NO_LOCK
    /\ MutexFree(p)
    /\ isOpen' = [isOpen EXCEPT ![f] = FALSE]
    /\ inode' = [inode EXCEPT ![p] =
                    IF last THEN NewInode
                    ELSE IF PutsOffClose(inode[p]) THEN OneMoreUnused(@)
                    ELSE @]
    /\ posix' = [posix EXCEPT ![p] = IF PutsOffClose(inode[p]) THEN @ ELSE Unlocked]
    /\ queue' = [queue EXCEPT ![p] =
                    IF last THEN <<>>
                    ELSE [i \in DOMAIN @ |->
                            IF @[i].file = f THEN [@[i] EXCEPT !.freed = TRUE] ELSE @[i]]]
    /\ UNCHANGED <<fileLock, pc, callers>>

\* sqlite3BtreeBeginTrans from no transaction, or from a read (Upgrade).
Begin(f, o) ==
    /\ isOpen[f] /\ pc[f] = "idle" /\ op[f] = "none" /\ fileLock[f] = NO_LOCK
    /\ op' = [op EXCEPT ![f] = o]
    /\ UNCHANGED <<isOpen, fileLock, inode, posix, queue, pc, hot, target>>
BeginRead(f) == Begin(f, "read")
BeginWrite(f) == f \in Writers /\ Begin(f, "write")

\* Upgrade of a read, and the commit of a write: pager_wait_on_lock(EXCLUSIVE).
Go(f, from, o) ==
    /\ pc[f] = "idle" /\ op[f] = "none" /\ fileLock[f] = from
    /\ op' = [op EXCEPT ![f] = o]
    /\ UNCHANGED <<isOpen, fileLock, inode, posix, queue, pc, hot, target>>
Upgrade(f) == f \in Writers /\ Go(f, SHARED_LOCK, "upgrade")
Commit(f) == Go(f, RESERVED_LOCK, "commit")

\* A write, or the rollback of a hot journal, fails in a way that leaves the pager in
\* PAGER_ERROR: everything is unlocked at once, and the caller gives up.
Fail(f) ==
    /\ pc[f] = "idle" /\ (hot[f] \/ op[f] = "none") /\ fileLock[f] > SHARED_LOCK
    /\ op' = [op EXCEPT ![f] = "none"]
    /\ hot' = [hot EXCEPT ![f] = FALSE]
    /\ pc' = [pc EXCEPT ![f] = "backoff"]
    /\ UNCHANGED <<isOpen, fileLock, inode, posix, queue, target>>

(***************************************************************************)
(* unixLock.                                                               *)
(***************************************************************************)

\* The caller once it has its lock: a handle that has SHARED may find a hot journal,
\* which nobody holding RESERVED is using.  (To a read-only one that is an error,
\* and its read ends.)
Proceed(f, l) ==
    /\ hot' \in {hot} \cup (IF f \in Writers /\ l = SHARED_LOCK /\ ~ReservedHeld(Owner[f])
                           THEN {[hot EXCEPT ![f] = TRUE]} ELSE {})
    /\ op' = [op EXCEPT ![f] =
                 IF hot'[f] \/ (@ = "write" /\ l = SHARED_LOCK) THEN @ ELSE "none"]
    /\ UNCHANGED target

\* Another handle of the process stands in the way.
Precluded(f) ==
    LET p == Owner[f] IN
    /\ Attempts(f)
    /\ Precludes(inode[p], fileLock[f], Wanted(f))
    /\ WaitOrReturn(f, Wanted(f), "shared")
    /\ UNCHANGED <<isOpen, fileLock, inode, posix, callers>>

Admitted(f, l) ==
    /\ Attempts(f) /\ Wanted(f) = l
    /\ ~Precludes(inode[Owner[f]], fileLock[f], l)

\* One more reader in the process.
NotCounted(in) == in
CountedIn(in) == [in EXCEPT !.nShared = @ + 1, !.nLock = @ + 1]
FirstIn(in) == [in EXCEPT !.eFileLock = SHARED_LOCK, !.nShared = 1, !.nLock = @ + 1]

\* The process already reads: no system call.
ShareInProcess(f) ==
    LET p == Owner[f] IN
    /\ Admitted(f, SHARED_LOCK)
    /\ inode[p].eFileLock \in {SHARED_LOCK, RESERVED_LOCK}
    /\ fileLock' = [fileLock EXCEPT ![f] = SHARED_LOCK]
    /\ inode' = [inode EXCEPT ![p] = CountedIn(@)]
    /\ Proceed(f, SHARED_LOCK)
    /\ UNCHANGED <<isOpen, posix, queue, pc>>

\* The pending byte comes first: read-locked on the way to SHARED, write-locked on
\* the way to EXCLUSIVE.  Refused by another process, nobody waits.
PendingByte(f) ==
    LET p == Owner[f]
        share == Wanted(f) = SHARED_LOCK
        kind == IF share THEN "read" ELSE "write"
        granted == IF share THEN MayRead(p, "pending") ELSE MayWrite(p, "pending")
    IN
    /\ \/ Admitted(f, SHARED_LOCK) /\ inode[p].eFileLock = NO_LOCK
       \/ Admitted(f, EXCLUSIVE_LOCK) /\ fileLock[f] < PENDING_LOCK
    /\ IF granted
       THEN /\ posix' = [posix EXCEPT ![p]["pending"] = kind]
            /\ pc' = [pc EXCEPT ![f] = IF share THEN "shared" ELSE "exclusive"]
       ELSE /\ pc' = [pc EXCEPT ![f] = AfterBusy(f)]
            /\ UNCHANGED posix
    /\ UNCHANGED <<isOpen, fileLock, inode, queue, callers>>

SharedRange(f) ==
    LET p == Owner[f] IN
    /\ pc[f] = "shared"
    /\ IF MayRead(p, "shared")
       THEN /\ posix' = [posix EXCEPT ![p]["shared"] = "read"]
            /\ pc' = [pc EXCEPT ![f] = "drop"]
       ELSE /\ pc' = [pc EXCEPT ![f] = "dropBusy"]
            /\ UNCHANGED posix
    /\ UNCHANGED <<isOpen, fileLock, inode, queue, callers>>

DropPending(f) ==
    LET p == Owner[f] IN
    /\ pc[f] = "drop"
    /\ posix' = [posix EXCEPT ![p]["pending"] = "none"]
    /\ fileLock' = [fileLock EXCEPT ![f] = SHARED_LOCK]
    /\ inode' = [inode EXCEPT ![p] = FirstIn(@)]
    /\ pc' = [pc EXCEPT ![f] = "idle"]
    /\ Proceed(f, SHARED_LOCK)
    /\ UNCHANGED <<isOpen, queue>>

DropPendingBusy(f) ==
    /\ pc[f] = "dropBusy"
    /\ posix' = [posix EXCEPT ![Owner[f]]["pending"] = "none"]
    /\ pc' = [pc EXCEPT ![f] = AfterBusy(f)]
    /\ UNCHANGED <<isOpen, fileLock, inode, queue, callers>>

Reserve(f) ==
    LET p == Owner[f] IN
    /\ Admitted(f, RESERVED_LOCK)
    /\ IF MayWrite(p, "reserved")
       THEN /\ posix' = [posix EXCEPT ![p]["reserved"] = "write"]
            /\ fileLock' = [fileLock EXCEPT ![f] = RESERVED_LOCK]
            /\ inode' = [inode EXCEPT ![p].eFileLock = RESERVED_LOCK]
            /\ Proceed(f, RESERVED_LOCK)
            /\ UNCHANGED pc
       ELSE /\ pc' = [pc EXCEPT ![f] = AfterBusy(f)]
            /\ UNCHANGED <<posix, fileLock, inode, callers>>
    /\ UNCHANGED <<isOpen, queue>>

\* No other handle of the process reads.
AloneOrTwo(in) == in.nShared <= 2
Alone(in) == in.nShared = 1

\* The pending byte is held: EXCLUSIVE if nobody reads, else PENDING stays.
ExclusiveRange(f) ==
    LET p == Owner[f]
        alone == Alone(inode[p])
        granted == alone /\ MayWrite(p, "shared")
        reached == IF granted THEN EXCLUSIVE_LOCK ELSE PENDING_LOCK
    IN
    /\ \/ pc[f] = "exclusive"
       \/ Admitted(f, EXCLUSIVE_LOCK) /\ fileLock[f] = PENDING_LOCK
    /\ fileLock' = [fileLock EXCEPT ![f] = reached]
    /\ inode' = [inode EXCEPT ![p].eFileLock = reached]
    /\ \/ /\ granted
          /\ posix' = [posix EXCEPT ![p]["shared"] = "write"]
          /\ pc' = [pc EXCEPT ![f] = "idle"]
          /\ op' = [op EXCEPT ![f] = IF hot[f] THEN @ ELSE "none"]
          /\ UNCHANGED <<queue, hot, target>>
       \/ /\ ~alone
          /\ WaitOrReturn(f, EXCLUSIVE_LOCK, "exclusive")
          /\ UNCHANGED <<posix, callers>>
       \/ /\ alone /\ ~granted
          /\ pc' = [pc EXCEPT ![f] = AfterBusy(f)]
          /\ UNCHANGED <<posix, queue, callers>>
    /\ UNCHANGED isOpen

\* Ten seconds have passed.  The entry stays in the queue, without a sleeper.
Stale(p) == Len(queue[p]) - Cardinality({f \in HandlesOf(p) : pc[f] = "asleep"})
Timeout(f) ==
    /\ pc[f] = "asleep"
    /\ Stale(Owner[f]) < MaxStale
    /\ pc' = [pc EXCEPT ![f] = AfterBusy(f)]
    /\ late' = late \cup {Owner[f]}
    /\ UNCHANGED <<isOpen, fileLock, inode, posix, queue, callers>>

(***************************************************************************)
(* posixUnlock, down to SHARED or NO_LOCK.                                 *)
(***************************************************************************)

\* What the caller unlocks to: everything when it backs off or ends a read, SHARED
\* when a hot journal is rolled back or a write has ended.
UnlocksTo(f, t) ==
    /\ MutexFree(Owner[f])
    /\ \/ pc[f] = "backoff" /\ t = NO_LOCK
       \/ pc[f] = "idle" /\ hot[f] /\ fileLock[f] = EXCLUSIVE_LOCK /\ t = SHARED_LOCK
       \/ pc[f] = "idle" /\ op[f] = "none"
          /\ t = IF fileLock[f] > SHARED_LOCK THEN SHARED_LOCK ELSE NO_LOCK
    /\ fileLock[f] > t
    /\ target' = [target EXCEPT ![f] = t]

\* A write that ends turns its lock on the shared range into a read-lock.
Downgrade(f) ==
    /\ UnlocksTo(f, SHARED_LOCK)
    /\ posix' = [posix EXCEPT ![Owner[f]]["shared"] = "read"]
    /\ pc' = [pc EXCEPT ![f] = "clear"]
    /\ UNCHANGED <<isOpen, fileLock, inode, queue, op, hot>>

\* Pending and reserved bytes are dropped together.
ClearBytes(f) ==
    LET p == Owner[f]
        in == [inode[p] EXCEPT !.eFileLock = SHARED_LOCK]
    IN
    /\ \/ pc[f] = "clear" /\ UNCHANGED target
       \/ UnlocksTo(f, NO_LOCK) /\ fileLock[f] > SHARED_LOCK
    /\ posix' = [posix EXCEPT ![p] = [@ EXCEPT !["pending"] = "none", !["reserved"] = "none"]]
    /\ inode' = [inode EXCEPT ![p] = in]
    /\ IF target'[f] = SHARED_LOCK
       THEN TrySignal(p, in, f, "leave")
       ELSE pc' = [pc EXCEPT ![f] = "release"] /\ UNCHANGED queue
    /\ UNCHANGED <<isOpen, fileLock, op, hot>>

\* The last reader of the process drops its locks, and descriptors whose closing was
\* put off are closed.
Release(f) ==
    LET p == Owner[f]
        n == inode[p].nShared - 1
        k == inode[p].nLock - 1
        in == [eFileLock |-> IF n = 0 THEN NO_LOCK ELSE inode[p].eFileLock,
               nShared |-> n, nLock |-> k,
               nUnused |-> IF k = 0 THEN 0 ELSE inode[p].nUnused]
    IN
    /\ \/ pc[f] = "release" /\ UNCHANGED target
       \/ UnlocksTo(f, NO_LOCK) /\ fileLock[f] = SHARED_LOCK
    /\ posix' = [posix EXCEPT ![p] = IF n = 0 \/ k = 0 THEN Unlocked ELSE @]
    /\ inode' = [inode EXCEPT ![p] = in]
    /\ TrySignal(p, in, f, "leave")
    /\ UNCHANGED <<isOpen, fileLock, op, hot>>

\* eFileLock is written after the mutex has been left; then the caller goes on.
Leave(f) ==
    /\ pc[f] = "leave"
    /\ fileLock' = [fileLock EXCEPT ![f] = target[f]]
    /\ pc' = [pc EXCEPT ![f] = "idle"]
    /\ hot' = [hot EXCEPT ![f] = FALSE]
    /\ op' = [op EXCEPT ![f] =
                 IF @ = "upgrade" \/ (@ = "read" /\ target[f] = SHARED_LOCK) THEN "none" ELSE @]
    /\ UNCHANGED <<isOpen, inode, posix, queue, target>>

\* A process ends at any moment; the system drops its locks.
Crash(p) ==
    LET gone(v, d) == [f \in Files |-> IF Owner[f] = p THEN d ELSE v[f]] IN
    /\ \E f \in HandlesOf(p) : isOpen[f]
    /\ isOpen' = gone(isOpen, FALSE)
    /\ fileLock' = gone(fileLock, NO_LOCK)
    /\ pc' = gone(pc, "idle")
    /\ op' = gone(op, "none")
    /\ hot' = gone(hot, FALSE)
    /\ target' = gone(target, NO_LOCK)
    /\ inode' = [inode EXCEPT ![p] = NewInode]
    /\ posix' = [posix EXCEPT ![p] = Unlocked]
    /\ queue' = [queue EXCEPT ![p] = <<>>]
    /\ late' = late \ {p}

(***************************************************************************)
(* The specification.                                                      *)
(***************************************************************************)
Locking(f) ==
    \/ Precluded(f) \/ ShareInProcess(f) \/ PendingByte(f) \/ SharedRange(f)
    \/ DropPending(f) \/ DropPendingBusy(f) \/ Reserve(f) \/ ExclusiveRange(f)
Unlocking(f) == Downgrade(f) \/ ClearBytes(f) \/ Release(f) \/ Leave(f)
Using(f) ==
    Open(f) \/ Close(f) \/ BeginRead(f) \/ BeginWrite(f) \/ Upgrade(f) \/ Commit(f)
    \/ Fail(f)

Next ==
    \/ \E f \in Files : (Using(f) \/ Locking(f) \/ Unlocking(f)) /\ UNCHANGED late
    \/ \E f \in Files : Timeout(f)
    \/ \E p \in Procs : Crash(p)

Spec == Init /\ [][Next]_vars

(***************************************************************************)
(* Properties.                                                             *)
(***************************************************************************)
TypeOK ==
    /\ isOpen \in [Files -> BOOLEAN]
    /\ fileLock \in [Files -> Level]
    /\ inode \in [Procs -> Inode]
    /\ posix \in [Procs -> [Range3 -> {"none", "read", "write"}]]
    /\ queue \in [Procs -> Seq(WaitInfo)]
    /\ pc \in [Files -> Pc]
    /\ op \in [Files -> Op]
    /\ hot \in [Files -> BOOLEAN]
    /\ target \in [Files -> {NO_LOCK, SHARED_LOCK}]
    /\ late \subseteq Procs

\* The lock a handle may rely on: from the moment it begins to unlock, the level it
\* goes down to.
Held(f) == IF pc[f] \in {"clear", "release", "leave"} THEN target[f] ELSE fileLock[f]

\* The level at which the record of the process still counts the handle.
Counted(f) ==
    CASE pc[f] = "leave" -> target[f]
      [] pc[f] = "release" -> SHARED_LOCK
      [] OTHER -> fileLock[f]

Readers(p) == {f \in HandlesOf(p) : Counted(f) # NO_LOCK}

\* The record of a process agrees with its handles: it counts the readers, and its
\* level is the highest of theirs (the assertions of posixUnlock, os_unix.c:1817-1819).
InodeAgrees ==
    \A p \in Procs :
        /\ inode[p].nShared = Cardinality(Readers(p))
        /\ inode[p].nLock = inode[p].nShared
        /\ \A f \in HandlesOf(p) : Counted(f) <= inode[p].eFileLock
        /\ inode[p].eFileLock # NO_LOCK =>
              \E f \in HandlesOf(p) : Counted(f) = inode[p].eFileLock

\* The lock of a handle is backed by the POSIX locks of its process, and stays so
\* whatever the other handles of the process do: share, unlock or close.
LockBacked ==
    \A f \in Files :
        LET has == posix[Owner[f]] IN
        /\ Held(f) >= SHARED_LOCK => has["shared"] # "none"
        /\ Held(f) = RESERVED_LOCK => has["reserved"] = "write"
        /\ Held(f) >= PENDING_LOCK => has["pending"] = "write"
        /\ Held(f) = EXCLUSIVE_LOCK => has["shared"] = "write"

\* Every sleeping thread can still be signalled: it has an entry in the queue of its
\* process, whatever entries other timeouts, signals and closes left or took.
SleepersQueued ==
    \A f \in Files : pc[f] = "asleep" =>
        \E i \in DOMAIN queue[Owner[f]] :
            queue[Owner[f]][i].file = f /\ ~queue[Owner[f]][i].freed

\* No lost wake-up at the head: as long as no wait of the process has timed out, and
\* while nobody is inside, the thread that waits first waits for a lock it cannot have
\* (WCDBOsTrySignal).
HeadWaits ==
    \A p \in Procs : p \notin late /\ MutexFree(p) /\ queue[p] # <<>> =>
        LET e == Head(queue[p]) IN
        pc[e.file] = "asleep" /\ ~e.freed => StillWaits(inode[p], e, fileLock[e.file])

\* Timeouts leave entries that spend signals on nobody.  Even so, once a process has
\* let go of its last lock nobody sleeps at the head of its queue.
WokenWhenUnlocked ==
    \A p \in Procs : inode[p].eFileLock = NO_LOCK /\ queue[p] # <<>> =>
        LET e == Head(queue[p]) IN pc[e.file] # "asleep" \/ e.freed

\* Whatever the interleaving, the handles of all processes are locked as FileLock
\* promises (the comment of unixLock, os_unix.c:1542-1575).
Lock == INSTANCE FileLock WITH level <- [f \in Files |-> Held(f)]
RefinesFileLock == Lock!Spec
=============================================================================
