-------------------------- MODULE UnixLocksProofs ---------------------------
(***************************************************************************)
(* The file locks, for any handles, processes and bound: the type of their *)
(* state, that the record of a process agrees with its handles, that every *)
(* lock is backed by POSIX locks, and that the handles of all processes    *)
(* are locked as FileLock promises.                                        *)
(***************************************************************************)
EXTENDS UnixLocks, FiniteSetTheorems, SequenceTheorems, TLAPS

USE FilesAssumption, OwnerAssumption, MainAssumption, WritersAssumption,
    MaxStaleAssumption
USE DEF NO_LOCK, SHARED_LOCK, RESERVED_LOCK, PENDING_LOCK, EXCLUSIVE_LOCK, Level

(***************************************************************************)
(* The inductive invariant.                                                *)
(***************************************************************************)

\* What the place of a thread tells of its own handle.
Mine(f) ==
    /\ ~isOpen[f] => fileLock[f] = NO_LOCK /\ pc[f] = "idle" /\ op[f] = "none"
    /\ op[f] = "commit" => /\ fileLock[f] >= RESERVED_LOCK /\ ~hot[f]
                           /\ pc[f] \in {"idle", "exclusive", "asleep"}
    /\ op[f] = "upgrade" => fileLock[f] >= SHARED_LOCK
    /\ hot[f] => fileLock[f] >= SHARED_LOCK /\ op[f] \in {"read", "write"}
    /\ pc[f] \in {"shared", "drop", "dropBusy"} =>
          fileLock[f] = NO_LOCK /\ op[f] \in {"read", "write"}
    /\ pc[f] = "exclusive" => fileLock[f] \in {SHARED_LOCK, RESERVED_LOCK}
    /\ pc[f] = "clear" => target[f] = SHARED_LOCK /\ fileLock[f] > SHARED_LOCK
    /\ pc[f] = "release" => target[f] = NO_LOCK /\ fileLock[f] > SHARED_LOCK
    /\ pc[f] = "leave" => fileLock[f] > target[f]

\* What a thread inside unixLock knows of its process.
Inside(f) ==
    LET in == inode[Owner[f]]
        has == posix[Owner[f]]
    IN
    /\ pc[f] \in {"shared", "drop", "dropBusy"} =>
          in.eFileLock = NO_LOCK /\ has["pending"] = "read"
    /\ pc[f] = "drop" => has["shared"] = "read"
    /\ pc[f] = "exclusive" => has["pending"] = "write" /\ fileLock[f] = in.eFileLock

\* The POSIX locks that stand behind the level a handle is counted at.
Backed(f) ==
    LET has == posix[Owner[f]] IN
    /\ Counted(f) >= SHARED_LOCK => has["shared"] # "none"
    /\ Counted(f) = RESERVED_LOCK => has["reserved"] = "write"
    /\ Counted(f) >= PENDING_LOCK => has["pending"] = "write"
    /\ Held(f) = EXCLUSIVE_LOCK => has["shared"] = "write"

\* One thread of a process is inside at a time.
MutexOne ==
    \A f, g \in Files : Owner[f] = Owner[g] /\ HoldsMutex(f) /\ HoldsMutex(g) => f = g

\* One handle of a process is above SHARED at a time.
AboveOne ==
    \A f, g \in Files :
        Owner[f] = Owner[g] /\ Counted(f) > SHARED_LOCK /\ Counted(g) > SHARED_LOCK => f = g

\* A write-lock of one process excludes any lock of another.
Exclusion ==
    \A p, q \in Procs, r \in Range3 :
        p # q /\ posix[p][r] = "write" => posix[q][r] = "none"

\* The record of a process counts its readers, and tells their highest level.
Counts(p) ==
    /\ inode[p].nShared = Cardinality(Readers(p))
    /\ inode[p].nLock = inode[p].nShared
Tops(p) ==
    /\ \A f \in HandlesOf(p) : Counted(f) <= inode[p].eFileLock
    /\ inode[p].eFileLock # NO_LOCK =>
          \E f \in HandlesOf(p) : Counted(f) = inode[p].eFileLock

IInv ==
    /\ TypeOK
    /\ \A f \in Files : Mine(f) /\ Inside(f) /\ Backed(f)
    /\ MutexOne /\ AboveOne /\ Exclusion
    /\ \A p \in Procs : Counts(p) /\ Tops(p)

(***************************************************************************)
(* A step of one handle leaves the others alone.                           *)
(***************************************************************************)

\* Of the other handles, those asleep may wake up.
Quiet(f) ==
    \A g \in Files : g # f =>
        /\ isOpen'[g] = isOpen[g] /\ fileLock'[g] = fileLock[g] /\ op'[g] = op[g]
        /\ hot'[g] = hot[g] /\ target'[g] = target[g]
        /\ \/ pc'[g] = pc[g]
           \/ pc[g] = "asleep" /\ pc'[g] = AfterBusy(g)

\* Other processes keep their records, locks and queues.
Local(f) ==
    \A q \in Procs : q # Owner[f] =>
        inode'[q] = inode[q] /\ posix'[q] = posix[q] /\ queue'[q] = queue[q]

\* Whoever changes the record or the locks has the mutex, or finds it free.
Turn(f) ==
    \/ HoldsMutex(f)
    \/ MutexFree(Owner[f])
    \/ UNCHANGED <<inode, posix>> /\ ~HoldsMutex(f)'

\* What becomes of the lock the handle may rely on.
Raises(f) == Held(f) # NO_LOCK /\ Held(f) < Held(f)'
Lowers(f) == Held(f)' <= SHARED_LOCK /\ Held(f)' < Held(f)

LEMMA AfterBusyPlace == \A f : AfterBusy(f) \in {"idle", "backoff"}
  BY DEF AfterBusy

\* What a wake-up leaves as it was.
LEMMA OthersKeep ==
    ASSUME IInv, NEW f \in Files, Quiet(f), NEW g \in Files, g # f
    PROVE  /\ Mine(g)'
           /\ Counted(g)' = Counted(g) /\ Held(g)' = Held(g)
           /\ HoldsMutex(g)' <=> HoldsMutex(g)
           /\ pc'[g] \in {"shared", "drop", "dropBusy", "exclusive"} => pc'[g] = pc[g]
  <1>1. Mine(g)
    BY DEF IInv
  <1>2. CASE pc'[g] = pc[g]
    BY <1>1, <1>2 DEF Quiet, Mine, Counted, Held, HoldsMutex
  <1>3. CASE pc[g] = "asleep" /\ pc'[g] = AfterBusy(g)
    <2>1. pc'[g] \in {"idle", "backoff"}
      BY <1>3, AfterBusyPlace
    <2>2. op[g] = "commit" => pc'[g] = "idle"
      BY <1>1, <1>3 DEF AfterBusy, Mine
    <2> QED
      BY <1>1, <1>3, <2>1, <2>2 DEF Quiet, Mine, Counted, Held, HoldsMutex
  <1> QED
    BY <1>2, <1>3 DEF Quiet

LEMMA ReadersFinite == \A p : IsFiniteSet(Readers(p)) /\ Readers(p) \subseteq HandlesOf(p)
  <1> TAKE p
  <1>1. Readers(p) \in SUBSET Files
    BY DEF Readers, HandlesOf
  <1> QED
    BY <1>1, FS_Subset DEF Readers

\* The invariant of the next state, from what the step did to its own handle and process.
LEMMA Assemble ==
    ASSUME IInv, NEW f \in Files, Quiet(f), Local(f), Turn(f), TypeOK',
           Mine(f)', Inside(f)', Exclusion',
           Counts(Owner[f])', Tops(Owner[f])',
           \A g \in HandlesOf(Owner[f]) : Backed(g)',
           \A g \in HandlesOf(Owner[f]) :
               Counted(f)' > SHARED_LOCK /\ Counted(g) > SHARED_LOCK => g = f
    PROVE  IInv'
  <1> DEFINE p == Owner[f]
  <1>0. p \in Procs /\ f \in HandlesOf(p)
    BY DEF HandlesOf
  <1>1. \A g \in Files : Mine(g)'
    BY OthersKeep
  <1>2. MutexOne'
    <2> SUFFICES ASSUME NEW g \in Files, NEW h \in Files, Owner[g] = Owner[h],
                        HoldsMutex(g)', HoldsMutex(h)', g # h
                 PROVE  FALSE
      BY DEF MutexOne
    <2>1. CASE g # f /\ h # f
      BY <2>1, OthersKeep DEF IInv, MutexOne
    <2>2. ASSUME NEW k \in Files, k # f, Owner[k] = p, HoldsMutex(k)', HoldsMutex(f)'
          PROVE  FALSE
      BY <2>2, OthersKeep DEF IInv, MutexOne, Turn, MutexFree, HandlesOf
    <2> QED
      BY <2>1, <2>2
  <1>3. AboveOne'
    <2> SUFFICES ASSUME NEW g \in Files, NEW h \in Files, Owner[g] = Owner[h],
                        Counted(g)' > SHARED_LOCK, Counted(h)' > SHARED_LOCK, g # h
                 PROVE  FALSE
      BY DEF AboveOne
    <2>1. CASE g # f /\ h # f
      BY <2>1, OthersKeep DEF IInv, AboveOne
    <2>2. ASSUME NEW k \in Files, k # f, Owner[k] = p, Counted(k)' > SHARED_LOCK,
                 Counted(f)' > SHARED_LOCK
          PROVE  FALSE
      BY <2>2, OthersKeep DEF HandlesOf
    <2> QED
      BY <2>1, <2>2
  <1>4. ASSUME NEW g \in Files, g # f
        PROVE  Inside(g)' /\ Backed(g)'
    <2>1. CASE Owner[g] # p
      <3>1. inode'[Owner[g]] = inode[Owner[g]] /\ posix'[Owner[g]] = posix[Owner[g]]
        BY <2>1 DEF Local
      <3>2. Inside(g) /\ Backed(g)
        BY DEF IInv
      <3>3. fileLock'[g] = fileLock[g]
        BY <1>4 DEF Quiet
      <3> QED
        BY <1>4, <3>1, <3>2, <3>3, OthersKeep DEF Inside, Backed
    <2>2. CASE Owner[g] = p
      <3>1. Backed(g)'
        BY <2>2 DEF HandlesOf
      <3>2. CASE HoldsMutex(g)
        <4>1. UNCHANGED <<inode, posix>>
          BY <1>4, <2>2, <3>2 DEF Turn, MutexFree, HandlesOf, IInv, MutexOne
        <4>2. Inside(g)
          BY DEF IInv
        <4> QED
          BY <1>4, <3>1, <4>1, <4>2, OthersKeep DEF Inside, Quiet
      <3>3. CASE ~HoldsMutex(g)
        BY <1>4, <3>1, <3>3, OthersKeep DEF Inside, HoldsMutex
      <3> QED
        BY <3>2, <3>3
    <2> QED
      BY <2>1, <2>2
  <1>5. ASSUME NEW q \in Procs, q # p
        PROVE  Counts(q)' /\ Tops(q)'
    <2>1. \A g \in HandlesOf(q) : Counted(g)' = Counted(g)
      BY <1>5, OthersKeep DEF HandlesOf
    <2>2. Readers(q)' = Readers(q)
      BY <2>1 DEF Readers, HandlesOf
    <2>3. inode'[q] = inode[q]
      BY <1>5 DEF Local
    <2>4. Counts(q) /\ Tops(q)
      BY DEF IInv
    <2> QED
      BY <2>1, <2>2, <2>3, <2>4 DEF Counts, Tops, HandlesOf
  <1> QED
    BY <1>0, <1>1, <1>2, <1>3, <1>4, <1>5 DEF IInv, HandlesOf

\* At which level a handle is counted.
LEMMA CountedIs ==
    ASSUME NEW f
    PROVE  /\ pc[f] = "leave" => Counted(f) = target[f]
           /\ pc[f] = "release" => Counted(f) = SHARED_LOCK
           /\ pc[f] \notin {"leave", "release"} => Counted(f) = fileLock[f]
           /\ pc'[f] = "leave" => Counted(f)' = target'[f]
           /\ pc'[f] = "release" => Counted(f)' = SHARED_LOCK
           /\ pc'[f] \notin {"leave", "release"} => Counted(f)' = fileLock'[f]
  BY DEF Counted

LEMMA CountedLevel ==
    ASSUME TypeOK, NEW f \in Files
    PROVE  Counted(f) \in Level /\ Held(f) \in Level
  BY CountedIs DEF TypeOK, Held, Pc

(***************************************************************************)
(* The waiting queue.                                                      *)
(***************************************************************************)
LEMMA SignalFirstKeeps ==
    ASSUME TypeOK, NEW f \in Files, NEW pcf \in Pc, NEW n \in 0 .. Len(queue[Owner[f]]),
           SignalFirst(Owner[f], n, f, pcf)
    PROVE  /\ queue' \in [Procs -> Seq(WaitInfo)] /\ pc' \in [Files -> Pc]
           /\ pc'[f] = pcf
           /\ \A g \in Files : g # f =>
                  pc'[g] = pc[g] \/ (pc[g] = "asleep" /\ pc'[g] = AfterBusy(g))
           /\ \A q \in Procs : q # Owner[f] => queue'[q] = queue[q]
  <1> DEFINE p == Owner[f]
             q == queue[p]
  <1>0. p \in Procs /\ q \in Seq(WaitInfo) /\ Len(q) \in Nat
    BY DEF TypeOK
  <1>1. Popped(q, n) \in Seq(WaitInfo)
    <2>1. \A i \in n + 1 .. Len(q) : q[i] \in WaitInfo
      BY <1>0, ElementOfSeq
    <2> QED
      BY <1>0, <2>1, SubSeqProperties DEF Popped
  <1>2. queue' = [queue EXCEPT ![p] = Popped(q, n)]
    BY DEF SignalFirst
  <1>3. \A g \in Files : AfterBusy(g) \in Pc /\ pc[g] \in Pc
    BY AfterBusyPlace DEF TypeOK, Pc
  <1>4. \A g \in Files : /\ g = f => pc'[g] = pcf
                         /\ g # f => pc'[g] = pc[g] \/ (pc[g] = "asleep" /\ pc'[g] = AfterBusy(g))
    BY DEF SignalFirst
  <1>5. pc' \in [Files -> Pc]
    BY <1>3, <1>4, Zenon DEF SignalFirst
  <1> QED
    BY <1>0, <1>1, <1>2, <1>4, <1>5 DEF TypeOK

LEMMA TrySignalKeeps ==
    ASSUME TypeOK, NEW f \in Files, NEW pcf \in Pc, NEW in, TrySignal(Owner[f], in, f, pcf)
    PROVE  /\ queue' \in [Procs -> Seq(WaitInfo)] /\ pc' \in [Files -> Pc]
           /\ pc'[f] = pcf
           /\ \A g \in Files : g # f =>
                  pc'[g] = pc[g] \/ (pc[g] = "asleep" /\ pc'[g] = AfterBusy(g))
           /\ \A q \in Procs : q # Owner[f] => queue'[q] = queue[q]
  BY SignalFirstKeeps DEF TrySignal

LEMMA WaitOrReturnKeeps ==
    ASSUME TypeOK, NEW f \in Files, NEW l \in Level, NEW flag \in {"shared", "exclusive"},
           WaitOrReturn(f, l, flag)
    PROVE  /\ queue' \in [Procs -> Seq(WaitInfo)] /\ pc' \in [Files -> Pc]
           /\ pc'[f] = AfterBusy(f) \/ (pc'[f] = "asleep" /\ MayWait(f))
           /\ \A g \in Files : g # f =>
                  pc'[g] = pc[g] \/ (pc[g] = "asleep" /\ pc'[g] = AfterBusy(g))
           /\ \A q \in Procs : q # Owner[f] => queue'[q] = queue[q]
  <1> DEFINE p == Owner[f]
             q == queue[p]
             e == NewEntry(f, l, flag)
  <1>0. p \in Procs /\ q \in Seq(WaitInfo) /\ Len(q) \in Nat
        /\ AfterBusy(f) \in Pc /\ "asleep" \in Pc
    BY AfterBusyPlace DEF TypeOK, Pc
  <1>1. CASE ~MayWait(f) /\ pc' = [pc EXCEPT ![f] = AfterBusy(f)] /\ UNCHANGED queue
    BY <1>0, <1>1 DEF TypeOK
  <1>2. CASE q # <<>> /\ SignalFirst(p, 1, f, AfterBusy(f))
    <2>1. 1 \in 0 .. Len(q)
      BY <1>0, <1>2, EmptySeq
    <2> QED
      BY <1>0, <1>2, <2>1, SignalFirstKeeps
  <1>3. CASE /\ MayWait(f)
             /\ queue' = [queue EXCEPT ![p] = IF f \in Main THEN <<e>> \o @ ELSE Append(@, e)]
             /\ pc' = [pc EXCEPT ![f] = "asleep"]
    <2>1. e \in WaitInfo
      BY DEF NewEntry, WaitInfo
    <2>2. <<e>> \o q \in Seq(WaitInfo) /\ Append(q, e) \in Seq(WaitInfo)
      BY <1>0, <2>1, ConcatProperties, AppendProperties
    <2> QED
      BY <1>0, <1>3, <2>2 DEF TypeOK
  <1> QED
    BY <1>1, <1>2, <1>3 DEF WaitOrReturn

(***************************************************************************)
(* Steps that change no lock and no count.                                 *)
(***************************************************************************)
LEMMA StillKeeps ==
    ASSUME IInv, NEW f \in Files, Quiet(f), Local(f), Turn(f), TypeOK', Mine(f)', Inside(f)',
           UNCHANGED posix, Counted(f)' = Counted(f), Held(f)' = Held(f),
           inode'[Owner[f]].eFileLock = inode[Owner[f]].eFileLock,
           inode'[Owner[f]].nShared = inode[Owner[f]].nShared,
           inode'[Owner[f]].nLock = inode[Owner[f]].nLock
    PROVE  IInv'
  <1> DEFINE p == Owner[f]
  <1>0. p \in Procs /\ f \in HandlesOf(p) /\ HandlesOf(p) \subseteq Files
    BY DEF HandlesOf
  <1>1. \A g \in HandlesOf(p) : Counted(g)' = Counted(g) /\ Held(g)' = Held(g)
    BY <1>0, OthersKeep
  <1>2. Readers(p)' = Readers(p)
    BY <1>0, <1>1 DEF Readers, HandlesOf
  <1>3. Counts(p) /\ Tops(p)
    BY <1>0 DEF IInv
  <1>4. Counts(p)' /\ Tops(p)'
    BY <1>1, <1>2, <1>3 DEF Counts, Tops, HandlesOf
  <1>5. \A g \in HandlesOf(p) : Backed(g)'
    BY <1>0, <1>1 DEF IInv, Backed
  <1>6. Exclusion'
    BY DEF IInv, Exclusion
  <1>7. \A g \in HandlesOf(p) :
            Counted(f)' > SHARED_LOCK /\ Counted(g) > SHARED_LOCK => g = f
    BY <1>0 DEF IInv, AboveOne, HandlesOf
  <1> QED
    BY <1>4, <1>5, <1>6, <1>7, Assemble

\* No step of one handle, of the shape most steps have, disturbs the others.
LEMMA QuietStep ==
    ASSUME TypeOK, NEW f \in Files,
           isOpen' = isOpen \/ \E v : isOpen' = [isOpen EXCEPT ![f] = v],
           fileLock' = fileLock \/ \E v : fileLock' = [fileLock EXCEPT ![f] = v],
           op' = op \/ \E v : op' = [op EXCEPT ![f] = v],
           hot' = hot \/ \E v : hot' = [hot EXCEPT ![f] = v],
           target' = target \/ \E v : target' = [target EXCEPT ![f] = v],
           \A g \in Files : g # f =>
               pc'[g] = pc[g] \/ (pc[g] = "asleep" /\ pc'[g] = AfterBusy(g))
    PROVE  Quiet(f)
  <1> SUFFICES ASSUME NEW g \in Files, g # f
               PROVE  /\ isOpen'[g] = isOpen[g] /\ fileLock'[g] = fileLock[g] /\ op'[g] = op[g]
                      /\ hot'[g] = hot[g] /\ target'[g] = target[g]
    BY DEF Quiet
  <1>1. isOpen'[g] = isOpen[g]
    BY DEF TypeOK
  <1>2. fileLock'[g] = fileLock[g]
    BY DEF TypeOK
  <1>3. op'[g] = op[g] /\ hot'[g] = hot[g]
    BY DEF TypeOK
  <1>4. target'[g] = target[g]
    BY DEF TypeOK
  <1> QED
    BY <1>1, <1>2, <1>3, <1>4

LEMMA OpenKeeps ==
    ASSUME IInv, NEW f \in Files, Open(f), UNCHANGED late
    PROVE  IInv' /\ Quiet(f) /\ Held(f)' = Held(f)
  <1> DEFINE p == Owner[f]
  <1>0. TypeOK /\ Mine(f) /\ Inside(f) /\ p \in Procs
    BY DEF IInv
  <1>1. MayTakeOver(inode[p].nUnused) \in Nat
    BY <1>0 DEF TypeOK, Inode, MayTakeOver
  <1>2. inode' \in [Procs -> Inode]
    BY <1>0, <1>1 DEF Open, TypeOK, Inode
  <1>3. TypeOK'
    BY <1>0, <1>2 DEF Open, TypeOK, callers
  <1>4. Quiet(f)
    BY <1>0, QuietStep DEF Open, callers
  <1>5. Local(f) /\ Turn(f)
    BY <1>0 DEF Open, Local, Turn, TypeOK
  <1>6. /\ inode'[p].eFileLock = inode[p].eFileLock
        /\ inode'[p].nShared = inode[p].nShared /\ inode'[p].nLock = inode[p].nLock
    BY <1>0 DEF Open, TypeOK, Inode
  <1>7. Mine(f)' /\ Inside(f)' /\ Counted(f)' = Counted(f) /\ Held(f)' = Held(f)
    BY <1>0, CountedIs DEF Open, callers, Mine, Inside, Held, TypeOK
  <1> QED
    BY <1>3, <1>4, <1>5, <1>6, <1>7, StillKeeps DEF Open

\* The caller turns to something else, at most changing its place.
LEMMA CallerKeeps ==
    ASSUME IInv, NEW f \in Files,
           \/ BeginRead(f) \/ BeginWrite(f) \/ Upgrade(f) \/ Commit(f) \/ Fail(f),
           UNCHANGED late
    PROVE  IInv' /\ Quiet(f) /\ Held(f)' = Held(f)
  <1> DEFINE p == Owner[f]
  <1>0. TypeOK /\ Mine(f) /\ Inside(f) /\ p \in Procs
    BY DEF IInv
  <1>1. UNCHANGED <<isOpen, fileLock, inode, posix, queue, target>> /\ pc[f] = "idle"
    BY DEF BeginRead, BeginWrite, Begin, Upgrade, Commit, Go, Fail
  <1>2. \E o \in Op : op' = [op EXCEPT ![f] = o]
    BY DEF BeginRead, BeginWrite, Begin, Upgrade, Commit, Go, Fail, Op
  <1>3. hot' = hot \/ hot' = [hot EXCEPT ![f] = FALSE]
    BY DEF BeginRead, BeginWrite, Begin, Upgrade, Commit, Go, Fail
  <1>4. pc' = pc \/ pc' = [pc EXCEPT ![f] = "backoff"]
    BY DEF BeginRead, BeginWrite, Begin, Upgrade, Commit, Go, Fail
  <1>5. TypeOK'
    <2>1. op' \in [Files -> Op] /\ hot' \in [Files -> BOOLEAN]
      BY <1>0, <1>2, <1>3 DEF TypeOK
    <2>2. pc' \in [Files -> Pc]
      BY <1>0, <1>4 DEF TypeOK, Pc
    <2> QED
      BY <1>0, <1>1, <2>1, <2>2 DEF TypeOK
  <1>6. Quiet(f)
    BY <1>0, <1>1, <1>2, <1>3, <1>4, QuietStep DEF TypeOK
  <1>7. pc'[f] \in {"idle", "backoff"}
    BY <1>0, <1>1, <1>4 DEF TypeOK
  <1>8. Local(f) /\ Turn(f) /\ Inside(f)'
    BY <1>1, <1>7 DEF Local, Turn, HoldsMutex, Inside
  <1>9. Counted(f)' = Counted(f) /\ Held(f)' = Held(f)
    BY <1>1, <1>7, CountedIs DEF Held
  <1>10. Mine(f)'
    <2>1. CASE BeginRead(f) \/ BeginWrite(f)
      BY <1>0, <2>1 DEF BeginRead, BeginWrite, Begin, Mine, TypeOK
    <2>2. CASE Upgrade(f) \/ Commit(f)
      BY <1>0, <2>2 DEF Upgrade, Commit, Go, Mine, TypeOK
    <2>3. CASE Fail(f)
      BY <1>0, <2>3 DEF Fail, Mine, TypeOK
    <2> QED
      BY <2>1, <2>2, <2>3
  <1> QED
    BY <1>1, <1>5, <1>6, <1>8, <1>9, <1>10, StillKeeps

LEMMA TimeoutKeeps ==
    ASSUME IInv, NEW f \in Files, Timeout(f)
    PROVE  IInv' /\ Quiet(f) /\ Held(f)' = Held(f)
  <1> DEFINE p == Owner[f]
  <1>0. TypeOK /\ Mine(f) /\ p \in Procs
    BY DEF IInv
  <1>1. UNCHANGED <<isOpen, fileLock, inode, posix, queue, op, hot, target>>
        /\ pc[f] = "asleep" /\ pc' = [pc EXCEPT ![f] = AfterBusy(f)] /\ late' \subseteq Procs
    BY <1>0 DEF Timeout, callers, TypeOK
  <1>2. AfterBusy(f) \in {"idle", "backoff"}
    BY AfterBusyPlace
  <1>3. TypeOK'
    BY <1>0, <1>1, <1>2 DEF TypeOK, Pc
  <1>4. pc'[f] = AfterBusy(f) /\ Quiet(f)
    BY <1>0, <1>1 DEF Quiet, TypeOK
  <1>5. Local(f) /\ Turn(f) /\ Inside(f)'
    BY <1>1, <1>2, <1>4 DEF Local, Turn, HoldsMutex, Inside
  <1>6. Counted(f)' = Counted(f) /\ Held(f)' = Held(f)
    BY <1>1, <1>2, <1>4, CountedIs DEF Held
  <1>7. op[f] = "commit" => AfterBusy(f) = "idle"
    BY <1>0 DEF Mine, AfterBusy
  <1>8. Mine(f)'
    BY <1>0, <1>1, <1>2, <1>4, <1>7 DEF Mine
  <1> QED
    BY <1>1, <1>3, <1>4, <1>5, <1>6, <1>8, StillKeeps

(***************************************************************************)
(* unixLock.                                                               *)
(***************************************************************************)
\* A thread that finds itself precluded, or is refused, or refused half-way.
LEMMA PrecludedKeeps ==
    ASSUME IInv, NEW f \in Files, Precluded(f), UNCHANGED late
    PROVE  IInv' /\ Quiet(f) /\ Held(f)' = Held(f)
  <1> DEFINE p == Owner[f]
  <1>0. TypeOK /\ Mine(f) /\ p \in Procs
    BY DEF IInv
  <1>1. UNCHANGED <<isOpen, fileLock, inode, posix, op, hot, target>> /\ pc[f] = "idle"
        /\ op[f] # "none"
    BY DEF Precluded, Attempts, callers
  <1>2. Wanted(f) \in Level /\ "shared" \in {"shared", "exclusive"}
    BY DEF Wanted
  <1>3. /\ queue' \in [Procs -> Seq(WaitInfo)] /\ pc' \in [Files -> Pc]
        /\ pc'[f] \in {"idle", "backoff", "asleep"}
        /\ op[f] = "commit" => pc'[f] \in {"idle", "asleep"}
        /\ \A g \in Files : g # f =>
               pc'[g] = pc[g] \/ (pc[g] = "asleep" /\ pc'[g] = AfterBusy(g))
        /\ \A q \in Procs : q # p => queue'[q] = queue[q]
    <2>1. WaitOrReturn(f, Wanted(f), "shared")
      BY DEF Precluded
    <2>2. op[f] = "commit" => AfterBusy(f) = "idle"
      BY <1>0 DEF Mine, AfterBusy
    <2> QED
      BY <1>0, <1>2, <2>1, <2>2, WaitOrReturnKeeps, AfterBusyPlace
  <1>4. TypeOK'
    BY <1>0, <1>1, <1>3 DEF TypeOK
  <1>5. Quiet(f) /\ Local(f) /\ Turn(f) /\ Inside(f)'
    BY <1>1, <1>3 DEF Quiet, Local, Turn, HoldsMutex, Inside
  <1>6. Counted(f)' = Counted(f) /\ Held(f)' = Held(f)
    BY <1>1, <1>3, CountedIs DEF Held
  <1>7. Mine(f)'
    BY <1>0, <1>1, <1>3 DEF Mine
  <1> QED
    BY <1>1, <1>4, <1>5, <1>6, <1>7, StillKeeps

\* A thread the system has refused a lock.
LEMMA RefusedKeeps ==
    ASSUME IInv, NEW f \in Files, pc[f] = "idle", op[f] # "none",
           pc' = [pc EXCEPT ![f] = AfterBusy(f)],
           UNCHANGED <<isOpen, fileLock, inode, posix, queue, callers, late>>
    PROVE  IInv' /\ Quiet(f) /\ Held(f)' = Held(f)
  <1>0. TypeOK /\ Mine(f)
    BY DEF IInv
  <1>1. AfterBusy(f) \in {"idle", "backoff"} /\ (op[f] = "commit" => AfterBusy(f) = "idle")
    BY <1>0, AfterBusyPlace DEF Mine, AfterBusy
  <1>2. TypeOK' /\ pc'[f] = AfterBusy(f)
    BY <1>0, <1>1 DEF TypeOK, Pc, callers
  <1>3. Quiet(f) /\ Local(f) /\ Turn(f) /\ Inside(f)'
    BY <1>0, <1>1, <1>2 DEF Quiet, Local, Turn, HoldsMutex, Inside, TypeOK, callers
  <1>4. Counted(f)' = Counted(f) /\ Held(f)' = Held(f)
    BY <1>1, <1>2, CountedIs DEF Held, callers
  <1>5. Mine(f)'
    BY <1>0, <1>1, <1>2 DEF Mine, callers
  <1> QED
    BY <1>2, <1>3, <1>4, <1>5, StillKeeps

\* To find a place among the readers of the process.
LEMMA OneMoreReader ==
    ASSUME IInv, NEW f \in Files, Quiet(f), fileLock[f] = NO_LOCK, Counted(f) = NO_LOCK,
           Counted(f)' # NO_LOCK
    PROVE  /\ Readers(Owner[f])' = Readers(Owner[f]) \cup {f}
           /\ Cardinality(Readers(Owner[f])') = Cardinality(Readers(Owner[f])) + 1
  <1> DEFINE p == Owner[f]
  <1>1. \A g \in HandlesOf(p) : g # f => Counted(g)' = Counted(g)
    BY OthersKeep DEF HandlesOf
  <1>2. Readers(p)' = Readers(p) \cup {f} /\ f \notin Readers(p)
    BY <1>1 DEF Readers, HandlesOf
  <1> QED
    BY <1>2, ReadersFinite, FS_AddElement

\* Nobody has the mutex when an attempt begins.
LEMMA AttemptsTurn == \A f \in Files : Attempts(f) => Turn(f) /\ pc[f] = "idle" /\ op[f] # "none"
  BY DEF Attempts, Turn

\* What becomes of the caller that has its lock.
LEMMA ProceedKeeps ==
    ASSUME TypeOK, NEW f \in Files, NEW l, Proceed(f, l)
    PROVE  /\ op' \in [Files -> Op] /\ hot' \in [Files -> BOOLEAN] /\ target' = target
           /\ op'[f] \in {op[f], "none"} /\ (hot'[f] => hot[f] \/ l = SHARED_LOCK)
           /\ hot'[f] => op'[f] = op[f]
           /\ ~hot'[f] => op'[f] = "none" \/ (op[f] = "write" /\ l = SHARED_LOCK)
           /\ \A g \in Files : g # f => op'[g] = op[g] /\ hot'[g] = hot[g]
  <1>1. hot' = hot \/ (l = SHARED_LOCK /\ hot' = [hot EXCEPT ![f] = TRUE])
    BY DEF Proceed
  <1>2. hot' \in [Files -> BOOLEAN] /\ (hot'[f] => hot[f] \/ l = SHARED_LOCK)
        /\ \A g \in Files : g # f => hot'[g] = hot[g]
    BY <1>1 DEF TypeOK
  <1>3. op' = [op EXCEPT ![f] = IF hot'[f] \/ (@ = "write" /\ l = SHARED_LOCK) THEN @ ELSE "none"]
        /\ target' = target
    BY DEF Proceed
  <1>4. op'[f] = IF hot'[f] \/ (op[f] = "write" /\ l = SHARED_LOCK) THEN op[f] ELSE "none"
    BY <1>3 DEF TypeOK
  <1>5. op' \in [Files -> Op] /\ \A g \in Files : g # f => op'[g] = op[g]
    BY <1>3 DEF TypeOK, Op
  <1> QED
    BY <1>2, <1>3, <1>4, <1>5

LEMMA CountedInIs ==
    ASSUME NEW in \in Inode
    PROVE  /\ CountedIn(in) \in Inode
           /\ CountedIn(in).eFileLock = in.eFileLock
           /\ CountedIn(in).nShared = in.nShared + 1 /\ CountedIn(in).nLock = in.nLock + 1
  <1>1. in.nShared \in Nat /\ in.nLock \in Nat
    BY DEF Inode
  <1>2. in.nShared + 1 \in Nat /\ in.nLock + 1 \in Nat
    BY <1>1
  <1> QED
    BY <1>2 DEF CountedIn, Inode

LEMMA FirstInIs ==
    ASSUME NEW in \in Inode
    PROVE  /\ FirstIn(in) \in Inode
           /\ FirstIn(in).eFileLock = SHARED_LOCK
           /\ FirstIn(in).nShared = 1 /\ FirstIn(in).nLock = in.nLock + 1
  <1>1. in.nLock \in Nat
    BY DEF Inode
  <1>2. in.nLock + 1 \in Nat /\ SHARED_LOCK \in Level /\ 1 \in Nat
    BY <1>1
  <1>3. FirstIn(in) \in Inode
    BY <1>2 DEF FirstIn, Inode
  <1>4. FirstIn(in).nLock = in.nLock + 1
    BY <1>2 DEF FirstIn, Inode
  <1>5. FirstIn(in).nShared = 1
    BY DEF FirstIn, Inode
  <1>6. FirstIn(in).eFileLock = SHARED_LOCK
    BY DEF FirstIn, Inode
  <1> QED
    BY <1>3, <1>4, <1>5, <1>6

LEMMA ShareInProcessKeeps ==
    ASSUME IInv, NEW f \in Files, ShareInProcess(f), UNCHANGED late
    PROVE  IInv' /\ Quiet(f) /\ Held(f) = NO_LOCK /\ Held(f)' = SHARED_LOCK
  <1> DEFINE p == Owner[f]
             in == inode[p]
  <1>0. /\ TypeOK /\ Mine(f) /\ p \in Procs /\ in \in Inode
        /\ f \in HandlesOf(p) /\ HandlesOf(p) \subseteq Files
    BY DEF IInv, HandlesOf, TypeOK
  <1>1. Attempts(f) /\ pc[f] = "idle" /\ op[f] # "none" /\ Wanted(f) = SHARED_LOCK /\ Turn(f)
    BY AttemptsTurn DEF ShareInProcess, Admitted
  <1>2. fileLock[f] = NO_LOCK /\ op[f] \in {"read", "write"} /\ ~hot[f]
    <2>1. fileLock[f] < SHARED_LOCK /\ fileLock[f] \in Level
      BY <1>0, <1>1 DEF Attempts, TypeOK
    <2>2. op[f] \in Op
      BY <1>0 DEF TypeOK
    <2> QED
      BY <1>0, <1>1, <2>1, <2>2 DEF Mine, Op
  <1>3. /\ in.eFileLock \in {SHARED_LOCK, RESERVED_LOCK}
        /\ fileLock' = [fileLock EXCEPT ![f] = SHARED_LOCK]
        /\ inode' = [inode EXCEPT ![p] = CountedIn(in)]
        /\ Proceed(f, SHARED_LOCK)
        /\ UNCHANGED <<isOpen, posix, queue, pc>>
    BY <1>0 DEF ShareInProcess, TypeOK
  <1>4. /\ CountedIn(in) \in Inode
        /\ CountedIn(in).eFileLock = in.eFileLock
        /\ CountedIn(in).nShared = in.nShared + 1 /\ CountedIn(in).nLock = in.nLock + 1
    BY <1>0, CountedInIs
  <1>5. TypeOK'
    BY <1>0, <1>3, <1>4, ProceedKeeps DEF TypeOK
  <1>6. inode'[p] = CountedIn(in) /\ fileLock'[f] = SHARED_LOCK /\ pc'[f] = "idle"
    BY <1>0, <1>1, <1>3 DEF TypeOK
  <1>7. Quiet(f) /\ Local(f)
    BY <1>0, <1>3, ProceedKeeps DEF Quiet, Local, TypeOK
  <1>8. Counted(f) = NO_LOCK /\ Held(f) = NO_LOCK /\ Counted(f)' = SHARED_LOCK /\ Held(f)' = SHARED_LOCK
    BY <1>1, <1>2, <1>6, CountedIs DEF Held
  <1>9. Mine(f)' /\ Inside(f)'
    BY <1>0, <1>1, <1>2, <1>3, <1>6, ProceedKeeps DEF Mine, Inside
  <1>10. Counts(p)'
    <2>1. Counts(p)
      BY <1>0 DEF IInv
    <2> QED
      BY <1>2, <1>4, <1>6, <1>7, <1>8, <2>1, OneMoreReader DEF Counts
  <1>11. PICK h \in HandlesOf(p) : Counted(h) = in.eFileLock /\ h # f
    BY <1>0, <1>3, <1>8 DEF IInv, Tops
  <1>12. \A g \in HandlesOf(p) : g # f => Counted(g)' = Counted(g) /\ Held(g)' = Held(g)
    BY <1>0, <1>7, OthersKeep
  <1>13. Tops(p)'
    <2>1. Tops(p)
      BY <1>0 DEF IInv
    <2>2. inode'[p].eFileLock = in.eFileLock
      BY <1>4, <1>6
    <2> QED
      BY <1>3, <1>8, <1>11, <1>12, <2>1, <2>2 DEF Tops, HandlesOf
  <1>14. ASSUME NEW g \in HandlesOf(p)
         PROVE  Backed(g)'
    <2>1. posix[p]["shared"] # "none"
      BY <1>0, <1>3, <1>11 DEF IInv, Backed, HandlesOf
    <2>2. CASE g = f
      BY <1>3, <1>8, <2>1, <2>2 DEF Backed
    <2>3. CASE g # f
      BY <1>0, <1>3, <1>12, <2>3 DEF IInv, Backed
    <2> QED
      BY <2>2, <2>3
  <1>15. Exclusion'
    BY <1>3 DEF IInv, Exclusion
  <1> QED
    BY <1>1, <1>5, <1>7, <1>8, <1>9, <1>10, <1>13, <1>14, <1>15, Assemble

\* Process p takes, changes or drops its lock on range r, and nothing else changes.
Granted(p, r, kind) ==
    /\ posix' \in [Procs -> [Range3 -> {"none", "read", "write"}]]
    /\ posix'[p][r] = kind
    /\ \A s \in Range3 : s # r => posix'[p][s] = posix[p][s]
    /\ \A q \in Procs : q # p => posix'[q] = posix[q]

\* Taking a lock on a range keeps locks of different processes apart.
LEMMA GrantKeeps ==
    ASSUME TypeOK, Exclusion, NEW p \in Procs, NEW r \in Range3, NEW kind,
           Granted(p, r, kind),
           kind = "read" => MayRead(p, r) \/ posix[p][r] # "none",
           kind = "write" => MayWrite(p, r)
    PROVE  Exclusion'
  <1>1. ASSUME NEW q1 \in Procs, NEW q2 \in Procs, NEW s \in Range3, q1 # q2,
               posix'[q1][s] = "write"
        PROVE  posix'[q2][s] = "none"
    <2>1. CASE s # r \/ (q1 # p /\ q2 # p)
      BY <1>1, <2>1 DEF Exclusion, Granted
    <2>2. CASE s = r /\ q1 = p
      BY <1>1, <2>2 DEF MayWrite, Granted
    <2>3. CASE s = r /\ q2 = p
      BY <1>1, <2>3 DEF MayRead, MayWrite, Exclusion, Granted, TypeOK
    <2> QED
      BY <2>1, <2>2, <2>3
  <1> QED
    BY <1>1 DEF Exclusion

\* When the process has no lock none of its handles counts.
LEMMA NoneCounted ==
    ASSUME IInv, NEW p \in Procs, inode[p].eFileLock = NO_LOCK
    PROVE  \A g \in HandlesOf(p) : Counted(g) = NO_LOCK /\ (~HoldsMutex(g) => Held(g) = NO_LOCK)
  <1> SUFFICES ASSUME NEW g \in HandlesOf(p)
               PROVE  Counted(g) = NO_LOCK /\ (~HoldsMutex(g) => Held(g) = NO_LOCK)
    OBVIOUS
  <1>1. g \in Files /\ Counted(g) <= NO_LOCK
    BY DEF IInv, Tops, HandlesOf
  <1>2. Counted(g) = NO_LOCK
    BY <1>1, CountedLevel DEF IInv
  <1> QED
    BY <1>2, CountedIs DEF Held, HoldsMutex

LEMMA PendingByteKeeps ==
    ASSUME IInv, NEW f \in Files, PendingByte(f), UNCHANGED late
    PROVE  IInv' /\ Quiet(f) /\ Held(f)' = Held(f)
  <1> DEFINE p == Owner[f]
             share == Wanted(f) = SHARED_LOCK
             kind == IF share THEN "read" ELSE "write"
             granted == IF share THEN MayRead(p, "pending") ELSE MayWrite(p, "pending")
             place == IF share THEN "shared" ELSE "exclusive"
  <1>0. /\ TypeOK /\ Mine(f) /\ p \in Procs
        /\ f \in HandlesOf(p) /\ HandlesOf(p) \subseteq Files
    BY DEF IInv, HandlesOf
  <1>1. Attempts(f) /\ pc[f] = "idle" /\ op[f] # "none" /\ Turn(f)
    BY AttemptsTurn DEF PendingByte, Admitted
  <1>2. UNCHANGED <<isOpen, fileLock, inode, queue, callers>>
    BY DEF PendingByte
  <1>3. CASE ~granted
    BY <1>1, <1>2, <1>3, RefusedKeeps DEF PendingByte
  <1>4. CASE granted
    <2>1. /\ posix' = [posix EXCEPT ![p]["pending"] = kind]
          /\ pc' = [pc EXCEPT ![f] = place]
      BY <1>4 DEF PendingByte
    <2>2. Granted(p, "pending", kind)
      BY <1>0, <2>1 DEF Granted, TypeOK, Range3
    <2>13. Exclusion'
      BY <1>0, <1>4, <2>2, GrantKeeps DEF Range3, IInv
    <2>3. TypeOK' /\ pc'[f] = place
      BY <1>0, <1>2, <2>1, <2>2 DEF TypeOK, Pc, callers, Granted
    <2>4. Quiet(f) /\ Local(f)
      BY <1>0, <1>2, <2>1, <2>2 DEF Quiet, Local, TypeOK, callers, Granted
    <2>5. /\ share => /\ inode[p].eFileLock = NO_LOCK /\ fileLock[f] = NO_LOCK
                      /\ op[f] \in {"read", "write"} /\ ~hot[f]
          /\ ~share => /\ fileLock[f] \in {SHARED_LOCK, RESERVED_LOCK}
                       /\ fileLock[f] = inode[p].eFileLock
      <3>1. fileLock[f] \in Level /\ op[f] \in Op
        BY <1>0 DEF TypeOK
      <3>2. CASE Admitted(f, SHARED_LOCK) /\ inode[p].eFileLock = NO_LOCK
        BY <1>0, <3>1, <3>2 DEF Admitted, Attempts, Mine, Op
      <3>3. CASE Admitted(f, EXCLUSIVE_LOCK) /\ fileLock[f] < PENDING_LOCK
        <4>1. hot[f] \/ op[f] = "commit"
          BY <3>3 DEF Admitted, Wanted
        <4>2. fileLock[f] \in {SHARED_LOCK, RESERVED_LOCK}
          BY <1>0, <3>1, <3>3, <4>1 DEF Mine
        <4> QED
          BY <3>3, <4>2 DEF Admitted, Precludes
      <3> QED
        BY <3>2, <3>3 DEF PendingByte
    <2>6. Counted(f)' = Counted(f) /\ Held(f)' = Held(f)
      BY <1>1, <1>2, <2>3, CountedIs DEF Held
    <2>7. op[f] = "commit" => ~share
      BY <2>5
    <2>8. Mine(f)' /\ Inside(f)'
      BY <1>0, <1>2, <2>2, <2>3, <2>5, <2>7 DEF Mine, Inside, callers, Granted
    <2>9. \A g \in HandlesOf(p) : Counted(g)' = Counted(g) /\ Held(g)' = Held(g)
      BY <1>0, <2>4, <2>6, OthersKeep
    <2>10. Counts(p)' /\ Tops(p)'
      <3>1. Readers(p)' = Readers(p)
        BY <2>9 DEF Readers, HandlesOf
      <3>2. Counts(p) /\ Tops(p)
        BY <1>0 DEF IInv
      <3> QED
        BY <1>2, <2>9, <3>1, <3>2 DEF Counts, Tops, HandlesOf
    <2>11. ASSUME NEW g \in HandlesOf(p)
           PROVE  Backed(g)'
      <3>1. Backed(g) /\ g \in Files /\ Owner[g] = p
        BY <1>0 DEF IInv, HandlesOf
      <3>2. posix'[p]["shared"] = posix[p]["shared"] /\ posix'[p]["reserved"] = posix[p]["reserved"]
        BY <2>2 DEF Range3, Granted
      <3>3. Counted(g) >= PENDING_LOCK => ~share
        BY <1>0, <2>5, NoneCounted
      <3> QED
        BY <2>2, <2>9, <3>1, <3>2, <3>3 DEF Backed, Granted
    <2>12. \A g \in HandlesOf(p) : Counted(f)' > SHARED_LOCK /\ Counted(g) > SHARED_LOCK => g = f
      BY <1>0, <2>6 DEF IInv, AboveOne, HandlesOf
    <2> QED
      BY <1>1, <2>3, <2>4, <2>6, <2>8, <2>10, <2>11, <2>12, <2>13, Assemble
  <1> QED
    BY <1>3, <1>4

\* The same, with the mutex held.
LEMMA NoneHeld ==
    ASSUME IInv, NEW p \in Procs, inode[p].eFileLock = NO_LOCK
    PROVE  \A g \in HandlesOf(p) : Counted(g) = NO_LOCK /\ Held(g) = NO_LOCK
  <1> SUFFICES ASSUME NEW g \in HandlesOf(p)
               PROVE  Counted(g) = NO_LOCK /\ Held(g) = NO_LOCK
    OBVIOUS
  <1>1. g \in Files /\ Counted(g) = NO_LOCK
    BY NoneCounted DEF HandlesOf
  <1>2. Mine(g)
    BY <1>1 DEF IInv
  <1> QED
    BY <1>1, <1>2, CountedIs DEF Held, Mine

\* A step that changes POSIX locks, and neither levels nor counts.
LEMMA SameRecordKeeps ==
    ASSUME IInv, NEW f \in Files, Quiet(f), Local(f), Turn(f), TypeOK',
           Mine(f)', Inside(f)', Exclusion',
           Counted(f)' = Counted(f),
           inode'[Owner[f]].eFileLock = inode[Owner[f]].eFileLock,
           inode'[Owner[f]].nShared = inode[Owner[f]].nShared,
           inode'[Owner[f]].nLock = inode[Owner[f]].nLock,
           \A g \in HandlesOf(Owner[f]) : Backed(g)'
    PROVE  IInv'
  <1> DEFINE p == Owner[f]
  <1>0. p \in Procs /\ f \in HandlesOf(p) /\ HandlesOf(p) \subseteq Files
    BY DEF HandlesOf
  <1>1. \A g \in HandlesOf(p) : Counted(g)' = Counted(g)
    BY <1>0, OthersKeep
  <1>2. Readers(p)' = Readers(p)
    BY <1>1 DEF Readers, HandlesOf
  <1>3. Counts(p) /\ Tops(p)
    BY <1>0 DEF IInv
  <1>4. Counts(p)' /\ Tops(p)'
    BY <1>1, <1>2, <1>3 DEF Counts, Tops, HandlesOf
  <1>5. \A g \in HandlesOf(p) : Counted(f)' > SHARED_LOCK /\ Counted(g) > SHARED_LOCK => g = f
    BY <1>0 DEF IInv, AboveOne, HandlesOf
  <1> QED
    BY <1>4, <1>5, Assemble

LEMMA SharedRangeKeeps ==
    ASSUME IInv, NEW f \in Files, SharedRange(f), UNCHANGED late
    PROVE  IInv' /\ Quiet(f) /\ Held(f)' = Held(f)
  <1> DEFINE p == Owner[f]
  <1>0. /\ TypeOK /\ Mine(f) /\ Inside(f) /\ p \in Procs
        /\ f \in HandlesOf(p) /\ HandlesOf(p) \subseteq Files
    BY DEF IInv, HandlesOf
  <1>1. UNCHANGED <<isOpen, fileLock, inode, queue, op, hot, target>> /\ pc[f] = "shared"
    BY DEF SharedRange, callers
  <1>2. fileLock[f] = NO_LOCK /\ inode[p].eFileLock = NO_LOCK /\ posix[p]["pending"] = "read"
        /\ op[f] \in {"read", "write"}
    BY <1>0, <1>1 DEF Mine, Inside
  <1>3. \/ /\ MayRead(p, "shared") /\ pc' = [pc EXCEPT ![f] = "drop"]
           /\ Granted(p, "shared", "read")
        \/ pc' = [pc EXCEPT ![f] = "dropBusy"] /\ UNCHANGED posix
    <2>1. CASE MayRead(p, "shared")
      <3>1. /\ posix' = [posix EXCEPT ![p]["shared"] = "read"]
            /\ pc' = [pc EXCEPT ![f] = "drop"]
        BY <2>1 DEF SharedRange
      <3>2. Granted(p, "shared", "read")
        BY <1>0, <3>1 DEF Granted, TypeOK, Range3
      <3> QED
        BY <2>1, <3>1, <3>2
    <2> QED
      BY <2>1 DEF SharedRange
  <1>4. TypeOK' /\ pc'[f] \in {"drop", "dropBusy"}
    <2>1. posix' \in [Procs -> [Range3 -> {"none", "read", "write"}]]
      BY <1>0, <1>3 DEF TypeOK, Granted
    <2> QED
      BY <1>0, <1>1, <1>3, <2>1 DEF TypeOK, Pc
  <1>5. Exclusion'
    BY <1>0, <1>3, GrantKeeps DEF IInv, Exclusion, Range3
  <1>6. Quiet(f) /\ Local(f) /\ Turn(f)
    BY <1>0, <1>1, <1>3 DEF Quiet, Local, Turn, HoldsMutex, TypeOK, Granted
  <1>7. Counted(f)' = Counted(f) /\ Held(f)' = Held(f)
    BY <1>1, <1>4, CountedIs DEF Held
  <1>8. posix'[p]["pending"] = "read" /\ (pc'[f] = "drop" => posix'[p]["shared"] = "read")
    BY <1>0, <1>2, <1>3 DEF Granted, Range3, TypeOK
  <1>9. Mine(f)' /\ Inside(f)'
    BY <1>0, <1>1, <1>2, <1>4, <1>8 DEF Mine, Inside
  <1>10. ASSUME NEW g \in HandlesOf(p)
         PROVE  Backed(g)'
    BY <1>0, <1>2, <1>6, <1>7, NoneHeld, OthersKeep DEF Backed
  <1> QED
    BY <1>1, <1>4, <1>5, <1>6, <1>7, <1>9, <1>10, SameRecordKeeps

LEMMA DropPendingBusyKeeps ==
    ASSUME IInv, NEW f \in Files, DropPendingBusy(f), UNCHANGED late
    PROVE  IInv' /\ Quiet(f) /\ Held(f)' = Held(f)
  <1> DEFINE p == Owner[f]
  <1>0. /\ TypeOK /\ Mine(f) /\ Inside(f) /\ p \in Procs
        /\ f \in HandlesOf(p) /\ HandlesOf(p) \subseteq Files
    BY DEF IInv, HandlesOf
  <1>1. /\ UNCHANGED <<isOpen, fileLock, inode, queue, op, hot, target>> /\ pc[f] = "dropBusy"
        /\ pc' = [pc EXCEPT ![f] = AfterBusy(f)]
        /\ posix' = [posix EXCEPT ![p]["pending"] = "none"]
    BY DEF DropPendingBusy, callers
  <1>2. fileLock[f] = NO_LOCK /\ inode[p].eFileLock = NO_LOCK /\ op[f] \in {"read", "write"}
    BY <1>0, <1>1 DEF Mine, Inside
  <1>3. Granted(p, "pending", "none")
    BY <1>0, <1>1 DEF Granted, TypeOK, Range3
  <1>4. TypeOK' /\ pc'[f] \in {"idle", "backoff"}
    <2>1. posix' \in [Procs -> [Range3 -> {"none", "read", "write"}]]
      BY <1>3 DEF Granted
    <2> QED
      BY <1>0, <1>1, <2>1, AfterBusyPlace DEF TypeOK, Pc
  <1>5. Exclusion'
    BY <1>0, <1>3, GrantKeeps DEF IInv, Range3
  <1>6. Quiet(f) /\ Local(f) /\ Turn(f)
    BY <1>0, <1>1, <1>3 DEF Quiet, Local, Turn, HoldsMutex, TypeOK, Granted
  <1>7. Counted(f)' = Counted(f) /\ Held(f)' = Held(f)
    BY <1>1, <1>4, CountedIs DEF Held
  <1>8. Mine(f)' /\ Inside(f)'
    BY <1>0, <1>1, <1>2, <1>4 DEF Mine, Inside
  <1>9. ASSUME NEW g \in HandlesOf(p)
        PROVE  Backed(g)'
    BY <1>0, <1>2, <1>6, <1>7, NoneHeld, OthersKeep DEF Backed
  <1> QED
    BY <1>1, <1>4, <1>5, <1>6, <1>7, <1>8, <1>9, SameRecordKeeps

\* The first reader of its process.
LEMMA DropPendingKeeps ==
    ASSUME IInv, NEW f \in Files, DropPending(f), UNCHANGED late
    PROVE  IInv' /\ Quiet(f) /\ Held(f) = NO_LOCK /\ Held(f)' = SHARED_LOCK
  <1> DEFINE p == Owner[f]
             in == inode[p]
  <1>0. /\ TypeOK /\ Mine(f) /\ Inside(f) /\ p \in Procs /\ in \in Inode
        /\ f \in HandlesOf(p) /\ HandlesOf(p) \subseteq Files
    BY DEF IInv, HandlesOf, TypeOK
  <1>1. /\ UNCHANGED <<isOpen, queue>> /\ pc[f] = "drop" /\ Proceed(f, SHARED_LOCK)
        /\ pc' = [pc EXCEPT ![f] = "idle"]
        /\ fileLock' = [fileLock EXCEPT ![f] = SHARED_LOCK]
        /\ posix' = [posix EXCEPT ![p]["pending"] = "none"]
    BY DEF DropPending
  <1>2. fileLock[f] = NO_LOCK /\ in.eFileLock = NO_LOCK /\ op[f] \in {"read", "write"}
        /\ posix[p]["shared"] = "read" /\ ~hot[f]
    BY <1>0, <1>1 DEF Mine, Inside
  <1>3. Granted(p, "pending", "none")
    BY <1>0, <1>1 DEF Granted, TypeOK, Range3
  <1>4. /\ inode' \in [Procs -> Inode]
        /\ inode'[p].eFileLock = SHARED_LOCK /\ inode'[p].nShared = 1
        /\ inode'[p].nLock = in.nLock + 1
        /\ \A q \in Procs : q # p => inode'[q] = inode[q]
    <2>1. inode' = [inode EXCEPT ![p] = FirstIn(in)]
      BY <1>0 DEF DropPending, TypeOK
    <2> QED
      BY <1>0, <2>1, FirstInIs DEF TypeOK
  <1>5. TypeOK' /\ pc'[f] = "idle" /\ fileLock'[f] = SHARED_LOCK
    <2>1. posix' \in [Procs -> [Range3 -> {"none", "read", "write"}]]
      BY <1>3 DEF Granted
    <2> QED
      BY <1>0, <1>1, <1>4, <2>1, ProceedKeeps DEF TypeOK, Pc, DropPending
  <1>6. Exclusion'
    BY <1>0, <1>3, GrantKeeps DEF IInv, Range3
  <1>7. Quiet(f) /\ Local(f) /\ Turn(f)
    BY <1>0, <1>1, <1>3, <1>4, ProceedKeeps
       DEF Quiet, Local, Turn, HoldsMutex, TypeOK, Granted
  <1>8. Counted(f) = NO_LOCK /\ Held(f) = NO_LOCK /\ Counted(f)' = SHARED_LOCK /\ Held(f)' = SHARED_LOCK
    BY <1>1, <1>2, <1>5, CountedIs DEF Held
  <1>9. Mine(f)' /\ Inside(f)'
    <2>1. isOpen[f]
      BY <1>0, <1>1 DEF Mine
    <2> QED
      BY <1>0, <1>1, <1>2, <1>5, <2>1, ProceedKeeps DEF Mine, Inside, TypeOK
  <1>10. Counts(p)'
    <2>1. Readers(p) = {}
      BY <1>0, <1>2, NoneHeld DEF Readers
    <2>2. Cardinality(Readers(p)) = 0
      BY <2>1, FS_EmptySet
    <2>3. in.nLock = 0
      BY <1>0, <2>2 DEF IInv, Counts
    <2> QED
      BY <1>2, <1>4, <1>7, <1>8, <2>2, <2>3, OneMoreReader DEF Counts
  <1>11. \A g \in HandlesOf(p) : g # f => Counted(g)' = NO_LOCK /\ Held(g)' = NO_LOCK
    BY <1>0, <1>2, <1>7, NoneHeld, OthersKeep
  <1>12. Tops(p)'
    BY <1>0, <1>4, <1>8, <1>11 DEF Tops, HandlesOf
  <1>13. ASSUME NEW g \in HandlesOf(p)
         PROVE  Backed(g)'
    <2>1. posix'[p]["shared"] = "read" /\ Owner[g] = p
      BY <1>2, <1>3 DEF Granted, Range3, HandlesOf
    <2> QED
      BY <1>8, <1>11, <2>1 DEF Backed
  <1> QED
    BY <1>5, <1>6, <1>7, <1>8, <1>9, <1>10, <1>12, <1>13, Assemble

\* A reader goes up to level l, over all the others of its process.
LEMMA RaisedKeeps ==
    ASSUME IInv, NEW f \in Files, Quiet(f), Local(f), Turn(f), TypeOK',
           Mine(f)', Inside(f)', Exclusion',
           NEW l \in Level, l > SHARED_LOCK, l >= Counted(f), Counted(f)' = l,
           Counted(f) # NO_LOCK, Counted(f) = inode[Owner[f]].eFileLock,
           inode'[Owner[f]].eFileLock = l,
           inode'[Owner[f]].nShared = inode[Owner[f]].nShared,
           inode'[Owner[f]].nLock = inode[Owner[f]].nLock,
           \A g \in HandlesOf(Owner[f]) : Backed(g)'
    PROVE  IInv'
  <1> DEFINE p == Owner[f]
  <1>0. p \in Procs /\ f \in HandlesOf(p) /\ HandlesOf(p) \subseteq Files
    BY DEF HandlesOf
  <1>1. \A g \in HandlesOf(p) : g # f => Counted(g)' = Counted(g)
    BY <1>0, OthersKeep
  <1>2. Readers(p)' = Readers(p)
    BY <1>1 DEF Readers, HandlesOf
  <1>3. Counts(p) /\ Tops(p)
    BY <1>0 DEF IInv
  <1>4. Counts(p)'
    BY <1>2, <1>3 DEF Counts
  <1>5. \A g \in HandlesOf(p) : Counted(g)' \in Level /\ Counted(g) \in Level
    <2>1. \A g \in HandlesOf(p) : Counted(g) \in Level
      BY <1>0, CountedLevel DEF IInv
    <2> QED
      BY <1>1, <2>1
  <1>6. ASSUME NEW g \in HandlesOf(p)
        PROVE  Counted(g)' <= l
    BY <1>0, <1>1, <1>3, <1>5, <1>6 DEF Tops
  <1>7. Tops(p)'
    BY <1>0, <1>6 DEF Tops, HandlesOf
  <1>8. ASSUME NEW g \in HandlesOf(p), Counted(g) > SHARED_LOCK, g # f
        PROVE  FALSE
    <2>1. Counted(g) <= Counted(f)
      BY <1>3, <1>8 DEF Tops
    <2>2. Counted(f) > SHARED_LOCK
      BY <1>0, <1>5, <1>8, <2>1
    <2> QED
      BY <1>0, <1>8, <2>2 DEF IInv, AboveOne, HandlesOf
  <1> QED
    BY <1>4, <1>7, <1>8, Assemble

LEMMA LevelSet ==
    ASSUME TypeOK, NEW p \in Procs, NEW l \in Level,
           inode' = [inode EXCEPT ![p].eFileLock = l]
    PROVE  /\ inode' \in [Procs -> Inode]
           /\ inode'[p].eFileLock = l /\ inode'[p].nShared = inode[p].nShared
           /\ inode'[p].nLock = inode[p].nLock
           /\ \A q \in Procs : q # p => inode'[q] = inode[q]
  BY DEF TypeOK, Inode

LEMMA ReserveKeeps ==
    ASSUME IInv, NEW f \in Files, Reserve(f), UNCHANGED late
    PROVE  IInv' /\ Quiet(f) /\ (Held(f)' = Held(f) \/ Raises(f))
  <1> DEFINE p == Owner[f]
  <1>0. /\ TypeOK /\ Mine(f) /\ p \in Procs
        /\ f \in HandlesOf(p) /\ HandlesOf(p) \subseteq Files
    BY DEF IInv, HandlesOf
  <1>1. Attempts(f) /\ pc[f] = "idle" /\ op[f] # "none" /\ Turn(f)
    BY AttemptsTurn DEF Reserve, Admitted
  <1>2. CASE ~MayWrite(p, "reserved")
    BY <1>1, <1>2, RefusedKeeps DEF Reserve
  <1>3. CASE MayWrite(p, "reserved")
    <2>1. /\ posix' = [posix EXCEPT ![p]["reserved"] = "write"]
          /\ fileLock' = [fileLock EXCEPT ![f] = RESERVED_LOCK]
          /\ inode' = [inode EXCEPT ![p].eFileLock = RESERVED_LOCK]
          /\ Proceed(f, RESERVED_LOCK) /\ UNCHANGED <<isOpen, queue, pc>>
      BY <1>3 DEF Reserve
    <2>2. Granted(p, "reserved", "write")
      BY <1>0, <2>1 DEF Granted, TypeOK, Range3
    <2>3. fileLock[f] = SHARED_LOCK /\ inode[p].eFileLock = SHARED_LOCK /\ ~hot[f]
      <3>1. fileLock[f] \in Level /\ fileLock[f] < RESERVED_LOCK
            /\ Wanted(f) = RESERVED_LOCK
        BY <1>0 DEF TypeOK, Reserve, Admitted, Attempts
      <3>2. ~hot[f] /\ fileLock[f] # NO_LOCK
        BY <1>0, <3>1 DEF Wanted, Mine
      <3>3. ~Precludes(inode[p], fileLock[f], RESERVED_LOCK)
        BY DEF Reserve, Admitted
      <3> QED
        BY <3>1, <3>2, <3>3 DEF Precludes
    <2>4. /\ inode' \in [Procs -> Inode]
          /\ inode'[p].eFileLock = RESERVED_LOCK
          /\ inode'[p].nShared = inode[p].nShared /\ inode'[p].nLock = inode[p].nLock
          /\ \A q \in Procs : q # p => inode'[q] = inode[q]
      <3>1. RESERVED_LOCK \in Level
        OBVIOUS
      <3> QED
        BY <1>0, <2>1, <3>1, LevelSet
    <2>5. TypeOK' /\ fileLock'[f] = RESERVED_LOCK
      <3>1. posix' \in [Procs -> [Range3 -> {"none", "read", "write"}]]
        BY <2>2 DEF Granted
      <3> QED
        BY <1>0, <2>1, <2>4, <3>1, ProceedKeeps DEF TypeOK
    <2>6. Exclusion'
      BY <1>0, <1>3, <2>2, GrantKeeps DEF IInv, Range3
    <2>7. Quiet(f) /\ Local(f)
      BY <1>0, <2>1, <2>2, <2>4, ProceedKeeps DEF Quiet, Local, TypeOK, Granted
    <2>8. Counted(f) = SHARED_LOCK /\ Held(f) = SHARED_LOCK /\ Counted(f)' = RESERVED_LOCK /\ Held(f)' = RESERVED_LOCK
      BY <1>1, <2>1, <2>3, <2>5, CountedIs DEF Held
    <2>9. Mine(f)' /\ Inside(f)'
      <3>1. isOpen[f] /\ op'[f] = "none" /\ ~hot'[f]
        BY <1>0, <2>1, <2>3, ProceedKeeps DEF Mine, TypeOK
      <3> QED
        BY <1>1, <2>1, <2>5, <3>1 DEF Mine, Inside
    <2>10. ASSUME NEW g \in HandlesOf(p)
           PROVE  Backed(g)'
      <3>1. Backed(g) /\ Backed(f) /\ g \in Files /\ Owner[g] = p
        BY <1>0 DEF IInv, HandlesOf
      <3>2. /\ posix'[p]["shared"] = posix[p]["shared"]
            /\ posix'[p]["pending"] = posix[p]["pending"] /\ posix'[p]["reserved"] = "write"
        BY <2>2 DEF Range3, Granted
      <3>3. CASE g = f
        BY <2>8, <3>1, <3>2, <3>3 DEF Backed
      <3>4. CASE g # f
        BY <2>7, <3>1, <3>2, <3>4, OthersKeep DEF Backed
      <3> QED
        BY <3>3, <3>4
    <2> QED
      BY <1>1, <2>3, <2>4, <2>5, <2>6, <2>7, <2>8, <2>9, <2>10, RaisedKeeps
         DEF Raises
  <1> QED
    BY <1>2, <1>3

LEMMA ExclusiveRangeKeeps ==
    ASSUME IInv, NEW f \in Files, ExclusiveRange(f), UNCHANGED late
    PROVE  IInv' /\ Quiet(f) /\ (Held(f)' = Held(f) \/ Raises(f))
  <1> DEFINE p == Owner[f]
             alone == Alone(inode[p])
             granted == alone /\ MayWrite(p, "shared")
             reached == IF granted THEN EXCLUSIVE_LOCK ELSE PENDING_LOCK
  <1>0. /\ TypeOK /\ Mine(f) /\ Inside(f) /\ Backed(f) /\ p \in Procs
        /\ f \in HandlesOf(p) /\ HandlesOf(p) \subseteq Files
    BY DEF IInv, HandlesOf
  <1>1. /\ pc[f] \in {"idle", "exclusive"} /\ Turn(f)
        /\ fileLock[f] \in {SHARED_LOCK, RESERVED_LOCK, PENDING_LOCK}
        /\ fileLock[f] = inode[p].eFileLock /\ posix[p]["pending"] = "write"
    <2>1. CASE pc[f] = "exclusive"
      BY <1>0, <2>1 DEF Mine, Inside, Turn, HoldsMutex
    <2>2. CASE Admitted(f, EXCLUSIVE_LOCK) /\ fileLock[f] = PENDING_LOCK
      <3>1. pc[f] = "idle" /\ Turn(f)
        BY <2>2, AttemptsTurn DEF Admitted
      <3>2. fileLock[f] = inode[p].eFileLock
        BY <2>2 DEF Admitted, Precludes
      <3>3. Counted(f) = PENDING_LOCK
        BY <2>2, <3>1, CountedIs
      <3> QED
        BY <1>0, <2>2, <3>1, <3>2, <3>3 DEF Backed
    <2> QED
      BY <2>1, <2>2 DEF ExclusiveRange
  <1>2. /\ fileLock' = [fileLock EXCEPT ![f] = reached]
        /\ inode' = [inode EXCEPT ![p].eFileLock = reached]
        /\ isOpen' = isOpen
    BY DEF ExclusiveRange
  <1>3. reached \in Level /\ reached \in {PENDING_LOCK, EXCLUSIVE_LOCK}
    OBVIOUS
  <1>4. /\ inode' \in [Procs -> Inode]
        /\ inode'[p].eFileLock = reached
        /\ inode'[p].nShared = inode[p].nShared /\ inode'[p].nLock = inode[p].nLock
        /\ \A q \in Procs : q # p => inode'[q] = inode[q]
    <2> HIDE DEF reached
    <2> QED
      BY <1>0, <1>2, <1>3, LevelSet
  <1>5. /\ hot' = hot /\ target' = target
        /\ op' = op \/ (op' = [op EXCEPT ![f] = IF hot[f] THEN @ ELSE "none"])
        /\ queue' \in [Procs -> Seq(WaitInfo)] /\ pc' \in [Files -> Pc]
        /\ pc'[f] \in {"idle", "backoff", "asleep"}
        /\ op'[f] = "commit" => pc'[f] \in {"idle", "asleep"}
        /\ \A g \in Files : g # f =>
               pc'[g] = pc[g] \/ (pc[g] = "asleep" /\ pc'[g] = AfterBusy(g))
        /\ \A q \in Procs : q # p => queue'[q] = queue[q]
    <2>0. AfterBusy(f) \in {"idle", "backoff"} /\ (op[f] = "commit" => AfterBusy(f) = "idle")
      BY <1>0, AfterBusyPlace DEF Mine, AfterBusy
    <2>1. CASE /\ granted /\ UNCHANGED <<queue, hot, target>>
               /\ pc' = [pc EXCEPT ![f] = "idle"]
               /\ op' = [op EXCEPT ![f] = IF hot[f] THEN @ ELSE "none"]
      BY <1>0, <2>1 DEF TypeOK, Pc
    <2>2. CASE ~alone /\ WaitOrReturn(f, EXCLUSIVE_LOCK, "exclusive") /\ UNCHANGED callers
      <3>1. EXCLUSIVE_LOCK \in Level /\ "exclusive" \in {"shared", "exclusive"}
        OBVIOUS
      <3> QED
        BY <1>0, <2>0, <2>2, <3>1, WaitOrReturnKeeps DEF callers
    <2>3. CASE alone /\ ~granted /\ pc' = [pc EXCEPT ![f] = AfterBusy(f)]
               /\ UNCHANGED <<queue, callers>>
      BY <1>0, <2>0, <2>3 DEF TypeOK, Pc, callers
    <2> QED
      BY <2>1, <2>2, <2>3 DEF ExclusiveRange
  <1>6. \/ /\ granted /\ Granted(p, "shared", "write") /\ reached = EXCLUSIVE_LOCK
        \/ posix' = posix /\ reached = PENDING_LOCK
    <2>1. CASE granted /\ posix' = [posix EXCEPT ![p]["shared"] = "write"]
      <3>1. posix' = [posix EXCEPT ![p]["shared"] = "write"]
        BY <2>1
      <3>2. Granted(p, "shared", "write")
        BY <1>0, <3>1 DEF Granted, TypeOK, Range3
      <3> QED
        BY <2>1, <3>2
    <2> QED
      BY <2>1 DEF ExclusiveRange
  <1> HIDE DEF reached
  <1>7. TypeOK' /\ fileLock'[f] = reached
    <2>1. posix' \in [Procs -> [Range3 -> {"none", "read", "write"}]]
      BY <1>0, <1>6 DEF TypeOK, Granted
    <2>2. op' \in [Files -> Op]
      BY <1>0, <1>5 DEF TypeOK, Op
    <2> QED
      BY <1>0, <1>2, <1>3, <1>4, <1>5, <2>1, <2>2 DEF TypeOK
  <1>8. Exclusion'
    BY <1>0, <1>6, GrantKeeps DEF IInv, Exclusion, Range3
  <1>9. Quiet(f) /\ Local(f)
    <2>1. Quiet(f)
      BY <1>0, <1>2, <1>5, QuietStep
    <2> QED
      BY <1>4, <1>5, <1>6, <2>1 DEF Local, Granted
  <1>10. /\ Counted(f) = fileLock[f] /\ Held(f) = fileLock[f]
         /\ Counted(f)' = reached /\ Held(f)' = reached
    BY <1>1, <1>5, <1>7, CountedIs DEF Held
  <1>11. Mine(f)' /\ Inside(f)'
    <2>1. isOpen[f] /\ op'[f] \in {op[f], "none"}
      BY <1>0, <1>1, <1>5 DEF Mine, TypeOK
    <2>2. hot[f] => op'[f] = op[f]
      BY <1>0, <1>5 DEF TypeOK
    <2> QED
      BY <1>0, <1>2, <1>3, <1>5, <1>7, <2>1, <2>2 DEF Mine, Inside
  <1>12. /\ posix'[p]["pending"] = "write" /\ posix'[p]["reserved"] = posix[p]["reserved"]
         /\ posix'[p]["shared"] = posix[p]["shared"] \/ posix'[p]["shared"] = "write"
         /\ reached = EXCLUSIVE_LOCK => posix'[p]["shared"] = "write"
    BY <1>1, <1>6 DEF Granted, Range3
  <1>13. ASSUME NEW g \in HandlesOf(p)
         PROVE  Backed(g)'
    <2>1. Backed(g) /\ g \in Files /\ Owner[g] = p
      BY <1>0 DEF IInv, HandlesOf
    <2>2. CASE g = f
      <3>1. posix[p]["shared"] # "none"
        BY <1>0, <1>1, <1>10 DEF Backed
      <3> QED
        BY <1>3, <1>10, <1>12, <2>2, <3>1 DEF Backed
    <2>3. CASE g # f
      BY <1>9, <1>12, <2>1, <2>3, OthersKeep DEF Backed
    <2> QED
      BY <2>2, <2>3
  <1>14. reached > SHARED_LOCK /\ reached >= Counted(f) /\ Counted(f) # NO_LOCK
    BY <1>1, <1>3, <1>10
  <1> QED
    BY <1>1, <1>3, <1>4, <1>7, <1>8, <1>9, <1>10, <1>11, <1>13, <1>14, RaisedKeeps
       DEF Raises

(***************************************************************************)
(* posixUnlock.                                                            *)
(***************************************************************************)
LEMMA HeldCounted ==
    ASSUME TypeOK, NEW g \in Files, Mine(g)
    PROVE  Held(g) <= Counted(g) /\ (Counted(g) <= SHARED_LOCK => Held(g) # EXCLUSIVE_LOCK)
  <1>1. target[g] \in {NO_LOCK, SHARED_LOCK} /\ fileLock[g] \in Level
    BY DEF TypeOK
  <1>2. CASE pc[g] \in {"clear", "release", "leave"}
    BY <1>1, <1>2, CountedIs DEF Held, Mine
  <1>3. CASE pc[g] \notin {"clear", "release", "leave"}
    BY <1>1, <1>3, CountedIs DEF Held
  <1> QED
    BY <1>2, <1>3

\* To drop locks keeps the locks of different processes apart.
LEMMA DropKeeps ==
    ASSUME Exclusion,
           \A q \in Procs, r \in Range3 : posix'[q][r] = posix[q][r] \/ posix'[q][r] = "none"
    PROVE  Exclusion'
  BY DEF Exclusion

\* A handle that begins to unlock.
LEMMA UnlocksToIs ==
    ASSUME TypeOK, NEW f \in Files, Mine(f), NEW t \in {NO_LOCK, SHARED_LOCK}, UnlocksTo(f, t)
    PROVE  /\ pc[f] \in {"idle", "backoff"} /\ isOpen[f] /\ op[f] # "commit"
           /\ fileLock[f] > t /\ Counted(f) = fileLock[f] /\ Held(f) = fileLock[f]
           /\ target' = [target EXCEPT ![f] = t]
           /\ target' \in [Files -> {NO_LOCK, SHARED_LOCK}] /\ target'[f] = t
           /\ Turn(f) /\ (t = SHARED_LOCK => pc[f] = "idle")
  <1>1. pc[f] \in {"idle", "backoff"} /\ op[f] # "commit" /\ Turn(f)
        /\ (t = SHARED_LOCK => pc[f] = "idle")
    BY DEF UnlocksTo, Mine, Turn
  <1>2. fileLock[f] > t /\ target' = [target EXCEPT ![f] = t]
    BY DEF UnlocksTo
  <1>3. target' \in [Files -> {NO_LOCK, SHARED_LOCK}] /\ target'[f] = t
    BY <1>2 DEF TypeOK
  <1>4. isOpen[f]
    BY <1>2 DEF Mine
  <1>5. Counted(f) = fileLock[f] /\ Held(f) = fileLock[f]
    BY <1>1, CountedIs DEF Held
  <1> QED
    BY <1>1, <1>2, <1>3, <1>4, <1>5

LEMMA DowngradeKeeps ==
    ASSUME IInv, NEW f \in Files, Downgrade(f), UNCHANGED late
    PROVE  IInv' /\ Quiet(f) /\ Lowers(f)
  <1> DEFINE p == Owner[f]
  <1>0. /\ TypeOK /\ Mine(f) /\ Backed(f) /\ p \in Procs
        /\ f \in HandlesOf(p) /\ HandlesOf(p) \subseteq Files
    BY DEF IInv, HandlesOf
  <1>1. /\ pc[f] = "idle" /\ isOpen[f] /\ op[f] # "commit"
        /\ fileLock[f] > SHARED_LOCK /\ Counted(f) = fileLock[f] /\ Held(f) = fileLock[f]
        /\ target' = [target EXCEPT ![f] = SHARED_LOCK]
        /\ target' \in [Files -> {NO_LOCK, SHARED_LOCK}] /\ target'[f] = SHARED_LOCK
        /\ Turn(f)
    BY <1>0, UnlocksToIs DEF Downgrade
  <1>2. /\ UNCHANGED <<isOpen, fileLock, inode, queue, op, hot>>
        /\ pc' = [pc EXCEPT ![f] = "clear"]
        /\ posix' = [posix EXCEPT ![p]["shared"] = "read"]
    BY DEF Downgrade
  <1>3. Granted(p, "shared", "read")
    BY <1>0, <1>2 DEF Granted, TypeOK, Range3
  <1>4. TypeOK' /\ pc'[f] = "clear"
    <2>1. posix' \in [Procs -> [Range3 -> {"none", "read", "write"}]]
      BY <1>3 DEF Granted
    <2> QED
      BY <1>0, <1>1, <1>2, <2>1 DEF TypeOK, Pc
  <1>5. Exclusion'
    <2>1. posix[p]["shared"] # "none"
      BY <1>0, <1>1, CountedLevel DEF Backed
    <2> QED
      BY <1>0, <1>3, <2>1, GrantKeeps DEF IInv, Range3
  <1>6. Quiet(f) /\ Local(f)
    BY <1>0, <1>1, <1>2, <1>3 DEF Quiet, Local, TypeOK, Granted
  <1>7. Counted(f)' = Counted(f) /\ Held(f)' = SHARED_LOCK
    BY <1>1, <1>2, <1>4, CountedIs DEF Held
  <1>8. Mine(f)' /\ Inside(f)'
    BY <1>0, <1>1, <1>2, <1>4 DEF Mine, Inside
  <1>9. ASSUME NEW g \in HandlesOf(p)
        PROVE  Backed(g)'
    <2>1. Backed(g) /\ Mine(g) /\ g \in Files /\ Owner[g] = p
      BY <1>0 DEF IInv, HandlesOf
    <2>2. /\ posix'[p]["shared"] = "read" /\ posix'[p]["pending"] = posix[p]["pending"]
          /\ posix'[p]["reserved"] = posix[p]["reserved"]
      BY <1>3 DEF Granted, Range3
    <2>3. CASE g = f
      BY <1>7, <2>1, <2>2, <2>3 DEF Backed
    <2>4. CASE g # f
      <3>1. Counted(g)' = Counted(g) /\ Held(g)' = Held(g)
        BY <1>6, <2>1, <2>4, OthersKeep
      <3>2. Counted(g) <= SHARED_LOCK
        <4>1. ~(Counted(g) > SHARED_LOCK)
          BY <1>0, <1>1, <2>1, <2>4 DEF IInv, AboveOne
        <4> QED
          BY <1>0, <2>1, <4>1, CountedLevel
      <3>3. Held(g) # EXCLUSIVE_LOCK
        BY <1>0, <2>1, <3>2, HeldCounted
      <3> QED
        BY <2>1, <2>2, <3>1, <3>3 DEF Backed
    <2> QED
      BY <2>3, <2>4
  <1> QED
    BY <1>1, <1>2, <1>4, <1>5, <1>6, <1>7, <1>8, <1>9, SameRecordKeeps DEF Lowers

LEMMA LeaveKeeps ==
    ASSUME IInv, NEW f \in Files, Leave(f), UNCHANGED late
    PROVE  IInv' /\ Quiet(f) /\ Held(f)' = Held(f)
  <1> DEFINE p == Owner[f]
  <1>0. TypeOK /\ Mine(f) /\ p \in Procs
    BY DEF IInv
  <1>1. /\ UNCHANGED <<isOpen, inode, posix, queue, target>> /\ pc[f] = "leave"
        /\ fileLock' = [fileLock EXCEPT ![f] = target[f]]
        /\ pc' = [pc EXCEPT ![f] = "idle"]
        /\ hot' = [hot EXCEPT ![f] = FALSE]
        /\ op' = [op EXCEPT ![f] =
               IF @ = "upgrade" \/ (@ = "read" /\ target[f] = SHARED_LOCK) THEN "none" ELSE @]
    BY DEF Leave
  <1>2. op' \in [Files -> Op] /\ op'[f] \in {op[f], "none"} /\ op'[f] # "upgrade"
    BY <1>0, <1>1 DEF TypeOK, Op
  <1>3. TypeOK' /\ pc'[f] = "idle" /\ fileLock'[f] = target[f] /\ ~hot'[f]
    BY <1>0, <1>1, <1>2 DEF TypeOK, Pc
  <1>4. Quiet(f)
    BY <1>0, <1>1 DEF Quiet, TypeOK
  <1>5. Local(f) /\ Turn(f) /\ Inside(f)'
    BY <1>1, <1>3 DEF Local, Turn, HoldsMutex, Inside
  <1>6. Counted(f)' = Counted(f) /\ Held(f)' = Held(f)
    BY <1>1, <1>3, CountedIs DEF Held
  <1>7. Mine(f)'
    <2>1. op[f] # "commit" /\ isOpen[f]
      BY <1>0, <1>1 DEF Mine, TypeOK
    <2> QED
      BY <1>1, <1>2, <1>3, <2>1 DEF Mine
  <1> QED
    BY <1>1, <1>3, <1>4, <1>5, <1>6, <1>7, StillKeeps

\* A writer of a process goes down; the others were at SHARED all the time.
LEMMA ClearBytesKeeps ==
    ASSUME IInv, NEW f \in Files, ClearBytes(f), UNCHANGED late
    PROVE  IInv' /\ Quiet(f) /\ (Held(f)' = Held(f) \/ Lowers(f))
  <1> DEFINE p == Owner[f]
             new == [inode[p] EXCEPT !.eFileLock = SHARED_LOCK]
  <1>0. /\ TypeOK /\ Mine(f) /\ Backed(f) /\ p \in Procs
        /\ f \in HandlesOf(p) /\ HandlesOf(p) \subseteq Files
    BY DEF IInv, HandlesOf
  <1>1. /\ UNCHANGED <<isOpen, fileLock, op, hot>>
        /\ posix' = [posix EXCEPT ![p] =
                        [@ EXCEPT !["pending"] = "none", !["reserved"] = "none"]]
        /\ inode' = [inode EXCEPT ![p] = new]
        /\ \/ target'[f] = SHARED_LOCK /\ TrySignal(p, new, f, "leave")
           \/ target'[f] # SHARED_LOCK /\ pc' = [pc EXCEPT ![f] = "release"] /\ UNCHANGED queue
    BY DEF ClearBytes
  <1>2. /\ fileLock[f] > SHARED_LOCK /\ Counted(f) = fileLock[f] /\ Turn(f)
        /\ isOpen[f] /\ op[f] # "commit"
        /\ target' \in [Files -> {NO_LOCK, SHARED_LOCK}]
        /\ target' = target \/ target' = [target EXCEPT ![f] = NO_LOCK]
    <2>1. CASE pc[f] = "clear" /\ UNCHANGED target
      BY <1>0, <2>1, CountedIs DEF Mine, Turn, HoldsMutex, TypeOK
    <2>2. CASE UnlocksTo(f, NO_LOCK) /\ fileLock[f] > SHARED_LOCK
      <3>1. NO_LOCK \in {NO_LOCK, SHARED_LOCK}
        OBVIOUS
      <3> QED
        BY <1>0, <2>2, <3>1, UnlocksToIs
    <2> QED
      BY <2>1, <2>2 DEF ClearBytes
  <1>3. /\ inode' \in [Procs -> Inode]
        /\ inode'[p].eFileLock = SHARED_LOCK
        /\ inode'[p].nShared = inode[p].nShared /\ inode'[p].nLock = inode[p].nLock
        /\ \A q \in Procs : q # p => inode'[q] = inode[q]
    <2>1. inode' = [inode EXCEPT ![p].eFileLock = SHARED_LOCK] /\ SHARED_LOCK \in Level
      BY <1>1
    <2> QED
      BY <1>0, <2>1, LevelSet
  <1>4. /\ posix' \in [Procs -> [Range3 -> {"none", "read", "write"}]]
        /\ posix'[p]["shared"] = posix[p]["shared"]
        /\ \A q \in Procs : q # p => posix'[q] = posix[q]
        /\ \A q \in Procs, r \in Range3 : posix'[q][r] = posix[q][r] \/ posix'[q][r] = "none"
    <2> DEFINE drop == [posix[p] EXCEPT !["pending"] = "none", !["reserved"] = "none"]
    <2>1. /\ drop \in [Range3 -> {"none", "read", "write"}]
          /\ drop["shared"] = posix[p]["shared"]
          /\ \A r \in Range3 : drop[r] = posix[p][r] \/ drop[r] = "none"
      BY <1>0 DEF TypeOK, Range3
    <2>2. posix' = [posix EXCEPT ![p] = drop]
      BY <1>1
    <2> HIDE DEF drop
    <2> QED
      BY <1>0, <2>1, <2>2 DEF TypeOK
  <1> HIDE DEF new
  <1>5. /\ queue' \in [Procs -> Seq(WaitInfo)] /\ pc' \in [Files -> Pc]
        /\ \/ pc'[f] = "leave" /\ target'[f] = SHARED_LOCK
           \/ pc'[f] = "release" /\ target'[f] = NO_LOCK
        /\ \A g \in Files : g # f =>
               pc'[g] = pc[g] \/ (pc[g] = "asleep" /\ pc'[g] = AfterBusy(g))
        /\ \A q \in Procs : q # p => queue'[q] = queue[q]
    <2>1. "leave" \in Pc /\ "release" \in Pc
      BY DEF Pc
    <2>2. CASE target'[f] = SHARED_LOCK /\ TrySignal(p, new, f, "leave")
      BY <1>0, <2>1, <2>2, TrySignalKeeps
    <2>3. CASE target'[f] # SHARED_LOCK /\ pc' = [pc EXCEPT ![f] = "release"] /\ UNCHANGED queue
      BY <1>0, <1>2, <2>1, <2>3 DEF TypeOK
    <2> QED
      BY <1>1, <2>2, <2>3
  <1>6. TypeOK'
    BY <1>0, <1>1, <1>2, <1>3, <1>4, <1>5 DEF TypeOK
  <1>7. Exclusion'
    BY <1>4, DropKeeps DEF IInv
  <1>8. Quiet(f) /\ Local(f)
    <2>1. Quiet(f)
      BY <1>0, <1>1, <1>2, <1>5, QuietStep
    <2> QED
      BY <1>3, <1>4, <1>5, <2>1 DEF Local
  <1>9. Counted(f)' = SHARED_LOCK /\ Held(f)' = target'[f]
    BY <1>5, CountedIs DEF Held
  <1>10. Mine(f)' /\ Inside(f)'
    BY <1>0, <1>1, <1>2, <1>5 DEF Mine, Inside
  <1>11. ASSUME NEW g \in HandlesOf(p), g # f
         PROVE  Counted(g)' = Counted(g) /\ Held(g)' = Held(g) /\ Counted(g) <= SHARED_LOCK
    <2>1. g \in Files /\ Owner[g] = Owner[f]
      BY DEF HandlesOf
    <2>2. ~(Counted(g) > SHARED_LOCK)
      BY <1>2, <1>11, <2>1 DEF IInv, AboveOne
    <2> QED
      BY <1>0, <1>8, <1>11, <2>1, <2>2, OthersKeep, CountedLevel
  <1>12. Counts(p)'
    <2>1. Counted(f) # NO_LOCK /\ Counted(f)' # NO_LOCK
      BY <1>2, <1>9
    <2>2. Readers(p)' = Readers(p)
      BY <1>11, <2>1 DEF Readers, HandlesOf
    <2>3. Counts(p)
      BY <1>0 DEF IInv
    <2> QED
      BY <1>3, <2>2, <2>3 DEF Counts
  <1>13. Tops(p)'
    <2>1. \A g \in HandlesOf(p) : Counted(g)' <= SHARED_LOCK
      BY <1>9, <1>11
    <2> QED
      BY <1>0, <1>3, <1>9, <2>1 DEF Tops, HandlesOf
  <1>14. ASSUME NEW g \in HandlesOf(p)
         PROVE  Backed(g)'
    <2>1. Backed(g) /\ Mine(g) /\ g \in Files /\ Owner[g] = p
      BY <1>0 DEF IInv, HandlesOf
    <2>2. CASE g = f
      <3>1. posix[p]["shared"] # "none"
        BY <1>0, <1>2, CountedLevel DEF Backed
      <3> QED
        BY <1>4, <1>5, <1>9, <2>2, <3>1 DEF Backed
    <2>3. CASE g # f
      <3>1. Held(g) # EXCLUSIVE_LOCK
        BY <1>0, <1>11, <2>1, <2>3, HeldCounted
      <3> QED
        BY <1>0, <1>4, <1>11, <2>1, <2>3, <3>1, CountedLevel DEF Backed
    <2> QED
      BY <2>2, <2>3
  <1>15. Held(f)' = Held(f) \/ Lowers(f)
    <2>1. CASE pc[f] = "clear" /\ UNCHANGED target
      BY <1>9, <2>1 DEF Held
    <2>2. CASE UnlocksTo(f, NO_LOCK)
      <3>1. NO_LOCK \in {NO_LOCK, SHARED_LOCK}
        OBVIOUS
      <3> QED
        BY <1>0, <1>9, <2>2, <3>1, UnlocksToIs DEF Lowers
    <2> QED
      BY <2>1, <2>2 DEF ClearBytes
  <1> QED
    BY <1>2, <1>15, <1>6, <1>7, <1>8, <1>9, <1>10, <1>12, <1>13, <1>14, Assemble

\* A reader of a process leaves; the last one takes the locks of the process with it.
LEMMA ReleaseKeeps ==
    ASSUME IInv, NEW f \in Files, Release(f), UNCHANGED late
    PROVE  IInv' /\ Quiet(f) /\ (Held(f)' = Held(f) \/ Lowers(f))
  <1> DEFINE p == Owner[f]
             n == inode[p].nShared - 1
             k == inode[p].nLock - 1
             new == [eFileLock |-> IF n = 0 THEN NO_LOCK ELSE inode[p].eFileLock,
                     nShared |-> n, nLock |-> k,
                     nUnused |-> IF k = 0 THEN 0 ELSE inode[p].nUnused]
  <1>0. /\ TypeOK /\ Mine(f) /\ Backed(f) /\ p \in Procs /\ inode[p] \in Inode
        /\ f \in HandlesOf(p) /\ HandlesOf(p) \subseteq Files
        /\ Counts(p) /\ Tops(p)
    BY DEF IInv, HandlesOf, TypeOK
  <1>1. /\ UNCHANGED <<isOpen, fileLock, op, hot>>
        /\ posix' = [posix EXCEPT ![p] = IF n = 0 \/ k = 0 THEN Unlocked ELSE @]
        /\ inode' = [inode EXCEPT ![p] = new]
        /\ TrySignal(p, new, f, "leave")
    BY DEF Release
  <1>2. /\ Counted(f) = SHARED_LOCK /\ Turn(f) /\ fileLock[f] > NO_LOCK
        /\ isOpen[f] /\ op[f] # "commit"
        /\ target' \in [Files -> {NO_LOCK, SHARED_LOCK}] /\ target'[f] = NO_LOCK
        /\ target' = target \/ target' = [target EXCEPT ![f] = NO_LOCK]
    <2>1. CASE pc[f] = "release" /\ UNCHANGED target
      <3>1. Counted(f) = SHARED_LOCK /\ Turn(f)
        BY <2>1, CountedIs DEF Turn, HoldsMutex
      <3>2. target[f] = NO_LOCK /\ fileLock[f] > SHARED_LOCK /\ fileLock[f] \in Level
            /\ isOpen[f] /\ op[f] # "commit"
        BY <1>0, <2>1 DEF Mine, TypeOK
      <3> QED
        BY <1>0, <2>1, <3>1, <3>2 DEF TypeOK
    <2>2. CASE UnlocksTo(f, NO_LOCK) /\ fileLock[f] = SHARED_LOCK
      <3>1. NO_LOCK \in {NO_LOCK, SHARED_LOCK}
        OBVIOUS
      <3> QED
        BY <1>0, <2>2, <3>1, UnlocksToIs
    <2> QED
      BY <2>1, <2>2 DEF Release
  <1> HIDE DEF new
  <1>3. /\ queue' \in [Procs -> Seq(WaitInfo)] /\ pc' \in [Files -> Pc] /\ pc'[f] = "leave"
        /\ \A g \in Files : g # f =>
               pc'[g] = pc[g] \/ (pc[g] = "asleep" /\ pc'[g] = AfterBusy(g))
        /\ \A q \in Procs : q # p => queue'[q] = queue[q]
    <2>1. "leave" \in Pc
      BY DEF Pc
    <2> QED
      BY <1>0, <1>1, <2>1, TrySignalKeeps
  <1>4. Counted(f)' = NO_LOCK /\ Held(f)' = NO_LOCK
    BY <1>2, <1>3, CountedIs DEF Held
  <1>5. Quiet(f)
    BY <1>0, <1>1, <1>2, <1>3, QuietStep
  <1>6. \A g \in HandlesOf(p) : g # f => Counted(g)' = Counted(g) /\ Held(g)' = Held(g)
    BY <1>0, <1>5, OthersKeep
  <1>7. /\ Readers(p)' = Readers(p) \ {f} /\ f \in Readers(p)
    BY <1>0, <1>2, <1>4, <1>6 DEF Readers, HandlesOf
  <1>8. /\ Cardinality(Readers(p)') = n /\ n \in Nat /\ k = n
        /\ n = 0 => Readers(p)' = {}
    <2>1. IsFiniteSet(Readers(p)) /\ IsFiniteSet(Readers(p)')
      BY <1>7, ReadersFinite, FS_Subset
    <2>2. Cardinality(Readers(p)') = Cardinality(Readers(p)) - 1
      BY <1>7, <2>1, FS_RemoveElement
    <2>3. Cardinality(Readers(p)') \in Nat /\ Cardinality(Readers(p)) \in Nat
      BY <2>1, FS_CardinalityType
    <2>4. n = 0 => Readers(p)' = {}
      BY <1>0, <2>1, <2>2, <2>3, FS_EmptySet DEF Counts
    <2> QED
      BY <1>0, <2>2, <2>3, <2>4 DEF Counts
  <1>9. /\ new \in Inode /\ new.nShared = n /\ new.nLock = n
        /\ n = 0 => new.eFileLock = NO_LOCK
        /\ n # 0 => new.eFileLock = inode[p].eFileLock
    <2>1. 0 \in Nat /\ NO_LOCK \in Level
      OBVIOUS
    <2> QED
      BY <1>0, <1>8, <2>1 DEF new, Inode
  <1>10. /\ inode' \in [Procs -> Inode] /\ inode'[p] = new
         /\ \A q \in Procs : q # p => inode'[q] = inode[q]
    BY <1>0, <1>1, <1>9 DEF TypeOK
  <1>11. /\ posix' \in [Procs -> [Range3 -> {"none", "read", "write"}]]
         /\ n # 0 => posix'[p] = posix[p]
         /\ \A q \in Procs : q # p => posix'[q] = posix[q]
         /\ \A q \in Procs, r \in Range3 : posix'[q][r] = posix[q][r] \/ posix'[q][r] = "none"
    <2>1. Unlocked \in [Range3 -> {"none", "read", "write"}]
          /\ \A r \in Range3 : Unlocked[r] = "none"
      BY DEF Unlocked
    <2>2. CASE n = 0
      <3>1. posix' = [posix EXCEPT ![p] = Unlocked]
        BY <1>1, <2>2
      <3> QED
        BY <1>0, <2>1, <2>2, <3>1 DEF TypeOK
    <2>3. CASE n # 0
      <3>1. posix' = posix
        BY <1>0, <1>1, <1>8, <2>3 DEF TypeOK
      <3> QED
        BY <1>0, <2>3, <3>1 DEF TypeOK
    <2> QED
      BY <2>2, <2>3
  <1> HIDE DEF n, k
  <1>12. TypeOK'
    BY <1>0, <1>1, <1>2, <1>3, <1>10, <1>11 DEF TypeOK
  <1>13. Exclusion'
    BY <1>11, DropKeeps DEF IInv
  <1>14. Local(f)
    BY <1>3, <1>10, <1>11 DEF Local
  <1>15. Mine(f)' /\ Inside(f)'
    BY <1>0, <1>1, <1>2, <1>3 DEF Mine, Inside
  <1>16. Counts(p)'
    BY <1>8, <1>9, <1>10 DEF Counts
  <1>17. \A g \in HandlesOf(p) : Counted(g)' \in Level /\ (n = 0 => Counted(g)' = NO_LOCK)
    <2>1. \A g \in HandlesOf(p) : Counted(g)' \in Level
      <3>1. \A g \in HandlesOf(p) : Counted(g) \in Level
        BY <1>0, CountedLevel
      <3> QED
        BY <1>4, <1>6, <3>1
    <2> QED
      BY <1>8, <2>1 DEF Readers, HandlesOf
  <1>18. Tops(p)'
    <2>1. CASE n = 0
      BY <1>9, <1>10, <1>17, <2>1 DEF Tops, HandlesOf
    <2>2. CASE n # 0
      <3>1. inode'[p].eFileLock = inode[p].eFileLock /\ inode[p].eFileLock \in Level
        BY <1>0, <1>9, <1>10, <2>2 DEF Inode
      <3>2. \A g \in HandlesOf(p) : Counted(g)' <= inode[p].eFileLock
        BY <1>0, <1>4, <1>6, <3>1 DEF Tops
      <3>3. Readers(p)' # {}
        BY <1>8, <2>2, FS_EmptySet
      <3>4. PICK h \in HandlesOf(p) : h # f /\ Counted(h)' # NO_LOCK
        BY <1>4, <3>3 DEF Readers, HandlesOf
      <3>5. CASE inode[p].eFileLock <= SHARED_LOCK
        <4>1. Counted(h)' = inode[p].eFileLock
          BY <1>17, <3>1, <3>2, <3>4, <3>5
        <4> QED
          BY <3>1, <3>2, <4>1 DEF Tops, HandlesOf
      <3>6. CASE inode[p].eFileLock > SHARED_LOCK
        <4>1. PICK g \in HandlesOf(p) : Counted(g) = inode[p].eFileLock
          BY <1>0, <3>6 DEF Tops
        <4>2. g # f
          BY <1>2, <3>6, <4>1
        <4> QED
          BY <1>6, <3>1, <3>2, <4>1, <4>2 DEF Tops, HandlesOf
      <3> QED
        BY <3>1, <3>5, <3>6
    <2> QED
      BY <2>1, <2>2
  <1>19. ASSUME NEW g \in HandlesOf(p)
         PROVE  Backed(g)'
    <2>1. Backed(g) /\ Mine(g) /\ g \in Files /\ Owner[g] = p
      BY <1>0 DEF IInv, HandlesOf
    <2>2. CASE g = f
      BY <1>4, <2>2 DEF Backed
    <2>3. CASE g # f /\ n # 0
      BY <1>6, <1>11, <2>1, <2>3 DEF Backed
    <2>4. CASE g # f /\ n = 0
      <3>1. Counted(g)' = NO_LOCK /\ Counted(g) = NO_LOCK /\ Held(g)' = Held(g)
        BY <1>6, <1>17, <2>4
      <3>2. Held(g) # EXCLUSIVE_LOCK
        BY <1>0, <2>1, <3>1, HeldCounted
      <3> QED
        BY <3>1, <3>2 DEF Backed
    <2> QED
      BY <2>2, <2>3, <2>4
  <1>20. Held(f)' = Held(f) \/ Lowers(f)
    <2>1. CASE pc[f] = "release" /\ UNCHANGED target
      BY <1>2, <1>4, <2>1 DEF Held
    <2>2. CASE UnlocksTo(f, NO_LOCK)
      <3>1. NO_LOCK \in {NO_LOCK, SHARED_LOCK}
        OBVIOUS
      <3> QED
        BY <1>0, <1>4, <2>2, <3>1, UnlocksToIs DEF Lowers
    <2> QED
      BY <2>1, <2>2 DEF Release
  <1> QED
    BY <1>2, <1>20, <1>4, <1>5, <1>12, <1>13, <1>14, <1>15, <1>16, <1>18, <1>19, Assemble

(***************************************************************************)
(* Closing a handle, and the end of a process.                             *)
(***************************************************************************)
LEMMA MappedSeq ==
    ASSUME NEW S, NEW q \in Seq(S), NEW r, DOMAIN r = DOMAIN q, r = [i \in DOMAIN q |-> r[i]],
           \A i \in DOMAIN q : r[i] \in S
    PROVE  r \in Seq(S)
  <1>1. Len(q) \in Nat /\ DOMAIN q = 1 .. Len(q)
    BY LenProperties
  <1>2. r \in [1 .. Len(q) -> S]
    BY <1>1
  <1> QED
    BY <1>1, <1>2, SeqDef

LEMMA OneMoreUnusedIs ==
    ASSUME NEW in \in Inode
    PROVE  /\ OneMoreUnused(in) \in Inode
           /\ OneMoreUnused(in).eFileLock = in.eFileLock
           /\ OneMoreUnused(in).nShared = in.nShared /\ OneMoreUnused(in).nLock = in.nLock
  <1>1. in.nUnused + 1 \in Nat
    BY DEF Inode
  <1> QED
    BY <1>1 DEF OneMoreUnused, Inode

LEMMA CloseKeeps ==
    ASSUME IInv, NEW f \in Files, Close(f), UNCHANGED late
    PROVE  IInv' /\ Quiet(f) /\ Held(f)' = Held(f)
  <1> DEFINE p == Owner[f]
             last == \A g \in HandlesOf(p) : isOpen[g] => g = f
             q == queue[p]
             free == [i \in DOMAIN q |->
                         IF q[i].file = f THEN [q[i] EXCEPT !.freed = TRUE] ELSE q[i]]
  <1>0. /\ TypeOK /\ Mine(f) /\ Backed(f) /\ p \in Procs /\ inode[p] \in Inode
        /\ f \in HandlesOf(p) /\ HandlesOf(p) \subseteq Files
        /\ Counts(p) /\ Tops(p) /\ q \in Seq(WaitInfo)
    BY DEF IInv, HandlesOf, TypeOK
  <1>1. /\ isOpen[f] /\ pc[f] = "idle" /\ op[f] = "none" /\ fileLock[f] = NO_LOCK
        /\ MutexFree(p) /\ UNCHANGED <<fileLock, pc, op, hot, target>>
        /\ isOpen' = [isOpen EXCEPT ![f] = FALSE]
        /\ inode' = [inode EXCEPT ![p] =
                        IF last THEN NewInode
                        ELSE IF PutsOffClose(inode[p]) THEN OneMoreUnused(@)
                        ELSE @]
        /\ posix' = [posix EXCEPT ![p] = IF PutsOffClose(inode[p]) THEN @ ELSE Unlocked]
        /\ queue' = [queue EXCEPT ![p] = IF last THEN <<>> ELSE free]
    BY DEF Close, callers
  <1>2. /\ Readers(p) = {} => inode[p].nShared = 0 /\ inode[p].nLock = 0
        /\ inode[p].nLock = 0 => Readers(p) = {}
    BY <1>0, ReadersFinite, FS_EmptySet DEF Counts
  <1>3. Readers(p) = {} => inode[p].eFileLock = NO_LOCK
    BY <1>0 DEF Tops, Readers
  <1>4. last => Readers(p) = {}
    <2> SUFFICES ASSUME last, NEW g \in HandlesOf(p)
                 PROVE  Counted(g) = NO_LOCK
      BY DEF Readers
    <2>1. Mine(g)
      BY <1>0 DEF IInv
    <2>2. CASE g = f
      BY <1>1, <2>2, CountedIs
    <2>3. CASE g # f
      <3>1. ~isOpen[g]
        BY <2>3
      <3> QED
        BY <2>1, <3>1, CountedIs DEF Mine
    <2> QED
      BY <2>2, <2>3
  <1>5. /\ NewInode \in Inode /\ NewInode.eFileLock = NO_LOCK
        /\ NewInode.nShared = 0 /\ NewInode.nLock = 0
    <2>1. NO_LOCK \in Level /\ 0 \in Nat
      OBVIOUS
    <2> QED
      BY <2>1 DEF NewInode, Inode
  <1>6. /\ inode' \in [Procs -> Inode]
        /\ inode'[p].eFileLock = inode[p].eFileLock
        /\ inode'[p].nShared = inode[p].nShared /\ inode'[p].nLock = inode[p].nLock
        /\ \A r \in Procs : r # p => inode'[r] = inode[r]
    <2>1. CASE last
      <3>1. inode' = [inode EXCEPT ![p] = NewInode]
        BY <1>1, <2>1
      <3> QED
        BY <1>0, <1>2, <1>3, <1>4, <1>5, <2>1, <3>1 DEF TypeOK
    <2>2. CASE ~last /\ PutsOffClose(inode[p])
      <3>1. inode' = [inode EXCEPT ![p] = OneMoreUnused(inode[p])]
        BY <1>0, <1>1, <2>2 DEF TypeOK
      <3> QED
        BY <1>0, <3>1, OneMoreUnusedIs DEF TypeOK
    <2>3. CASE ~last /\ ~PutsOffClose(inode[p])
      <3>1. inode' = inode
        BY <1>0, <1>1, <2>3 DEF TypeOK
      <3> QED
        BY <1>0, <3>1 DEF TypeOK
    <2> QED
      BY <2>1, <2>2, <2>3
  <1>7. /\ posix' \in [Procs -> [Range3 -> {"none", "read", "write"}]]
        /\ inode[p].nLock > 0 => posix'[p] = posix[p]
        /\ \A r \in Procs : r # p => posix'[r] = posix[r]
        /\ \A r \in Procs, s \in Range3 : posix'[r][s] = posix[r][s] \/ posix'[r][s] = "none"
    <2>1. Unlocked \in [Range3 -> {"none", "read", "write"}]
          /\ \A r \in Range3 : Unlocked[r] = "none"
      BY DEF Unlocked
    <2>2. CASE PutsOffClose(inode[p])
      <3>1. posix' = posix
        BY <1>0, <1>1, <2>2 DEF TypeOK
      <3> QED
        BY <1>0, <3>1 DEF TypeOK
    <2>3. CASE ~PutsOffClose(inode[p])
      <3>1. posix' = [posix EXCEPT ![p] = Unlocked]
        BY <1>1, <2>3
      <3> QED
        BY <1>0, <2>1, <2>3, <3>1 DEF TypeOK, PutsOffClose
    <2> QED
      BY <2>2, <2>3
  <1>8. /\ queue' \in [Procs -> Seq(WaitInfo)]
        /\ \A r \in Procs : r # p => queue'[r] = queue[r]
    <2>1. free \in Seq(WaitInfo)
      <3>1. \A i \in DOMAIN q : q[i] \in WaitInfo
        BY <1>0, LenProperties, ElementOfSeq
      <3>2. \A i \in DOMAIN q : free[i] \in WaitInfo
        BY <3>1 DEF WaitInfo
      <3>3. DOMAIN free = DOMAIN q /\ free = [i \in DOMAIN q |-> free[i]]
        OBVIOUS
      <3> HIDE DEF free
      <3> QED
        BY <1>0, <3>2, <3>3, MappedSeq
    <2>2. <<>> \in Seq(WaitInfo)
      OBVIOUS
    <2> QED
      BY <1>0, <1>1, <2>1, <2>2 DEF TypeOK
  <1> HIDE DEF last, free
  <1>9. TypeOK'
    BY <1>0, <1>1, <1>6, <1>7, <1>8 DEF TypeOK
  <1>10. Exclusion'
    BY <1>7, DropKeeps DEF IInv
  <1>11. Quiet(f) /\ Local(f) /\ Turn(f)
    <2>1. Quiet(f)
      BY <1>0, <1>1 DEF Quiet, TypeOK
    <2> QED
      BY <1>1, <1>6, <1>7, <1>8, <2>1 DEF Local, Turn
  <1>12. Counted(f)' = Counted(f) /\ Held(f)' = Held(f)
    BY <1>1, CountedIs DEF Held
  <1>13. Mine(f)' /\ Inside(f)'
    BY <1>0, <1>1 DEF Mine, Inside
  <1>14. ASSUME NEW g \in HandlesOf(p)
         PROVE  Backed(g)'
    <2>1. Backed(g) /\ Mine(g) /\ g \in Files /\ Owner[g] = p
      BY <1>0 DEF IInv, HandlesOf
    <2>2. Counted(g)' = Counted(g) /\ Held(g)' = Held(g)
      BY <1>11, <1>12, <2>1, OthersKeep
    <2>3. CASE inode[p].nLock > 0
      BY <1>7, <2>1, <2>2, <2>3 DEF Backed
    <2>4. CASE ~(inode[p].nLock > 0)
      <3>1. Counted(g) = NO_LOCK
        <4>1. inode[p].nLock = 0
          BY <1>0, <2>4 DEF Inode
        <4> QED
          BY <1>2, <4>1 DEF Readers
      <3>2. Held(g) # EXCLUSIVE_LOCK
        BY <1>0, <2>1, <3>1, HeldCounted
      <3> QED
        BY <2>2, <3>1, <3>2 DEF Backed
    <2> QED
      BY <2>3, <2>4
  <1> QED
    BY <1>6, <1>9, <1>10, <1>11, <1>12, <1>13, <1>14, SameRecordKeeps

LEMMA CrashKeeps ==
    ASSUME IInv, NEW p \in Procs, Crash(p)
    PROVE  IInv'
  <1>0. TypeOK
    BY DEF IInv
  <1>1. ASSUME NEW f \in Files, Owner[f] = p
        PROVE  /\ ~isOpen'[f] /\ fileLock'[f] = NO_LOCK /\ pc'[f] = "idle"
               /\ op'[f] = "none" /\ ~hot'[f] /\ target'[f] = NO_LOCK
    BY <1>1 DEF Crash
  <1>2. ASSUME NEW f \in Files, Owner[f] # p
        PROVE  /\ isOpen'[f] = isOpen[f] /\ fileLock'[f] = fileLock[f] /\ pc'[f] = pc[f]
               /\ op'[f] = op[f] /\ hot'[f] = hot[f] /\ target'[f] = target[f]
    BY <1>2 DEF Crash
  <1>3. /\ inode' = [inode EXCEPT ![p] = NewInode]
        /\ posix' = [posix EXCEPT ![p] = Unlocked]
        /\ queue' = [queue EXCEPT ![p] = <<>>]
        /\ late' = late \ {p}
    BY DEF Crash
  <1>4. /\ NewInode \in Inode /\ NewInode.eFileLock = NO_LOCK
        /\ NewInode.nShared = 0 /\ NewInode.nLock = 0
    <2>1. NO_LOCK \in Level /\ 0 \in Nat
      OBVIOUS
    <2> QED
      BY <2>1 DEF NewInode, Inode
  <1>5. /\ Unlocked \in [Range3 -> {"none", "read", "write"}]
        /\ \A r \in Range3 : Unlocked[r] = "none"
    BY DEF Unlocked
  <1>6. TypeOK'
    <2>1. isOpen' \in [Files -> BOOLEAN] /\ fileLock' \in [Files -> Level]
      <3>1. NO_LOCK \in Level
        OBVIOUS
      <3>2. fileLock' \in [Files -> Level]
        BY <1>0, <3>1 DEF Crash, TypeOK
      <3>3. isOpen' \in [Files -> BOOLEAN]
        BY <1>0 DEF Crash, TypeOK
      <3> QED
        BY <3>2, <3>3
    <2>2. pc' \in [Files -> Pc] /\ op' \in [Files -> Op]
      <3>1. "idle" \in Pc /\ "none" \in Op
        BY DEF Pc, Op
      <3> QED
        BY <1>0, <3>1 DEF Crash, TypeOK
    <2>3. hot' \in [Files -> BOOLEAN] /\ target' \in [Files -> {NO_LOCK, SHARED_LOCK}]
      BY <1>0 DEF Crash, TypeOK
    <2>4. inode' \in [Procs -> Inode] /\ late' \subseteq Procs
      BY <1>0, <1>3, <1>4 DEF TypeOK
    <2>5. posix' \in [Procs -> [Range3 -> {"none", "read", "write"}]]
      BY <1>0, <1>3, <1>5 DEF TypeOK
    <2>6. queue' \in [Procs -> Seq(WaitInfo)]
      <3>1. <<>> \in Seq(WaitInfo)
        OBVIOUS
      <3> QED
        BY <1>0, <1>3, <3>1 DEF TypeOK
    <2> QED
      BY <2>1, <2>2, <2>3, <2>4, <2>5, <2>6 DEF TypeOK
  <1>7. /\ inode'[p] = NewInode /\ posix'[p] = Unlocked
        /\ \A q \in Procs : q # p => inode'[q] = inode[q] /\ posix'[q] = posix[q]
    BY <1>0, <1>3 DEF TypeOK
  <1>8. ASSUME NEW f \in Files, Owner[f] = p
        PROVE  Counted(f)' = NO_LOCK /\ Held(f)' = NO_LOCK /\ ~HoldsMutex(f)'
    BY <1>1, <1>8, CountedIs DEF Held, HoldsMutex
  <1>9. ASSUME NEW f \in Files, Owner[f] # p
        PROVE  /\ Counted(f)' = Counted(f) /\ Held(f)' = Held(f)
               /\ HoldsMutex(f)' <=> HoldsMutex(f)
    BY <1>2, <1>9 DEF Counted, Held, HoldsMutex
  <1>10. ASSUME NEW f \in Files
         PROVE  Mine(f)' /\ Inside(f)' /\ Backed(f)'
    <2>1. CASE Owner[f] = p
      BY <1>1, <1>8, <2>1 DEF Mine, Inside, Backed
    <2>2. CASE Owner[f] # p
      <3>1. Mine(f) /\ Inside(f) /\ Backed(f) /\ Owner[f] \in Procs
        BY DEF IInv
      <3>2. inode'[Owner[f]] = inode[Owner[f]] /\ posix'[Owner[f]] = posix[Owner[f]]
        BY <1>7, <2>2, <3>1
      <3>3. Mine(f)'
        BY <1>2, <2>2, <3>1 DEF Mine
      <3>4. Inside(f)'
        BY <1>2, <2>2, <3>1, <3>2 DEF Inside
      <3>5. Backed(f)'
        BY <1>9, <2>2, <3>1, <3>2 DEF Backed
      <3> QED
        BY <3>3, <3>4, <3>5
    <2> QED
      BY <2>1, <2>2
  <1>11. MutexOne' /\ AboveOne'
    BY <1>8, <1>9 DEF IInv, MutexOne, AboveOne
  <1>12. Exclusion'
    <2>1. \A q \in Procs, r \in Range3 : posix'[q][r] = posix[q][r] \/ posix'[q][r] = "none"
      BY <1>5, <1>7
    <2> QED
      BY <2>1, DropKeeps DEF IInv
  <1>13. ASSUME NEW q \in Procs
         PROVE  Counts(q)' /\ Tops(q)'
    <2>1. CASE q = p
      <3>1. \A g \in HandlesOf(q) : Counted(g)' = NO_LOCK
        BY <1>8, <2>1 DEF HandlesOf
      <3>2. Readers(q)' = {}
        BY <3>1 DEF Readers, HandlesOf
      <3> QED
        BY <1>4, <1>7, <2>1, <3>1, <3>2, FS_EmptySet DEF Counts, Tops, HandlesOf
    <2>2. CASE q # p
      <3>1. \A g \in HandlesOf(q) : Counted(g)' = Counted(g)
        BY <1>9, <2>2 DEF HandlesOf
      <3>2. Readers(q)' = Readers(q) /\ inode'[q] = inode[q]
        BY <1>7, <2>2, <3>1 DEF Readers, HandlesOf
      <3>3. Counts(q) /\ Tops(q)
        BY DEF IInv
      <3> QED
        BY <3>1, <3>2, <3>3 DEF Counts, Tops, HandlesOf
    <2> QED
      BY <2>1, <2>2
  <1> QED
    BY <1>6, <1>10, <1>11, <1>12, <1>13 DEF IInv

(***************************************************************************)
(* The invariant holds always, and what follows from it.                   *)
(***************************************************************************)
LEMMA InitIInv == Init => IInv
  <1> SUFFICES ASSUME Init PROVE IInv
    OBVIOUS
  <1>1. TypeOK
    <2>1. NO_LOCK \in Level /\ 0 \in Nat
      OBVIOUS
    <2>2. NewInode \in Inode
      BY <2>1 DEF NewInode, Inode
    <2>3. Unlocked \in [Range3 -> {"none", "read", "write"}]
      BY DEF Unlocked
    <2>4. <<>> \in Seq(WaitInfo)
      OBVIOUS
    <2> QED
      BY <2>1, <2>2, <2>3, <2>4 DEF Init, TypeOK, Pc, Op
  <1>2. ASSUME NEW f \in Files
        PROVE  Counted(f) = NO_LOCK /\ Held(f) = NO_LOCK /\ ~HoldsMutex(f)
               /\ Mine(f) /\ Inside(f) /\ pc[f] = "idle"
    BY CountedIs DEF Init, Held, HoldsMutex, Mine, Inside
  <1>3. \A f \in Files : Backed(f)
    BY <1>2 DEF Backed
  <1>4. MutexOne /\ AboveOne
    BY <1>2 DEF MutexOne, AboveOne
  <1>5. Exclusion
    BY DEF Init, Exclusion, Unlocked
  <1>6. ASSUME NEW p \in Procs
        PROVE  Counts(p) /\ Tops(p)
    <2>1. Readers(p) = {}
      BY <1>2 DEF Readers, HandlesOf
    <2>2. inode[p].eFileLock = NO_LOCK /\ inode[p].nShared = 0 /\ inode[p].nLock = 0
      BY DEF Init, NewInode
    <2> QED
      BY <1>2, <2>1, <2>2, FS_EmptySet DEF Counts, Tops, HandlesOf
  <1> QED
    BY <1>1, <1>2, <1>3, <1>4, <1>5, <1>6 DEF IInv

LEMMA StutterIInv == IInv /\ UNCHANGED vars => IInv'
  <1> SUFFICES ASSUME IInv, UNCHANGED vars PROVE IInv'
    OBVIOUS
  <1>1. UNCHANGED <<isOpen, fileLock, inode, posix, queue, pc, op, hot, target, late>>
    BY DEF vars, callers
  <1>2. TypeOK'
    BY <1>1 DEF IInv, TypeOK
  <1>3. \A f \in Files : Mine(f)' /\ Inside(f)' /\ Backed(f)'
    BY <1>1 DEF IInv, Mine, Inside, Backed, Counted, Held
  <1>4. MutexOne' /\ AboveOne' /\ Exclusion'
    BY <1>1 DEF IInv, MutexOne, AboveOne, Exclusion, HoldsMutex, Counted
  <1>5. \A p \in Procs : Counts(p)' /\ Tops(p)'
    BY <1>1 DEF IInv, Counts, Tops, Readers, Counted
  <1> QED
    BY <1>2, <1>3, <1>4, <1>5 DEF IInv

LEMMA NextIInv == IInv /\ [Next]_vars => IInv'
  <1> SUFFICES ASSUME IInv, [Next]_vars PROVE IInv'
    OBVIOUS
  <1>1. ASSUME NEW f \in Files, Using(f), UNCHANGED late PROVE IInv'
    BY <1>1, OpenKeeps, CloseKeeps, CallerKeeps DEF Using
  <1>2. ASSUME NEW f \in Files, Locking(f), UNCHANGED late PROVE IInv'
    BY <1>2, PrecludedKeeps, ShareInProcessKeeps, PendingByteKeeps, SharedRangeKeeps,
       DropPendingKeeps, DropPendingBusyKeeps, ReserveKeeps, ExclusiveRangeKeeps
       DEF Locking
  <1>3. ASSUME NEW f \in Files, Unlocking(f), UNCHANGED late PROVE IInv'
    BY <1>3, DowngradeKeeps, ClearBytesKeeps, ReleaseKeeps, LeaveKeeps DEF Unlocking
  <1> QED
    BY <1>1, <1>2, <1>3, TimeoutKeeps, CrashKeeps, StutterIInv DEF Next

THEOREM Invariance == Spec => []IInv
  BY InitIInv, NextIInv, PTL DEF Spec

\* Every variable keeps its type (UnixLocks.TypeOK).
THEOREM TypeCorrect == Spec => []TypeOK
  <1>1. IInv => TypeOK
    BY DEF IInv
  <1> QED
    BY <1>1, Invariance, PTL

\* What a process records of its locks, under the mutex, always agrees with the locks of
\* its handles (posixUnlock, os_unix.c:1817-1819).
THEOREM RecordsAgree == Spec => []InodeAgrees
  <1>1. IInv => InodeAgrees
    BY DEF IInv, InodeAgrees, Counts, Tops
  <1> QED
    BY <1>1, Invariance, PTL

\* No handle has a lock its process does not hold for the other processes to see,
\* although any handle of the process may drop them all (unixClose, os_unix.c:2038).
THEOREM LocksBacked == Spec => []LockBacked
  <1>1. IInv => LockBacked
    <2> SUFFICES ASSUME IInv, NEW f \in Files
                 PROVE  LET has == posix[Owner[f]] IN
                        /\ Held(f) >= SHARED_LOCK => has["shared"] # "none"
                        /\ Held(f) = RESERVED_LOCK => has["reserved"] = "write"
                        /\ Held(f) >= PENDING_LOCK => has["pending"] = "write"
                        /\ Held(f) = EXCLUSIVE_LOCK => has["shared"] = "write"
      BY DEF LockBacked
    <2>1. TypeOK /\ Mine(f) /\ Backed(f)
      BY DEF IInv
    <2>2. Held(f) \in Level /\ Counted(f) \in Level /\ Held(f) <= Counted(f)
      BY <2>1, CountedLevel, HeldCounted
    <2>3. Held(f) > SHARED_LOCK => Counted(f) = Held(f)
      BY <2>1, CountedIs DEF Held, TypeOK
    <2> QED
      BY <2>1, <2>2, <2>3 DEF Backed
  <1> QED
    BY <1>1, Invariance, PTL

(***************************************************************************)
(* The handles of all processes are locked as FileLock promises.           *)
(***************************************************************************)

\* A process with a writer that is alone has one reader, the writer.
LonelyWriter ==
    \A p \in Procs : inode[p].eFileLock = EXCLUSIVE_LOCK => inode[p].nShared = 1

LEMMA LonelyLocal ==
    ASSUME LonelyWriter, NEW p \in Procs,
           \A q \in Procs : q # p => inode'[q] = inode[q],
           inode'[p].eFileLock = EXCLUSIVE_LOCK => inode'[p].nShared = 1
    PROVE  LonelyWriter'
  BY DEF LonelyWriter

\* Levels of one record are set by a few actions, and only the last lock makes one
\* EXCLUSIVE: of a process with a single reader.
LEMMA LonelyKeeps ==
    ASSUME TypeOK, LonelyWriter, NEW f \in Files, Using(f) \/ Locking(f) \/ Unlocking(f)
    PROVE  LonelyWriter'
  <1> DEFINE p == Owner[f]
             in == inode[p]
  <1>0. p \in Procs /\ in \in Inode /\ inode \in [Procs -> Inode]
        /\ \A l \in {SHARED_LOCK, RESERVED_LOCK, PENDING_LOCK, EXCLUSIVE_LOCK} : l \in Level
    BY DEF TypeOK
  <1>1. CASE UNCHANGED inode
    BY <1>1 DEF LonelyWriter
  <1>2. CASE Open(f)
    <2>1. inode' = [inode EXCEPT ![p].nUnused = MayTakeOver(@)]
      BY <1>2 DEF Open
    <2>2. inode'[p].eFileLock = in.eFileLock /\ inode'[p].nShared = in.nShared
          /\ \A q \in Procs : q # p => inode'[q] = inode[q]
      BY <1>0, <2>1 DEF Inode
    <2> QED
      BY <1>0, <2>2, LonelyLocal DEF LonelyWriter
  <1>3. CASE Close(f)
    <2> DEFINE new == IF \A g \in HandlesOf(p) : isOpen[g] => g = f THEN NewInode
                      ELSE IF PutsOffClose(in) THEN OneMoreUnused(in) ELSE in
    <2>1. inode' = [inode EXCEPT ![p] = new]
      BY <1>0, <1>3 DEF Close
    <2>2. new \in {NewInode, OneMoreUnused(in), in}
      OBVIOUS
    <2>3. new.eFileLock = EXCLUSIVE_LOCK => new.nShared = 1
      BY <1>0, <2>2, OneMoreUnusedIs DEF NewInode, LonelyWriter
    <2> HIDE DEF new
    <2> QED
      BY <1>0, <2>1, <2>3, LonelyLocal
  <1>4. CASE ShareInProcess(f)
    <2>1. inode' = [inode EXCEPT ![p] = CountedIn(in)]
          /\ in.eFileLock \in {SHARED_LOCK, RESERVED_LOCK}
      BY <1>0, <1>4 DEF ShareInProcess
    <2> QED
      BY <1>0, <2>1, CountedInIs, LonelyLocal
  <1>5. CASE DropPending(f)
    <2>1. inode' = [inode EXCEPT ![p] = FirstIn(in)]
      BY <1>0, <1>5 DEF DropPending
    <2> QED
      BY <1>0, <2>1, FirstInIs, LonelyLocal
  <1>6. ASSUME NEW l \in {SHARED_LOCK, RESERVED_LOCK, PENDING_LOCK, EXCLUSIVE_LOCK},
               inode' = [inode EXCEPT ![p].eFileLock = l],
               l = EXCLUSIVE_LOCK => in.nShared = 1
        PROVE  LonelyWriter'
    BY <1>0, <1>6, LevelSet, LonelyLocal
  <1>7. CASE Reserve(f)
    BY <1>1, <1>6, <1>7 DEF Reserve
  <1>8. CASE ExclusiveRange(f)
    <2> DEFINE granted == Alone(in) /\ MayWrite(p, "shared")
               reached == IF granted THEN EXCLUSIVE_LOCK ELSE PENDING_LOCK
    <2>1. inode' = [inode EXCEPT ![p].eFileLock = reached]
      BY <1>8 DEF ExclusiveRange
    <2>2. reached \in {SHARED_LOCK, RESERVED_LOCK, PENDING_LOCK, EXCLUSIVE_LOCK}
          /\ (reached = EXCLUSIVE_LOCK => in.nShared = 1)
      BY DEF Alone
    <2> HIDE DEF reached
    <2> QED
      BY <1>6, <2>1, <2>2
  <1>9. CASE ClearBytes(f)
    <2>1. inode' = [inode EXCEPT ![p].eFileLock = SHARED_LOCK]
      BY <1>9 DEF ClearBytes
    <2> QED
      BY <1>6, <2>1
  <1>10. CASE Release(f)
    <2> DEFINE new == [eFileLock |-> IF in.nShared - 1 = 0 THEN NO_LOCK ELSE in.eFileLock,
                       nShared |-> in.nShared - 1, nLock |-> in.nLock - 1,
                       nUnused |-> IF in.nLock - 1 = 0 THEN 0 ELSE in.nUnused]
    <2>1. inode' = [inode EXCEPT ![p] = new]
      BY <1>10 DEF Release
    <2>2. new.eFileLock # EXCLUSIVE_LOCK
      BY <1>0 DEF LonelyWriter
    <2> HIDE DEF new
    <2> QED
      BY <1>0, <2>1, <2>2, LonelyLocal
  <1>11. CASE UNCHANGED inode \/ Open(f) \/ Close(f) \/ ShareInProcess(f) \/ DropPending(f)
              \/ Reserve(f) \/ ExclusiveRange(f) \/ ClearBytes(f) \/ Release(f)
    BY <1>1, <1>2, <1>3, <1>4, <1>5, <1>7, <1>8, <1>9, <1>10, <1>11
  <1>12. CASE Using(f)
    BY <1>11, <1>12 DEF Using, BeginRead, BeginWrite, Begin, Upgrade, Commit, Go, Fail
  <1>13. CASE Locking(f)
    BY <1>11, <1>13 DEF Locking, Precluded, PendingByte, SharedRange, DropPendingBusy
  <1>14. CASE Unlocking(f)
    BY <1>11, <1>14 DEF Unlocking, Downgrade, Leave
  <1> QED
    BY <1>12, <1>13, <1>14

LEMMA NextLonely == IInv /\ LonelyWriter /\ [Next]_vars => LonelyWriter'
  <1> SUFFICES ASSUME IInv, LonelyWriter, [Next]_vars PROVE LonelyWriter'
    OBVIOUS
  <1>0. TypeOK
    BY DEF IInv
  <1>1. ASSUME NEW f \in Files, Timeout(f) PROVE LonelyWriter'
    BY <1>1 DEF Timeout, LonelyWriter
  <1>2. ASSUME NEW p \in Procs, Crash(p) PROVE LonelyWriter'
    <2>1. inode' = [inode EXCEPT ![p] = NewInode] /\ NewInode.eFileLock = NO_LOCK
      BY <1>2 DEF Crash, NewInode
    <2> QED
      BY <1>0, <2>1, LonelyLocal DEF TypeOK
  <1>3. CASE UNCHANGED vars
    BY <1>3 DEF vars, LonelyWriter
  <1> QED
    BY <1>0, <1>1, <1>2, <1>3, LonelyKeeps DEF Next

LEMMA LonelyAlways == Spec => []LonelyWriter
  <1>1. Init => LonelyWriter
    BY DEF Init, LonelyWriter, NewInode
  <1> QED
    BY <1>1, NextLonely, Invariance, PTL DEF Spec

\* What one state says: the handles' locks are compatible.  Within a process one handle is
\* above SHARED; over all of them one has RESERVED and one PENDING or above, which may be
\* different ones (see FileLock), and one with EXCLUSIVE is alone.
Compatible ==
    \A f, g \in Files : f # g =>
        /\ Owner[f] = Owner[g] /\ Held(f) > SHARED_LOCK => Held(g) <= SHARED_LOCK
        /\ ~(Held(f) = RESERVED_LOCK /\ Held(g) = RESERVED_LOCK)
        /\ Held(f) >= PENDING_LOCK => Held(g) < PENDING_LOCK
        /\ Held(f) = EXCLUSIVE_LOCK => Held(g) = NO_LOCK

\* What stands behind a lock above SHARED.
LEMMA HeldIs ==
    ASSUME IInv, NEW f \in Files
    PROVE  /\ Held(f) \in Level /\ Counted(f) \in Level /\ Held(f) <= Counted(f)
           /\ Held(f) > SHARED_LOCK => Counted(f) = Held(f)
           /\ Held(f) >= SHARED_LOCK => posix[Owner[f]]["shared"] # "none"
           /\ Held(f) = RESERVED_LOCK => posix[Owner[f]]["reserved"] = "write"
           /\ Held(f) >= PENDING_LOCK => posix[Owner[f]]["pending"] = "write"
           /\ Held(f) = EXCLUSIVE_LOCK => posix[Owner[f]]["shared"] = "write"
  <1>1. TypeOK /\ Mine(f) /\ Backed(f)
    BY DEF IInv
  <1>2. Held(f) \in Level /\ Counted(f) \in Level /\ Held(f) <= Counted(f)
    BY <1>1, CountedLevel, HeldCounted
  <1>3. Held(f) > SHARED_LOCK => Counted(f) = Held(f)
    BY <1>1, CountedIs DEF Held, TypeOK
  <1> QED
    BY <1>1, <1>2, <1>3 DEF Backed

LEMMA CompatibleLocks == IInv /\ LonelyWriter => Compatible
  <1> SUFFICES ASSUME IInv, LonelyWriter, NEW f \in Files, NEW g \in Files, f # g
               PROVE  /\ Owner[f] = Owner[g] /\ Held(f) > SHARED_LOCK => Held(g) <= SHARED_LOCK
                      /\ ~(Held(f) = RESERVED_LOCK /\ Held(g) = RESERVED_LOCK)
                      /\ Held(f) >= PENDING_LOCK => Held(g) < PENDING_LOCK
                      /\ Held(f) = EXCLUSIVE_LOCK => Held(g) = NO_LOCK
    BY DEF Compatible
  <1>0. Owner[f] \in Procs /\ Owner[g] \in Procs
    OBVIOUS
  <1>1. CASE Owner[f] # Owner[g]
    <2>1. \A r \in Range3 : posix[Owner[f]][r] = "write" => posix[Owner[g]][r] = "none"
      BY <1>0, <1>1 DEF IInv, Exclusion
    <2>2. "pending" \in Range3 /\ "reserved" \in Range3 /\ "shared" \in Range3
      BY DEF Range3
    <2> QED
      BY <2>1, <2>2, HeldIs
  <1>2. CASE Owner[f] = Owner[g]
    <2>1. ~(Held(f) > SHARED_LOCK /\ Held(g) > SHARED_LOCK)
      BY <1>2, HeldIs DEF IInv, AboveOne
    <2>2. ASSUME Held(f) = EXCLUSIVE_LOCK
          PROVE  Held(g) = NO_LOCK
      <3> DEFINE p == Owner[f]
      <3>1. Counted(f) = EXCLUSIVE_LOCK /\ f \in Readers(p)
        BY <2>2, HeldIs DEF Readers, HandlesOf
      <3>2. inode[p].eFileLock = EXCLUSIVE_LOCK
        <4>1. inode[p].eFileLock \in Level
          BY <1>0 DEF IInv, TypeOK, Inode
        <4>2. Counted(f) <= inode[p].eFileLock
          BY <1>0 DEF IInv, Tops, HandlesOf
        <4> QED
          BY <3>1, <4>1, <4>2
      <3>3. Cardinality(Readers(p)) = 1
        BY <1>0, <3>2 DEF LonelyWriter, IInv, Counts
      <3>4. Readers(p) = {f}
        BY <3>1, <3>3, ReadersFinite, FS_Singleton
      <3>5. Counted(g) = NO_LOCK
        BY <1>2, <3>4 DEF Readers, HandlesOf
      <3> QED
        BY <3>5, HeldIs
    <2> QED
      BY <2>1, <2>2, HeldIs
  <1> QED
    BY <1>1, <1>2

\* When nobody of a process is inside, its handles hold what they are counted at.
LEMMA FreeHeld ==
    ASSUME NEW f, ~HoldsMutex(f)
    PROVE  Held(f) = Counted(f)
  BY CountedIs DEF HoldsMutex, Held

\* The guard of FileLock's Share: whoever waits for readers to leave has readers of the
\* newcomer's process with it, or the newcomer's process has the pending byte.
LEMMA ShareGuard ==
    ASSUME IInv, LonelyWriter, NEW f \in Files, ShareInProcess(f) \/ DropPending(f)
    PROVE  \A g \in Files :
               \/ Held(g) < PENDING_LOCK
               \/ /\ Held(g) = PENDING_LOCK
                  /\ \E h \in Files : Owner[h] = Owner[f] /\ Held(h) # NO_LOCK
  <1> DEFINE p == Owner[f]
  <1>0. p \in Procs /\ f \in HandlesOf(p) /\ HandlesOf(p) \subseteq Files
    BY DEF HandlesOf
  <1> SUFFICES ASSUME NEW g \in Files, ~(Held(g) < PENDING_LOCK)
               PROVE  Held(g) = PENDING_LOCK
                      /\ \E h \in Files : Owner[h] = Owner[f] /\ Held(h) # NO_LOCK
    OBVIOUS
  <1>1. Held(g) \in {PENDING_LOCK, EXCLUSIVE_LOCK} /\ Counted(g) = Held(g)
    BY HeldIs
  <1>2. CASE ShareInProcess(f)
    <2>1. /\ inode[p].eFileLock \in {SHARED_LOCK, RESERVED_LOCK} /\ MutexFree(p)
      BY <1>2 DEF ShareInProcess, Admitted, Attempts
    <2>2. PICK h \in HandlesOf(p) : Counted(h) = inode[p].eFileLock
      BY <1>0, <2>1 DEF IInv, Tops
    <2>3. Held(h) = Counted(h) /\ h \in Files /\ Owner[h] = p
      BY <1>0, <2>1, <2>2, FreeHeld DEF MutexFree, HandlesOf
    <2>4. Held(h) \in {SHARED_LOCK, RESERVED_LOCK}
      BY <2>1, <2>2, <2>3
    <2>5. g # h
      BY <1>1, <2>4
    <2>6. Held(g) # EXCLUSIVE_LOCK
      BY <2>3, <2>4, <2>5, CompatibleLocks DEF Compatible
    <2> QED
      BY <1>1, <2>3, <2>4, <2>6
  <1>3. CASE DropPending(f)
    <2>1. posix[p]["pending"] = "read" /\ inode[p].eFileLock = NO_LOCK
      BY <1>3 DEF DropPending, IInv, Inside
    <2>2. CASE Owner[g] = p
      <3>1. Held(g) = NO_LOCK
        BY <1>0, <2>1, <2>2, NoneHeld DEF HandlesOf
      <3> QED
        BY <1>1, <3>1
    <2>3. CASE Owner[g] # p
      <3>1. posix[Owner[g]]["pending"] = "write" /\ Owner[g] \in Procs
            /\ "pending" \in Range3
        BY <1>1, HeldIs DEF Range3
      <3> QED
        BY <1>0, <2>1, <2>3, <3>1 DEF IInv, Exclusion
    <2> QED
      BY <2>2, <2>3
  <1> QED
    BY <1>2, <1>3

\* The state of FileLock, and its steps on it.
level == [f \in Files |-> Held(f)]

LEMMA LevelStep ==
    ASSUME IInv, NEW f \in Files, Quiet(f)
    PROVE  level' = [level EXCEPT ![f] = Held(f)']
  <1>1. \A g \in Files : g # f => Held(g)' = Held(g)
    BY OthersKeep
  <1> QED
    BY <1>1 DEF level

LEMMA SameMaps ==
    ASSUME IInv, NEW f \in Files, Quiet(f), Held(f)' = Held(f)
    PROVE  level' = level
  BY LevelStep DEF level

LEMMA LowersMaps ==
    ASSUME IInv, IInv', NEW f \in Files, Quiet(f), Lowers(f)
    PROVE  \E l \in Level : Lock!Lower(f, l)
  <1>1. Held(f)' \in Level
    <2>1. TypeOK'
      BY DEF IInv
    <2> QED
      BY <2>1 DEF TypeOK, Held
  <1>2. level' = [level EXCEPT ![f] = Held(f)'] /\ level[f] = Held(f)
    BY LevelStep DEF level
  <1> QED
    BY <1>1, <1>2 DEF Lock!Lower, Lock!SHARED_LOCK, Lowers, level

LEMMA RaisesMaps ==
    ASSUME IInv, IInv', Compatible', NEW f \in Files, Quiet(f), Raises(f)
    PROVE  \E l \in Level : Lock!Raise(f, l)
  <1>1. Held(f)' \in Level
    <2>1. TypeOK'
      BY DEF IInv
    <2> QED
      BY <2>1 DEF TypeOK, Held
  <1>2. level' = [level EXCEPT ![f] = Held(f)'] /\ level[f] = Held(f)
    BY LevelStep DEF level
  <1>3. Lock!Compatible(level')
    BY DEF Compatible, level, Lock!Compatible, Lock!NO_LOCK, Lock!RESERVED_LOCK,
           Lock!PENDING_LOCK, Lock!EXCLUSIVE_LOCK
  <1>4. NO_LOCK < Held(f)
    BY HeldIs DEF Raises
  <1> QED
    BY <1>1, <1>2, <1>3, <1>4 DEF Lock!Raise, Lock!NO_LOCK, Raises, level

LEMMA ShareMaps ==
    ASSUME IInv, LonelyWriter, NEW f \in Files, ShareInProcess(f) \/ DropPending(f), Quiet(f),
           Held(f) = NO_LOCK, Held(f)' = SHARED_LOCK
    PROVE  Lock!Share(f)
  <1>1. level' = [level EXCEPT ![f] = SHARED_LOCK] /\ level[f] = NO_LOCK
    BY LevelStep DEF level
  <1> QED
    BY <1>1, ShareGuard
       DEF Lock!Share, Lock!NO_LOCK, Lock!SHARED_LOCK, Lock!PENDING_LOCK, level

LEMMA CrashMaps ==
    ASSUME NEW p \in Procs, Crash(p)
    PROVE  \E h \in Files : Lock!Vanish(Owner[h])
  <1>1. PICK h \in Files : Owner[h] = p
    BY DEF Crash, HandlesOf
  <1>2. ASSUME NEW f \in Files
        PROVE  Held(f)' = IF Owner[f] = p THEN NO_LOCK ELSE Held(f)
    BY DEF Crash, Held
  <1>3. level' = [f \in Files |-> IF Owner[f] = p THEN NO_LOCK ELSE level[f]]
    BY <1>2 DEF level
  <1>4. Lock!Vanish(Owner[h])
    BY <1>1, <1>3 DEF Lock!Vanish, Lock!NO_LOCK, level
  <1> QED
    BY <1>4

\* Every step is one of FileLock's, or changes nothing it knows of.
LEMMA NextMaps ==
    ASSUME IInv, LonelyWriter, [Next]_vars
    PROVE  Lock!Next \/ level' = level
  <1>1. IInv' /\ Compatible'
    <2>1. IInv' /\ LonelyWriter'
      BY NextIInv, NextLonely
    <2>2. (IInv /\ LonelyWriter => Compatible)'
      BY CompatibleLocks, PTL
    <2> QED
      BY <2>1, <2>2
  <1>2. ASSUME NEW f \in Files, Quiet(f), Lowers(f) \/ Raises(f) \/ Held(f)' = Held(f)
        PROVE  Lock!Next \/ level' = level
    <2>1. CASE Held(f)' = Held(f)
      BY <1>2, <2>1, SameMaps
    <2>2. CASE Lowers(f)
      <3>1. \E l \in Level : Lock!Lower(f, l)
        BY <1>1, <1>2, <2>2, LowersMaps
      <3> QED
        BY <3>1 DEF Lock!Next, Lock!Level, Lock!NO_LOCK, Lock!EXCLUSIVE_LOCK
    <2>3. CASE Raises(f)
      <3>1. \E l \in Level : Lock!Raise(f, l)
        BY <1>1, <1>2, <2>3, RaisesMaps
      <3> QED
        BY <3>1 DEF Lock!Next, Lock!Level, Lock!NO_LOCK, Lock!EXCLUSIVE_LOCK
    <2> QED
      BY <1>2, <2>1, <2>2, <2>3
  <1>3. ASSUME NEW f \in Files, Using(f), UNCHANGED late
        PROVE  Lock!Next \/ level' = level
    <2>1. Quiet(f) /\ Held(f)' = Held(f)
      BY <1>3, OpenKeeps, CloseKeeps, CallerKeeps DEF Using
    <2> QED
      BY <1>2, <2>1
  <1>4. ASSUME NEW f \in Files, Locking(f), UNCHANGED late
        PROVE  Lock!Next \/ level' = level
    <2>1. CASE ShareInProcess(f) \/ DropPending(f)
      <3>1. Quiet(f) /\ Held(f) = NO_LOCK /\ Held(f)' = SHARED_LOCK
        BY <1>4, <2>1, ShareInProcessKeeps, DropPendingKeeps
      <3>2. Lock!Share(f)
        BY <2>1, <3>1, ShareMaps
      <3> QED
        BY <3>2 DEF Lock!Next
    <2>2. CASE Reserve(f) \/ ExclusiveRange(f)
      <3>1. Quiet(f) /\ (Held(f)' = Held(f) \/ Raises(f))
        BY <1>4, <2>2, ReserveKeeps, ExclusiveRangeKeeps
      <3> QED
        BY <1>2, <3>1
    <2>3. CASE Precluded(f) \/ PendingByte(f) \/ SharedRange(f) \/ DropPendingBusy(f)
      <3>1. Quiet(f) /\ Held(f)' = Held(f)
        BY <1>4, <2>3, PrecludedKeeps, PendingByteKeeps, SharedRangeKeeps, DropPendingBusyKeeps
      <3> QED
        BY <1>2, <3>1
    <2> QED
      BY <1>4, <2>1, <2>2, <2>3 DEF Locking
  <1>5. ASSUME NEW f \in Files, Unlocking(f), UNCHANGED late
        PROVE  Lock!Next \/ level' = level
    <2>1. Quiet(f) /\ (Held(f)' = Held(f) \/ Lowers(f))
      BY <1>5, DowngradeKeeps, ClearBytesKeeps, ReleaseKeeps, LeaveKeeps DEF Unlocking
    <2> QED
      BY <1>2, <2>1
  <1>6. ASSUME NEW f \in Files, Timeout(f)
        PROVE  Lock!Next \/ level' = level
    BY <1>2, <1>6, TimeoutKeeps
  <1>7. ASSUME NEW p \in Procs, Crash(p)
        PROVE  Lock!Next \/ level' = level
    BY <1>7, CrashMaps DEF Lock!Next
  <1>8. CASE UNCHANGED vars
    BY <1>8 DEF vars, callers, level, Held
  <1> QED
    BY <1>3, <1>4, <1>5, <1>6, <1>7, <1>8 DEF Next

\* The locks of the handles are compatible in every reachable state: at most one handle of a
\* process is above SHARED; over all processes at most one has RESERVED, at most one PENDING
\* or EXCLUSIVE, and one with EXCLUSIVE is the only one with a lock.  A RESERVED handle of
\* one process may stand beside a PENDING one of another, which is about to roll back a hot
\* journal (os_unix.c:1537-1750).
THEOREM LocksCompatible == Spec => []Compatible
  <1> QED
    BY CompatibleLocks, Invariance, LonelyAlways, PTL

\* Whatever the interleaving of threads and processes, the byte ranges, the records of the
\* processes and the waiting queues implement the locks FileLock promises.
THEOREM Refinement == Spec => RefinesFileLock
  <1>1. Init => Lock!Init
    BY DEF Init, Held, Lock!Init, Lock!NO_LOCK
  <1>2. IInv /\ LonelyWriter /\ [Next]_vars => [Lock!Next]_level
    BY NextMaps
  <1>3. [Lock!Next]_level => [Lock!Next]_[f \in Files |-> Held(f)]
    BY DEF level
  <1> QED
    BY <1>1, <1>2, <1>3, Invariance, LonelyAlways, PTL DEF Spec, RefinesFileLock, Lock!Spec
=============================================================================
