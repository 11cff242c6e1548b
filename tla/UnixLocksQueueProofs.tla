------------------------ MODULE UnixLocksQueueProofs ------------------------
(***************************************************************************)
(* The waiting queues of the file locks, for any handles, processes and    *)
(* bound: every sleeper can still be signalled, a process without a lock   *)
(* leaves nobody asleep at the head of its queue, and as long as none of   *)
(* its waits has timed out whoever is at the head waits for a reason.      *)
(***************************************************************************)
EXTENDS UnixLocksProofs

USE FilesAssumption, OwnerAssumption, MainAssumption, WritersAssumption,
    MaxStaleAssumption
USE DEF NO_LOCK, SHARED_LOCK, RESERVED_LOCK, PENDING_LOCK, EXCLUSIVE_LOCK, Level

(***************************************************************************)
(* What a step of one handle makes of the queue of its process: the first  *)
(* entries go, or the handle's own is added.                               *)
(***************************************************************************)
Signalled(f, n) ==
    LET q == queue[Owner[f]] IN
    /\ n \in 0 .. Len(q)
    /\ queue' = [queue EXCEPT ![Owner[f]] = Popped(q, n)]
    /\ pc'[f] # "asleep"
    /\ \A g \in Files : g # f =>
          pc'[g] = IF pc[g] = "asleep" /\ \E i \in 1 .. n : q[i].file = g
                   THEN AfterBusy(g) ELSE pc[g]

Enqueued(f, l, flag) ==
    /\ l \in Level /\ flag \in {"shared", "exclusive"}
    /\ queue' = [queue EXCEPT ![Owner[f]] =
                    IF f \in Main THEN <<NewEntry(f, l, flag)>> \o @
                                  ELSE Append(@, NewEntry(f, l, flag))]
    /\ pc' = [pc EXCEPT ![f] = "asleep"]

LEMMA PoppedIs ==
    ASSUME NEW q \in Seq(WaitInfo), NEW n \in 0 .. Len(q)
    PROVE  /\ Popped(q, n) \in Seq(WaitInfo)
           /\ Len(Popped(q, n)) = Len(q) - n
           /\ DOMAIN Popped(q, n) = 1 .. Len(q) - n
           /\ \A i \in 1 .. Len(q) - n : Popped(q, n)[i] = q[n + i]
           /\ n = 0 => Popped(q, n) = q
  <1>0. Len(q) \in Nat /\ DOMAIN q = 1 .. Len(q)
    BY LenProperties
  <1>8. n \in Nat /\ n <= Len(q)
    BY <1>0
  <1>1. \A i \in n + 1 .. Len(q) : q[i] \in WaitInfo
    BY <1>0, ElementOfSeq
  <1>2. n + 1 \in Int /\ Len(q) \in Int
    BY <1>0
  <1>3. /\ Popped(q, n) \in Seq(WaitInfo)
        /\ Len(Popped(q, n)) = IF n + 1 <= Len(q) THEN Len(q) - (n + 1) + 1 ELSE 0
        /\ \A i \in 1 .. Len(q) - (n + 1) + 1 : Popped(q, n)[i] = q[n + 1 + i - 1]
    BY <1>1, <1>2, SubSeqProperties DEF Popped
  <1>9. Len(q) - (n + 1) + 1 = Len(q) - n
    BY <1>0, <1>8
  <1>4. Len(Popped(q, n)) = Len(q) - n
    <2>1. CASE n + 1 <= Len(q)
      BY <1>3, <1>9, <2>1
    <2>2. CASE ~(n + 1 <= Len(q))
      <3>1. \A k, m \in Nat : m <= k /\ ~(m + 1 <= k) => k - m = 0
        OBVIOUS
      <3>2. Len(q) - n = 0
        BY <1>0, <1>8, <2>2, <3>1
      <3> QED
        BY <1>3, <2>2, <3>2
    <2> QED
      BY <2>1, <2>2
  <1>5. DOMAIN Popped(q, n) = 1 .. Len(q) - n
    BY <1>3, <1>4, LenProperties
  <1>6. \A i \in 1 .. Len(q) - n : Popped(q, n)[i] = q[n + i]
    <2> SUFFICES ASSUME NEW i \in 1 .. Len(q) - n
                 PROVE  Popped(q, n)[i] = q[n + i]
      OBVIOUS
    <2>1. n + 1 + i - 1 = n + i
      BY <1>0, <1>8
    <2> QED
      BY <1>3, <1>9, <2>1
  <1>7. n = 0 => Popped(q, n) = q
    BY SubSeqFull DEF Popped
  <1> QED
    BY <1>3, <1>4, <1>5, <1>6, <1>7

\* A new entry goes to one end of the queue, moving the others by d places.
LEMMA EnqueuedIs ==
    ASSUME TypeOK, NEW f \in Files, NEW l, NEW flag, Enqueued(f, l, flag)
    PROVE  LET q == queue[Owner[f]]
               r == queue'[Owner[f]]
           IN
           /\ r \in Seq(WaitInfo) /\ Len(r) = Len(q) + 1 /\ DOMAIN r = 1 .. Len(q) + 1
           /\ \E d \in {0, 1} :
                 /\ r[IF d = 0 THEN Len(q) + 1 ELSE 1] = NewEntry(f, l, flag)
                 /\ \A i \in 1 .. Len(q) : r[i + d] = q[i]
  <1> DEFINE p == Owner[f]
             q == queue[p]
             e == NewEntry(f, l, flag)
  <1>0. p \in Procs /\ q \in Seq(WaitInfo) /\ Len(q) \in Nat /\ e \in WaitInfo
    BY DEF TypeOK, Enqueued, NewEntry, WaitInfo
  <1>1. CASE f \in Main
    <2>1. queue'[p] = <<e>> \o q
      BY <1>0, <1>1 DEF Enqueued, TypeOK
    <2>2. <<e>> \in Seq(WaitInfo) /\ Len(<<e>>) = 1 /\ <<e>>[1] = e
      BY <1>0
    <2>3. /\ <<e>> \o q \in Seq(WaitInfo) /\ Len(<<e>> \o q) = 1 + Len(q)
          /\ \A i \in 1 .. 1 + Len(q) : (<<e>> \o q)[i] =
                 IF i <= 1 THEN <<e>>[i] ELSE q[i - 1]
      BY <1>0, <2>2, ConcatProperties
    <2>4. (<<e>> \o q)[1] = e /\ \A i \in 1 .. Len(q) : (<<e>> \o q)[i + 1] = q[i]
      BY <1>0, <2>2, <2>3
    <2> QED
      BY <1>0, <2>1, <2>3, <2>4, LenProperties
  <1>2. CASE f \notin Main
    <2>1. queue'[p] = Append(q, e)
      BY <1>0, <1>2 DEF Enqueued, TypeOK
    <2>2. /\ Append(q, e) \in Seq(WaitInfo) /\ Len(Append(q, e)) = Len(q) + 1
          /\ \A i \in 1 .. Len(q) : Append(q, e)[i] = q[i]
          /\ Append(q, e)[Len(q) + 1] = e
      BY <1>0, AppendProperties
    <2>3. \A i \in 1 .. Len(q) : Append(q, e)[i + 0] = q[i]
      BY <1>0, <2>2
    <2> QED
      BY <1>0, <2>1, <2>2, <2>3, LenProperties
  <1> QED
    BY <1>1, <1>2

LEMMA StillSignals ==
    ASSUME TypeOK, NEW f \in Files, UNCHANGED queue, pc'[f] # "asleep",
           \A g \in Files : g # f => pc'[g] = pc[g]
    PROVE  Signalled(f, 0)
  <1> DEFINE p == Owner[f]
             q == queue[p]
  <1>1. p \in Procs /\ q \in Seq(WaitInfo) /\ queue \in [Procs -> Seq(WaitInfo)]
    BY DEF TypeOK
  <1>2. 0 \in 0 .. Len(q)
    BY <1>1, LenProperties
  <1>3. Popped(q, 0) = q
    BY <1>1, <1>2, PoppedIs
  <1>4. queue' = [queue EXCEPT ![p] = Popped(q, 0)]
    BY <1>1, <1>3
  <1>5. \A g \in Files : g # f =>
            pc'[g] = IF pc[g] = "asleep" /\ \E i \in 1 .. 0 : q[i].file = g
                     THEN AfterBusy(g) ELSE pc[g]
    OBVIOUS
  <1> QED
    BY <1>2, <1>4, <1>5 DEF Signalled

LEMMA SignalFirstIs ==
    ASSUME NEW f \in Files, NEW pcf, pcf # "asleep",
           NEW n \in 0 .. Len(queue[Owner[f]]), SignalFirst(Owner[f], n, f, pcf)
    PROVE  Signalled(f, n) /\ pc'[f] = pcf
  <1> DEFINE q == queue[Owner[f]]
  <1>1. pc'[f] = pcf
    BY DEF SignalFirst
  <1>2. ASSUME NEW g \in Files, g # f
        PROVE  pc'[g] = IF pc[g] = "asleep" /\ \E i \in 1 .. n : q[i].file = g
                        THEN AfterBusy(g) ELSE pc[g]
    BY <1>2 DEF SignalFirst
  <1>3. queue' = [queue EXCEPT ![Owner[f]] = Popped(q, n)]
    BY DEF SignalFirst
  <1> QED
    BY <1>1, <1>2, <1>3 DEF Signalled

LEMMA WaitOrReturnIs ==
    ASSUME TypeOK, NEW f \in Files, NEW l \in Level, NEW flag \in {"shared", "exclusive"},
           WaitOrReturn(f, l, flag)
    PROVE  \/ Signalled(f, 0) /\ UNCHANGED queue
           \/ /\ MayWait(f) /\ queue[Owner[f]] # <<>> /\ Clash(l, Head(queue[Owner[f]]))
              /\ Signalled(f, 1)
           \/ MayWait(f) /\ Enqueued(f, l, flag)
  <1> DEFINE p == Owner[f]
             q == queue[p]
  <1>1. AfterBusy(f) # "asleep" /\ q \in Seq(WaitInfo)
    BY AfterBusyPlace DEF TypeOK
  <1>2. CASE ~MayWait(f) /\ pc' = [pc EXCEPT ![f] = AfterBusy(f)] /\ UNCHANGED queue
    <2>1. pc'[f] # "asleep" /\ \A g \in Files : g # f => pc'[g] = pc[g]
      BY <1>1, <1>2 DEF TypeOK
    <2> QED
      BY <1>2, <2>1, StillSignals
  <1>3. CASE /\ MayWait(f) /\ q # <<>> /\ Clash(l, Head(q))
             /\ SignalFirst(p, 1, f, AfterBusy(f))
    <2>1. 1 \in 0 .. Len(q)
      BY <1>1, <1>3, EmptySeq
    <2> QED
      BY <1>1, <1>3, <2>1, SignalFirstIs
  <1>4. CASE /\ MayWait(f)
             /\ queue' = [queue EXCEPT ![p] = IF f \in Main THEN <<NewEntry(f, l, flag)>> \o @
                                              ELSE Append(@, NewEntry(f, l, flag))]
             /\ pc' = [pc EXCEPT ![f] = "asleep"]
    BY <1>4 DEF Enqueued
  <1> QED
    BY <1>2, <1>3, <1>4 DEF WaitOrReturn

\* No step but those of a wait, a signal, a close and a crash touches a queue.
LEMMA Classes ==
    ASSUME IInv, NEW f \in Files,
           (Using(f) /\ ~Close(f)) \/ Locking(f) \/ Unlocking(f)
    PROVE  /\ pc[f] # "asleep"
           /\ \/ \E n \in 0 .. Len(queue[Owner[f]]) : Signalled(f, n)
              \/ \E l, flag : Enqueued(f, l, flag)
  <1> DEFINE p == Owner[f]
             q == queue[p]
             Done == /\ pc[f] # "asleep"
                     /\ \/ \E n \in 0 .. Len(queue[Owner[f]]) : Signalled(f, n)
                        \/ \E l, flag : Enqueued(f, l, flag)
  <1>0. TypeOK /\ Mine(f) /\ q \in Seq(WaitInfo) /\ pc \in [Files -> Pc]
        /\ 0 \in 0 .. Len(q) /\ AfterBusy(f) # "asleep"
    <2>1. TypeOK /\ Mine(f) /\ q \in Seq(WaitInfo) /\ pc \in [Files -> Pc]
      BY DEF IInv, TypeOK
    <2> QED
      BY <2>1, LenProperties, AfterBusyPlace
  <1>1. ASSUME pc[f] # "asleep", UNCHANGED queue,
               pc' = pc \/ \E x : x # "asleep" /\ pc' = [pc EXCEPT ![f] = x]
        PROVE  Done
    <2>1. pc'[f] # "asleep" /\ \A g \in Files : g # f => pc'[g] = pc[g]
      BY <1>0, <1>1
    <2> QED
      BY <1>0, <1>1, <2>1, StillSignals
  <1>2. CASE Using(f) /\ ~Close(f)
    <2>1. CASE Open(f)
      BY <1>0, <1>1, <2>1 DEF Open, Mine
    <2>2. CASE BeginRead(f) \/ BeginWrite(f) \/ Upgrade(f) \/ Commit(f) \/ Fail(f)
      <3>1. /\ pc[f] = "idle" /\ UNCHANGED queue
            /\ pc' = pc \/ pc' = [pc EXCEPT ![f] = "backoff"]
        BY <2>2 DEF BeginRead, BeginWrite, Begin, Upgrade, Commit, Go, Fail
      <3> QED
        BY <1>1, <3>1
    <2> QED
      BY <1>2, <2>1, <2>2 DEF Using
  <1>3. CASE Locking(f)
    <2>0. ASSUME NEW l, Admitted(f, l)
          PROVE  pc[f] = "idle"
      BY <2>0 DEF Admitted, Attempts
    <2>1. CASE Precluded(f)
      <3>1. pc[f] = "idle" /\ WaitOrReturn(f, Wanted(f), "shared") /\ Wanted(f) \in Level
            /\ "shared" \in {"shared", "exclusive"}
        BY <2>1 DEF Precluded, Attempts, Wanted
      <3>2. \/ Signalled(f, 0) \/ Signalled(f, 1)
            \/ Enqueued(f, Wanted(f), "shared")
        BY <1>0, <3>1, WaitOrReturnIs
      <3> QED
        BY <3>1, <3>2 DEF Signalled
    <2>2. CASE ShareInProcess(f)
      BY <1>1, <2>0, <2>2 DEF ShareInProcess
    <2>3. CASE PendingByte(f)
      <3>1. pc[f] = "idle"
        BY <2>0, <2>3 DEF PendingByte
      <3>2. UNCHANGED queue /\ \E x \in {"shared", "exclusive", AfterBusy(f)} :
                                  pc' = [pc EXCEPT ![f] = x]
        BY <2>3 DEF PendingByte
      <3> QED
        BY <1>0, <1>1, <3>1, <3>2
    <2>4. CASE SharedRange(f)
      <3>1. pc[f] = "shared" /\ UNCHANGED queue
            /\ \E x \in {"drop", "dropBusy"} : pc' = [pc EXCEPT ![f] = x]
        BY <2>4 DEF SharedRange
      <3> QED
        BY <1>1, <3>1
    <2>5. CASE DropPending(f) \/ DropPendingBusy(f)
      <3>1. pc[f] \in {"drop", "dropBusy"} /\ UNCHANGED queue
            /\ \E x \in {"idle", AfterBusy(f)} : pc' = [pc EXCEPT ![f] = x]
        BY <2>5 DEF DropPending, DropPendingBusy
      <3> QED
        BY <1>0, <1>1, <3>1
    <2>6. CASE Reserve(f)
      <3>1. pc[f] = "idle" /\ UNCHANGED queue
            /\ (pc' = pc \/ pc' = [pc EXCEPT ![f] = AfterBusy(f)])
        BY <2>0, <2>6 DEF Reserve
      <3> QED
        BY <1>0, <1>1, <3>1
    <2>7. CASE ExclusiveRange(f)
      <3>1. pc[f] \in {"idle", "exclusive"}
        BY <2>0, <2>7 DEF ExclusiveRange
      <3>2. \/ UNCHANGED queue /\ \E x \in {"idle", AfterBusy(f)} : pc' = [pc EXCEPT ![f] = x]
            \/ WaitOrReturn(f, EXCLUSIVE_LOCK, "exclusive")
        BY <2>7 DEF ExclusiveRange
      <3>3. CASE WaitOrReturn(f, EXCLUSIVE_LOCK, "exclusive")
        <4>1. EXCLUSIVE_LOCK \in Level /\ "exclusive" \in {"shared", "exclusive"}
          OBVIOUS
        <4>2. \/ Signalled(f, 0) \/ Signalled(f, 1)
              \/ Enqueued(f, EXCLUSIVE_LOCK, "exclusive")
          BY <1>0, <3>3, <4>1, WaitOrReturnIs
        <4> QED
          BY <3>1, <4>2 DEF Signalled
      <3> QED
        BY <1>0, <1>1, <3>1, <3>2, <3>3
    <2> QED
      BY <1>3, <2>1, <2>2, <2>3, <2>4, <2>5, <2>6, <2>7 DEF Locking
  <1>4. CASE Unlocking(f)
    <2>0. ASSUME NEW t \in {NO_LOCK, SHARED_LOCK}, UnlocksTo(f, t)
          PROVE  pc[f] # "asleep"
      BY <1>0, <2>0, UnlocksToIs
    <2>1. ASSUME NEW in, TrySignal(p, in, f, "leave"), pc[f] # "asleep"
          PROVE  Done
      <3>1. PICK n \in 0 .. Len(q) : SignalFirst(p, n, f, "leave")
        BY <2>1 DEF TrySignal
      <3> QED
        BY <2>1, <3>1, SignalFirstIs
    <2>2. CASE Downgrade(f)
      BY <1>1, <2>0, <2>2 DEF Downgrade
    <2>3. CASE ClearBytes(f)
      <3>1. pc[f] # "asleep"
        BY <2>0, <2>3 DEF ClearBytes
      <3> QED
        BY <1>1, <2>1, <2>3, <3>1 DEF ClearBytes
    <2>4. CASE Release(f)
      <3>1. pc[f] # "asleep"
        BY <2>0, <2>4 DEF Release
      <3> QED
        BY <2>1, <2>4, <3>1 DEF Release
    <2>5. CASE Leave(f)
      BY <1>1, <2>5 DEF Leave
    <2> QED
      BY <1>4, <2>2, <2>3, <2>4, <2>5 DEF Unlocking
  <1> QED
    BY <1>2, <1>3, <1>4

\* Closing a handle empties the queue with the last one, or marks the handle's entries.
LEMMA CloseIs ==
    ASSUME TypeOK, NEW f \in Files, Close(f)
    PROVE  /\ UNCHANGED pc /\ pc[f] = "idle"
           /\ \A r \in Procs : r # Owner[f] => queue'[r] = queue[r]
           /\ LET q == queue[Owner[f]]
                  r == queue'[Owner[f]]
              IN
              \/ r = <<>> /\ \A g \in HandlesOf(Owner[f]) : isOpen[g] => g = f
              \/ /\ DOMAIN r = DOMAIN q
                 /\ \A i \in DOMAIN q : /\ q[i].file # f => r[i] = q[i]
                                        /\ r[i].file = q[i].file
                                        /\ q[i].file = f => r[i].freed
  <1> DEFINE p == Owner[f]
             q == queue[p]
             last == \A g \in HandlesOf(p) : isOpen[g] => g = f
             free == [i \in DOMAIN q |->
                         IF q[i].file = f THEN [q[i] EXCEPT !.freed = TRUE] ELSE q[i]]
  <1>0. p \in Procs /\ queue \in [Procs -> Seq(WaitInfo)] /\ q \in Seq(WaitInfo)
    BY DEF TypeOK
  <1>1. UNCHANGED pc /\ pc[f] = "idle"
        /\ queue' = [queue EXCEPT ![p] = IF last THEN <<>> ELSE free]
    BY DEF Close
  <1>2. \A i \in DOMAIN q : q[i] \in WaitInfo
    BY <1>0, LenProperties, ElementOfSeq
  <1>3. /\ DOMAIN free = DOMAIN q
        /\ \A i \in DOMAIN q : /\ q[i].file # f => free[i] = q[i]
                               /\ free[i].file = q[i].file
                               /\ q[i].file = f => free[i].freed
    BY <1>2 DEF WaitInfo
  <1> HIDE DEF free
  <1> QED
    BY <1>0, <1>1, <1>3

(***************************************************************************)
(* Every sleeper has an entry, and the entries of a queue are of handles   *)
(* of its process.                                                         *)
(***************************************************************************)
Waits(q, g) == \E i \in DOMAIN q : q[i].file = g /\ ~q[i].freed
QueueOwned(p) == \A i \in DOMAIN queue[p] : Owner[queue[p][i].file] = p
AllOwned == \A p \in Procs : QueueOwned(p)

LEMMA SignalledWaits ==
    ASSUME TypeOK, NEW f \in Files, NEW n, Signalled(f, n), NEW g \in Files,
           Waits(queue[Owner[f]], g), pc[g] = "asleep", pc'[g] = "asleep"
    PROVE  Waits(queue'[Owner[f]], g)
  <1> DEFINE p == Owner[f]
             q == queue[p]
  <1>0. p \in Procs /\ q \in Seq(WaitInfo) /\ Len(q) \in Nat /\ DOMAIN q = 1 .. Len(q)
        /\ n \in 0 .. Len(q)
    <2>1. p \in Procs /\ q \in Seq(WaitInfo) /\ n \in 0 .. Len(q)
      BY DEF TypeOK, Signalled
    <2> QED
      BY <2>1, LenProperties
  <1>1. queue'[p] = Popped(q, n)
    BY <1>0 DEF Signalled, TypeOK
  <1>2. PICK i \in 1 .. Len(q) : q[i].file = g /\ ~q[i].freed
    BY <1>0 DEF Waits
  <1>3. i \notin 1 .. n
    BY <1>2, AfterBusyPlace DEF Signalled
  <1>4. i - n \in 1 .. Len(q) - n /\ n + (i - n) = i
    BY <1>0, <1>2, <1>3
  <1>5. Popped(q, n)[i - n] = q[i] /\ DOMAIN Popped(q, n) = 1 .. Len(q) - n
    BY <1>0, <1>4, PoppedIs
  <1> QED
    BY <1>1, <1>2, <1>4, <1>5 DEF Waits

LEMMA EnqueuedWaits ==
    ASSUME TypeOK, NEW f \in Files, NEW l, NEW flag, Enqueued(f, l, flag)
    PROVE  /\ Waits(queue'[Owner[f]], f)
           /\ \A g : Waits(queue[Owner[f]], g) => Waits(queue'[Owner[f]], g)
  <1> DEFINE q == queue[Owner[f]]
             r == queue'[Owner[f]]
             e == NewEntry(f, l, flag)
  <1>0. q \in Seq(WaitInfo) /\ Len(q) \in Nat /\ DOMAIN q = 1 .. Len(q)
    <2>1. q \in Seq(WaitInfo)
      BY DEF TypeOK
    <2> QED
      BY <2>1, LenProperties
  <1>1. DOMAIN r = 1 .. Len(q) + 1
    BY EnqueuedIs
  <1>2. PICK d \in {0, 1} : /\ r[IF d = 0 THEN Len(q) + 1 ELSE 1] = e
                            /\ \A i \in 1 .. Len(q) : r[i + d] = q[i]
    BY EnqueuedIs
  <1>3. (IF d = 0 THEN Len(q) + 1 ELSE 1) \in 1 .. Len(q) + 1
    BY <1>0
  <1>4. e.file = f /\ ~e.freed
    BY DEF NewEntry
  <1>5. Waits(r, f)
    BY <1>1, <1>2, <1>3, <1>4 DEF Waits
  <1>6. \A i \in 1 .. Len(q) : i + d \in 1 .. Len(q) + 1
    BY <1>0
  <1>7. \A g : Waits(q, g) => Waits(r, g)
    BY <1>0, <1>1, <1>2, <1>6 DEF Waits
  <1> QED
    BY <1>5, <1>7

\* Queues of other processes stay as they are.
LEMMA OtherQueues ==
    ASSUME TypeOK, NEW f \in Files,
           \/ \E n \in 0 .. Len(queue[Owner[f]]) : Signalled(f, n)
           \/ \E l, flag : Enqueued(f, l, flag)
    PROVE  \A q \in Procs : q # Owner[f] => queue'[q] = queue[q]
  BY DEF Signalled, Enqueued, TypeOK

LEMMA SleepersStep ==
    ASSUME IInv, SleepersQueued, NEW f \in Files, Using(f) \/ Locking(f) \/ Unlocking(f)
    PROVE  SleepersQueued'
  <1> DEFINE p == Owner[f]
  <1>0. TypeOK /\ p \in Procs
    BY DEF IInv
  <1>1. \A g \in Files : pc[g] = "asleep" => Waits(queue[Owner[g]], g)
    BY DEF SleepersQueued, Waits
  <1> SUFFICES ASSUME NEW g \in Files, pc'[g] = "asleep"
               PROVE  Waits(queue'[Owner[g]], g)
    BY DEF SleepersQueued, Waits
  <1>2. CASE Close(f)
    <2>1. pc[g] = "asleep" /\ g # f /\ Waits(queue[Owner[g]], g)
      BY <1>0, <1>1, <1>2, CloseIs
    <2>2. isOpen[g]
      BY <2>1 DEF IInv, Mine
    <2>3. CASE Owner[g] # p
      BY <1>0, <1>2, <2>1, <2>3, CloseIs
    <2>4. CASE Owner[g] = p
      <3>1. /\ DOMAIN queue'[p] = DOMAIN queue[p]
            /\ \A i \in DOMAIN queue[p] : queue[p][i].file # f => queue'[p][i] = queue[p][i]
        BY <1>0, <1>2, <2>1, <2>2, <2>4, CloseIs DEF HandlesOf
      <3> QED
        BY <2>1, <2>4, <3>1 DEF Waits
    <2> QED
      BY <2>3, <2>4
  <1>3. CASE ~Close(f)
    <2>1. /\ pc[f] # "asleep"
          /\ \/ \E n \in 0 .. Len(queue[p]) : Signalled(f, n)
             \/ \E l, flag : Enqueued(f, l, flag)
      BY <1>3, Classes
    <2>2. CASE \E n \in 0 .. Len(queue[p]) : Signalled(f, n)
      <3>1. PICK n : Signalled(f, n)
        BY <2>2
      <3>2. g # f /\ pc[g] = "asleep"
        BY <3>1, AfterBusyPlace DEF Signalled
      <3> QED
        BY <1>0, <1>1, <2>1, <3>1, <3>2, SignalledWaits, OtherQueues
    <2>3. CASE \E l, flag : Enqueued(f, l, flag)
      <3>1. PICK l, flag : Enqueued(f, l, flag)
        BY <2>3
      <3>2. g = f \/ pc[g] = "asleep"
        BY <1>0, <3>1 DEF Enqueued, TypeOK
      <3> QED
        BY <1>0, <1>1, <2>1, <3>1, <3>2, EnqueuedWaits, OtherQueues
    <2> QED
      BY <2>1, <2>2, <2>3
  <1> QED
    BY <1>2, <1>3

LEMMA NextSleepers == IInv /\ SleepersQueued /\ [Next]_vars => SleepersQueued'
  <1> SUFFICES ASSUME IInv, SleepersQueued, [Next]_vars PROVE SleepersQueued'
    OBVIOUS
  <1>0. TypeOK
    BY DEF IInv
  <1>1. ASSUME NEW f \in Files, Timeout(f) PROVE SleepersQueued'
    <2>1. UNCHANGED queue /\ \A g \in Files : pc'[g] = "asleep" => pc[g] = "asleep"
      BY <1>0, <1>1, AfterBusyPlace DEF Timeout, TypeOK
    <2> QED
      BY <2>1 DEF SleepersQueued
  <1>2. ASSUME NEW p \in Procs, Crash(p) PROVE SleepersQueued'
    <2>1. \A g \in Files : pc'[g] = "asleep" =>
              pc[g] = "asleep" /\ queue'[Owner[g]] = queue[Owner[g]]
      BY <1>0, <1>2 DEF Crash, TypeOK
    <2> QED
      BY <2>1 DEF SleepersQueued
  <1>3. CASE UNCHANGED vars
    BY <1>3 DEF vars, SleepersQueued
  <1> QED
    BY <1>1, <1>2, <1>3, SleepersStep DEF Next

\* Whatever timeouts, signals of others and closes take from a queue or leave in it, a
\* sleeping thread has an entry there to be signalled by (WCDBOsWait, os_wcdb.c:103).
THEOREM SleepersStayQueued == Spec => []SleepersQueued
  <1>1. Init => SleepersQueued
    BY DEF Init, SleepersQueued
  <1> QED
    BY <1>1, NextSleepers, Invariance, PTL DEF Spec

\* The entries of a queue are those it had, and the stepping handle's own.
LEMMA EntriesFrom ==
    ASSUME IInv, NEW f \in Files, Using(f) \/ Locking(f) \/ Unlocking(f)
    PROVE  /\ \A q \in Procs : q # Owner[f] => queue'[q] = queue[q]
           /\ \A j \in DOMAIN queue'[Owner[f]] :
                 \/ queue'[Owner[f]][j].file = f
                 \/ \E i \in DOMAIN queue[Owner[f]] :
                       queue'[Owner[f]][j].file = queue[Owner[f]][i].file
  <1> DEFINE p == Owner[f]
             q == queue[p]
             r == queue'[p]
  <1>0. TypeOK /\ p \in Procs /\ q \in Seq(WaitInfo) /\ Len(q) \in Nat /\ DOMAIN q = 1 .. Len(q)
    <2>1. TypeOK /\ p \in Procs /\ q \in Seq(WaitInfo)
      BY DEF IInv, TypeOK
    <2> QED
      BY <2>1, LenProperties
  <1>1. CASE Close(f)
    <2>1. \A s \in Procs : s # p => queue'[s] = queue[s]
      BY <1>0, <1>1, CloseIs
    <2>2. r = <<>> \/ (DOMAIN r = DOMAIN q /\ \A i \in DOMAIN q : r[i].file = q[i].file)
      BY <1>0, <1>1, CloseIs
    <2>3. DOMAIN <<>> = {}
      BY <1>0
    <2> QED
      BY <2>1, <2>2, <2>3
  <1>2. CASE ~Close(f)
    <2>1. \/ \E n \in 0 .. Len(q) : Signalled(f, n)
          \/ \E l, flag : Enqueued(f, l, flag)
      BY <1>2, Classes
    <2>2. \A s \in Procs : s # p => queue'[s] = queue[s]
      BY <1>0, <2>1, OtherQueues
    <2>3. ASSUME NEW n \in 0 .. Len(q), Signalled(f, n), NEW j \in DOMAIN r
          PROVE  \E i \in DOMAIN q : r[j].file = q[i].file
      <3>1. r = Popped(q, n)
        BY <1>0, <2>3 DEF Signalled, TypeOK
      <3>2. DOMAIN r = 1 .. Len(q) - n /\ \A i \in 1 .. Len(q) - n : r[i] = q[n + i]
        BY <1>0, <3>1, PoppedIs
      <3>3. n + j \in 1 .. Len(q)
        BY <1>0, <2>3, <3>2
      <3> QED
        BY <1>0, <2>3, <3>2, <3>3
    <2>4. ASSUME NEW l, NEW flag, Enqueued(f, l, flag), NEW j \in DOMAIN r
          PROVE  r[j].file = f \/ \E i \in DOMAIN q : r[j].file = q[i].file
      <3>1. DOMAIN r = 1 .. Len(q) + 1
        BY <1>0, <2>4, EnqueuedIs
      <3>2. PICK d \in {0, 1} : /\ r[IF d = 0 THEN Len(q) + 1 ELSE 1] = NewEntry(f, l, flag)
                                /\ \A i \in 1 .. Len(q) : r[i + d] = q[i]
        BY <1>0, <2>4, EnqueuedIs
      <3>3. j = (IF d = 0 THEN Len(q) + 1 ELSE 1) \/ (j - d \in 1 .. Len(q) /\ (j - d) + d = j)
        BY <1>0, <2>4, <3>1
      <3>4. NewEntry(f, l, flag).file = f
        BY DEF NewEntry
      <3> QED
        BY <1>0, <3>2, <3>3, <3>4
    <2> QED
      BY <2>1, <2>2, <2>3, <2>4
  <1> QED
    BY <1>1, <1>2

LEMMA NextOwned == IInv /\ AllOwned /\ [Next]_vars => AllOwned'
  <1> SUFFICES ASSUME IInv, AllOwned, [Next]_vars PROVE AllOwned'
    OBVIOUS
  <1>1. ASSUME NEW f \in Files, Using(f) \/ Locking(f) \/ Unlocking(f) PROVE AllOwned'
    BY <1>1, EntriesFrom DEF AllOwned, QueueOwned
  <1>2. ASSUME NEW f \in Files, Timeout(f) PROVE AllOwned'
    BY <1>2 DEF Timeout, AllOwned, QueueOwned
  <1>3. ASSUME NEW p \in Procs, Crash(p) PROVE AllOwned'
    <2>1. queue' = [queue EXCEPT ![p] = <<>>] /\ DOMAIN <<>> = {}
      BY <1>3 DEF Crash
    <2>2. \A q \in Procs : queue'[q] = queue[q] \/ DOMAIN queue'[q] = {}
      BY <2>1 DEF IInv, TypeOK
    <2> QED
      BY <2>2 DEF AllOwned, QueueOwned
  <1>4. CASE UNCHANGED vars
    BY <1>4 DEF vars, AllOwned, QueueOwned
  <1> QED
    BY <1>1, <1>2, <1>3, <1>4 DEF Next

LEMMA OwnedAlways == Spec => []AllOwned
  <1>1. Init => AllOwned
    BY DEF Init, AllOwned, QueueOwned
  <1> QED
    BY <1>1, NextOwned, Invariance, PTL DEF Spec

(***************************************************************************)
(* Nobody sleeps at the head of the queue of a process without a lock.     *)
(***************************************************************************)
LEMMA HeadIs ==
    ASSUME TypeOK, NEW p \in Procs, queue[p] # <<>>
    PROVE  /\ Head(queue[p]) = queue[p][1] /\ 1 \in DOMAIN queue[p]
           /\ queue[p][1] \in WaitInfo /\ Len(queue[p]) \in Nat \ {0}
  <1>1. queue[p] \in Seq(WaitInfo)
    BY DEF TypeOK
  <1>2. Len(queue[p]) \in Nat \ {0} /\ DOMAIN queue[p] = 1 .. Len(queue[p])
    BY <1>1, EmptySeq, LenProperties
  <1>3. 1 \in 1 .. Len(queue[p])
    BY <1>2
  <1> QED
    BY <1>1, <1>2, <1>3, ElementOfSeq

\* One process of WokenWhenUnlocked.
WokenIn(p) ==
    inode[p].eFileLock = NO_LOCK /\ queue[p] # <<>> =>
        pc[queue[p][1].file] # "asleep" \/ queue[p][1].freed

AllWoken == \A p \in Procs : WokenIn(p)

LEMMA WokenIs == TypeOK => (WokenWhenUnlocked <=> AllWoken)
  BY HeadIs DEF WokenWhenUnlocked, AllWoken, WokenIn

\* In a process without a lock nobody begins to wait.
LEMMA NobodyWaits ==
    ASSUME IInv, NEW f \in Files, Using(f) \/ Locking(f) \/ Unlocking(f),
           ~Close(f), ~Release(f),
           inode[Owner[f]].eFileLock = NO_LOCK, inode'[Owner[f]].eFileLock = NO_LOCK
    PROVE  UNCHANGED queue /\ pc[f] # "asleep" /\ pc'[f] # "asleep"
           /\ \A g \in Files : g # f => pc'[g] = pc[g] \/ pc'[g] # "asleep"
  <1> DEFINE p == Owner[f]
  <1>0. TypeOK /\ p \in Procs /\ f \in HandlesOf(p) /\ inode \in [Procs -> Inode]
    BY DEF IInv, HandlesOf, TypeOK
  <1>1. ~Precluded(f)
    <2> SUFFICES ASSUME Precluded(f) PROVE FALSE
      OBVIOUS
    <2>1. pc[f] = "idle" /\ Precludes(inode[p], fileLock[f], Wanted(f))
      BY DEF Precluded, Attempts
    <2>2. fileLock[f] = NO_LOCK
      BY <1>0, <2>1, NoneCounted, CountedIs
    <2> QED
      BY <2>1, <2>2 DEF Precludes
  <1>2. ~ExclusiveRange(f)
    <2> SUFFICES ASSUME ExclusiveRange(f) PROVE FALSE
      OBVIOUS
    <2>1. \E l \in {PENDING_LOCK, EXCLUSIVE_LOCK} :
              inode' = [inode EXCEPT ![p].eFileLock = l]
      BY DEF ExclusiveRange
    <2>2. \A l \in {PENDING_LOCK, EXCLUSIVE_LOCK} : l \in Level
      OBVIOUS
    <2> QED
      BY <1>0, <2>1, <2>2, LevelSet
  <1>3. ~ClearBytes(f)
    <2> SUFFICES ASSUME ClearBytes(f) PROVE FALSE
      OBVIOUS
    <2>1. inode' = [inode EXCEPT ![p].eFileLock = SHARED_LOCK] /\ SHARED_LOCK \in Level
      BY DEF ClearBytes
    <2> QED
      BY <1>0, <2>1, LevelSet
  <1>4. UNCHANGED queue
    <2>1. CASE Using(f)
      BY <2>1 DEF Using, Open, BeginRead, BeginWrite, Begin, Upgrade, Commit, Go, Fail
    <2>2. CASE Locking(f)
      BY <1>1, <1>2, <2>2
         DEF Locking, ShareInProcess, PendingByte, SharedRange, DropPending, DropPendingBusy, Reserve
    <2>3. CASE Unlocking(f)
      BY <1>3, <2>3 DEF Unlocking, Downgrade, Leave
    <2> QED
      BY <2>1, <2>2, <2>3
  <1>5. /\ pc[f] # "asleep"
        /\ \/ \E n \in 0 .. Len(queue[p]) : Signalled(f, n)
           \/ \E l, flag : Enqueued(f, l, flag)
    BY Classes
  <1>6. ~ \E l, flag : Enqueued(f, l, flag)
    <2> SUFFICES ASSUME NEW l, NEW flag, Enqueued(f, l, flag) PROVE FALSE
      OBVIOUS
    <2>1. Len(queue'[p]) = Len(queue[p]) + 1 /\ queue[p] \in Seq(WaitInfo)
      BY <1>0, EnqueuedIs DEF TypeOK
    <2>2. Len(queue[p]) \in Nat
      BY <2>1, LenProperties
    <2> QED
      BY <1>4, <2>1, <2>2
  <1> QED
    BY <1>4, <1>5, <1>6, AfterBusyPlace DEF Signalled

\* The handles of the other processes are where they were.
LEMMA OtherProcesses ==
    ASSUME IInv, NEW f \in Files, Using(f) \/ Locking(f) \/ Unlocking(f), UNCHANGED late
    PROVE  Quiet(f)
  <1>1. CASE Using(f)
    BY <1>1, OpenKeeps, CloseKeeps, CallerKeeps DEF Using
  <1>2. CASE Locking(f)
    BY <1>2, PrecludedKeeps, ShareInProcessKeeps, PendingByteKeeps, SharedRangeKeeps,
       DropPendingKeeps, DropPendingBusyKeeps, ReserveKeeps, ExclusiveRangeKeeps
       DEF Locking
  <1>3. CASE Unlocking(f)
    BY <1>3, DowngradeKeeps, ClearBytesKeeps, ReleaseKeeps, LeaveKeeps DEF Unlocking
  <1> QED
    BY <1>1, <1>2, <1>3

\* The records of other processes are left alone.
LEMMA OtherRecords ==
    ASSUME TypeOK, NEW f \in Files, Using(f) \/ Locking(f) \/ Unlocking(f)
    PROVE  \A q \in Procs : q # Owner[f] => inode'[q] = inode[q]
  <1> SUFFICES ASSUME NEW q \in Procs, q # Owner[f]
               PROVE  inode'[q] = inode[q]
    OBVIOUS
  <1>0. inode \in [Procs -> Inode]
    BY DEF TypeOK
  <1>1. CASE Using(f)
    BY <1>0, <1>1
       DEF Using, Open, Close, BeginRead, BeginWrite, Begin, Upgrade, Commit, Go, Fail
  <1>2. CASE Locking(f)
    BY <1>0, <1>2
       DEF Locking, Precluded, ShareInProcess, PendingByte, SharedRange, DropPending,
           DropPendingBusy, Reserve, ExclusiveRange
  <1>3. CASE Unlocking(f)
    BY <1>0, <1>3 DEF Unlocking, Downgrade, ClearBytes, Release, Leave
  <1> QED
    BY <1>1, <1>2, <1>3

AllCounted == \A h \in Files : Counted(h) \in Level

LEMMA AllCountedLevel == TypeOK => AllCounted
  BY CountedLevel DEF AllCounted

\* The last reader of its process signals until it finds somebody who still waits; nobody
\* waits for a lock of a process that has none.
LEMMA ReleaseWakes ==
    ASSUME IInv, IInv', AllOwned, NEW f \in Files, Release(f), Quiet(f)
    PROVE  WokenIn(Owner[f])'
  <1> DEFINE p == Owner[f]
             q == queue[p]
  <1>0. TypeOK /\ p \in Procs /\ q \in Seq(WaitInfo) /\ Len(q) \in Nat /\ DOMAIN q = 1 .. Len(q)
        /\ queue \in [Procs -> Seq(WaitInfo)] /\ inode \in [Procs -> Inode]
    <2>1. TypeOK /\ p \in Procs /\ q \in Seq(WaitInfo)
      BY DEF IInv, TypeOK
    <2> QED
      BY <2>1, LenProperties DEF TypeOK
  <1> SUFFICES ASSUME inode'[p].eFileLock = NO_LOCK, queue'[p] # <<>>,
                      pc'[queue'[p][1].file] = "asleep", ~queue'[p][1].freed
               PROVE  FALSE
    BY DEF WokenIn
  <1>1. PICK n \in 0 .. Len(q) :
            SignalledByTrySignal(p, inode'[p], n) /\ SignalFirst(p, n, f, "leave")
    BY <1>0 DEF Release, TrySignal
  <1>2. pc'[f] = "leave" /\ queue'[p] = Popped(q, n)
    <2>1. Signalled(f, n) /\ pc'[f] = "leave"
      BY <1>0, <1>1, SignalFirstIs
    <2> QED
      BY <1>0, <2>1 DEF Signalled
  <1>3. n < Len(q) /\ queue'[p][1] = q[n + 1] /\ n + 1 \in DOMAIN q
    <2>1. Popped(q, n) \in Seq(WaitInfo) /\ Len(Popped(q, n)) = Len(q) - n
          /\ \A i \in 1 .. Len(q) - n : Popped(q, n)[i] = q[n + i]
      BY <1>0, PoppedIs
    <2>2. Len(Popped(q, n)) \in Nat \ {0}
      BY <1>2, <2>1, EmptySeq
    <2>3. Len(q) \in Nat /\ n \in Nat /\ Len(q) - n \in Nat /\ Len(q) - n # 0
      <3>1. n \in Nat
        BY <1>0
      <3>2. Len(q) - n \in Nat \ {0}
        BY <2>1, <2>2, Zenon
      <3> QED
        BY <1>0, <3>1, <3>2
    <2>4. \A k, m \in Nat : k - m \in Nat /\ k - m # 0 => m < k /\ m + 1 <= k /\ 1 <= k - m
      OBVIOUS
    <2>5. n < Len(q) /\ n + 1 <= Len(q) /\ 1 <= Len(q) - n
      BY <2>3, <2>4
    <2>6. n + 1 \in 1 .. Len(q) /\ 1 \in 1 .. Len(q) - n
      BY <2>3, <2>5
    <2> QED
      BY <1>0, <1>2, <2>1, <2>5, <2>6
  <1>4. PICK e \in WaitInfo, g \in Files :
            e = q[n + 1] /\ g = e.file /\ Owner[g] = p /\ ~e.freed
    <2>1. q[n + 1] \in WaitInfo
      BY <1>0, <1>3, ElementOfSeq
    <2>2. q[n + 1].file \in Files /\ Owner[q[n + 1].file] = p
      BY <1>0, <1>3, <2>1 DEF AllOwned, QueueOwned, WaitInfo
    <2> QED
      BY <1>3, <2>1, <2>2
  <1>5. StillWaits(inode'[p], e, fileLock[g])
    BY <1>1, <1>3, <1>4 DEF SignalledByTrySignal, LockRead
  <1>6. \A h \in HandlesOf(p) : Counted(h)' = NO_LOCK
    <2>1. \A h \in HandlesOf(p) : Counted(h)' <= NO_LOCK /\ h \in Files
      BY <1>0 DEF IInv, Tops, HandlesOf
    <2>2. \A h \in Files : Counted(h)' \in Level
      <3>1. (TypeOK => AllCounted)'
        BY AllCountedLevel, PTL
      <3> QED
        BY <3>1 DEF IInv, AllCounted
    <2> QED
      BY <2>1, <2>2
  <1>7. fileLock[g] = NO_LOCK
    <2>1. g # f /\ pc'[g] = "asleep"
      BY <1>2, <1>3, <1>4
    <2>2. Counted(g)' = fileLock'[g] /\ fileLock'[g] = fileLock[g]
      BY <1>4, <2>1, CountedIs DEF Quiet
    <2> QED
      BY <1>4, <1>6, <2>2 DEF HandlesOf
  <1>8. inode'[p].nShared = 0
    <2>1. Readers(p)' = {}
      BY <1>6 DEF Readers, HandlesOf
    <2> QED
      BY <1>0, <2>1, FS_EmptySet DEF IInv, Counts
  <1> QED
    BY <1>5, <1>7, <1>8 DEF StillWaits, Precludes

LEMMA WokenStep ==
    ASSUME IInv, AllOwned, WokenWhenUnlocked, NEW f \in Files,
           Using(f) \/ Locking(f) \/ Unlocking(f), UNCHANGED late, IInv'
    PROVE  WokenWhenUnlocked'
  <1> DEFINE p == Owner[f]
  <1>0. TypeOK /\ p \in Procs /\ Quiet(f) /\ \A q \in Procs : WokenIn(q)
    BY OtherProcesses, WokenIs DEF IInv, AllWoken
  <1>1. ASSUME NEW q \in Procs, q # p
        PROVE  WokenIn(q)'
    <2>1. inode'[q] = inode[q] /\ queue'[q] = queue[q]
      BY <1>0, <1>1, OtherRecords, EntriesFrom
    <2> SUFFICES ASSUME inode[q].eFileLock = NO_LOCK, queue[q] # <<>>
                 PROVE  pc'[queue[q][1].file] # "asleep" \/ queue[q][1].freed
      BY <2>1 DEF WokenIn
    <2>2. queue[q][1].file \in Files /\ Owner[queue[q][1].file] = q
      BY <1>0, HeadIs DEF AllOwned, QueueOwned, WaitInfo
    <2> QED
      BY <1>0, <1>1, <2>2, AfterBusyPlace DEF WokenIn, Quiet
  <1>2. WokenIn(p)'
    <2>1. CASE Release(f)
      BY <1>0, <2>1, ReleaseWakes
    <2>2. CASE Close(f)
      <3> SUFFICES ASSUME inode'[p].eFileLock = NO_LOCK, queue'[p] # <<>>
                   PROVE  pc'[queue'[p][1].file] # "asleep" \/ queue'[p][1].freed
        BY DEF WokenIn
      <3>1. /\ UNCHANGED pc /\ DOMAIN queue'[p] = DOMAIN queue[p]
            /\ \A i \in DOMAIN queue[p] : /\ queue[p][i].file # f => queue'[p][i] = queue[p][i]
                                          /\ queue[p][i].file = f => queue'[p][i].freed
        BY <1>0, <2>2, CloseIs
      <3>2. queue[p] # <<>> /\ 1 \in DOMAIN queue[p]
        <4>1. queue'[p] \in Seq(WaitInfo) /\ queue[p] \in Seq(WaitInfo)
          BY <1>0 DEF IInv, TypeOK
        <4>2. Len(queue'[p]) \in Nat \ {0} /\ DOMAIN queue'[p] = 1 .. Len(queue'[p])
          BY <4>1, EmptySeq, LenProperties
        <4>3. 1 \in DOMAIN queue[p]
          BY <3>1, <4>2
        <4>4. DOMAIN <<>> = {}
          BY <1>0
        <4> QED
          BY <4>3, <4>4
      <3>3. inode[p].eFileLock = NO_LOCK
        <4>1. \A g \in HandlesOf(p) : g # f => Counted(g)' = Counted(g)
          BY <1>0, OthersKeep DEF HandlesOf
        <4>2. Counted(f)' = Counted(f)
          BY <2>2, CountedIs DEF Close, callers
        <4>3. \A g \in HandlesOf(p) : Counted(g) <= NO_LOCK
          BY <1>0, <4>1, <4>2 DEF IInv, Tops, HandlesOf
        <4>4. inode[p].eFileLock \in Level
          BY <1>0 DEF TypeOK, Inode
        <4> QED
          BY <1>0, <4>3, <4>4 DEF IInv, Tops
      <3> QED
        BY <1>0, <3>1, <3>2, <3>3 DEF WokenIn
    <2>3. CASE ~Release(f) /\ ~Close(f) /\ inode[p].eFileLock = NO_LOCK
      <3> SUFFICES ASSUME inode'[p].eFileLock = NO_LOCK, queue'[p] # <<>>
                   PROVE  pc'[queue'[p][1].file] # "asleep" \/ queue'[p][1].freed
        BY DEF WokenIn
      <3>1. UNCHANGED queue /\ pc'[f] # "asleep"
            /\ \A g \in Files : g # f => pc'[g] = pc[g] \/ pc'[g] # "asleep"
        BY <2>3, NobodyWaits
      <3>2. queue[p][1].file \in Files
        BY <1>0, <3>1, HeadIs DEF WaitInfo
      <3> QED
        BY <1>0, <2>3, <3>1, <3>2 DEF WokenIn
    <2>4. CASE ~Release(f) /\ ~Close(f) /\ inode[p].eFileLock # NO_LOCK
      <3> SUFFICES ASSUME inode'[p].eFileLock = NO_LOCK
                   PROVE  FALSE
        BY DEF WokenIn
      <3>0. inode \in [Procs -> Inode] /\ inode[p] \in Inode
            /\ \A l \in {SHARED_LOCK, RESERVED_LOCK, PENDING_LOCK, EXCLUSIVE_LOCK} : l \in Level
        BY <1>0 DEF TypeOK
      <3>1. inode'[p].eFileLock = inode[p].eFileLock
            \/ inode'[p].eFileLock \in {SHARED_LOCK, RESERVED_LOCK, PENDING_LOCK, EXCLUSIVE_LOCK}
        <4>1. ASSUME NEW l \in {SHARED_LOCK, RESERVED_LOCK, PENDING_LOCK, EXCLUSIVE_LOCK},
                     inode' = [inode EXCEPT ![p].eFileLock = l]
              PROVE  inode'[p].eFileLock = l
          BY <1>0, <3>0, <4>1, LevelSet
        <4>2. CASE Using(f)
          <5>1. CASE Open(f)
            <6>1. inode' = [inode EXCEPT ![p].nUnused = MayTakeOver(@)]
              BY <5>1 DEF Open
            <6> QED
              BY <1>0, <3>0, <6>1 DEF Inode
          <5>2. CASE ~Open(f)
            BY <2>4, <4>2, <5>2
               DEF Using, BeginRead, BeginWrite, Begin, Upgrade, Commit, Go, Fail
          <5> QED
            BY <5>1, <5>2
        <4>3. CASE Locking(f)
          <5>1. CASE ShareInProcess(f)
            <6>1. inode' = [inode EXCEPT ![p] = CountedIn(inode[p])]
              BY <1>0, <3>0, <5>1 DEF ShareInProcess
            <6> QED
              BY <1>0, <3>0, <6>1, CountedInIs
          <5>2. CASE DropPending(f)
            <6>1. inode' = [inode EXCEPT ![p] = FirstIn(inode[p])]
              BY <1>0, <3>0, <5>2 DEF DropPending
            <6> QED
              BY <1>0, <3>0, <6>1, FirstInIs
          <5>3. CASE Reserve(f) \/ ExclusiveRange(f)
            <6>1. inode' = inode \/ \E l \in {RESERVED_LOCK, PENDING_LOCK, EXCLUSIVE_LOCK} :
                                        inode' = [inode EXCEPT ![p].eFileLock = l]
              BY <5>3 DEF Reserve, ExclusiveRange
            <6> QED
              BY <4>1, <6>1
          <5>4. CASE Precluded(f) \/ PendingByte(f) \/ SharedRange(f) \/ DropPendingBusy(f)
            BY <5>4 DEF Precluded, PendingByte, SharedRange, DropPendingBusy
          <5> QED
            BY <4>3, <5>1, <5>2, <5>3, <5>4 DEF Locking
        <4>4. CASE Unlocking(f)
          <5>1. CASE ClearBytes(f)
            <6>1. inode' = [inode EXCEPT ![p].eFileLock = SHARED_LOCK]
              BY <5>1 DEF ClearBytes
            <6> QED
              BY <4>1, <6>1
          <5> QED
            BY <2>4, <4>4, <5>1 DEF Unlocking, Downgrade, Leave
        <4> QED
          BY <4>2, <4>3, <4>4
      <3> QED
        BY <2>4, <3>1
    <2> QED
      BY <2>1, <2>2, <2>3, <2>4
  <1>3. \A q \in Procs : WokenIn(q)'
    BY <1>1, <1>2
  <1>4. (TypeOK => (WokenWhenUnlocked <=> AllWoken))'
    BY WokenIs, PTL
  <1> QED
    BY <1>3, <1>4 DEF IInv, AllWoken

LEMMA NextWoken == IInv /\ AllOwned /\ WokenWhenUnlocked /\ [Next]_vars => WokenWhenUnlocked'
  <1> SUFFICES ASSUME IInv, AllOwned, WokenWhenUnlocked, [Next]_vars
               PROVE  WokenWhenUnlocked'
    OBVIOUS
  <1>0. TypeOK /\ IInv'
    BY NextIInv DEF IInv
  <1>1. ASSUME NEW f \in Files, Using(f) \/ Locking(f) \/ Unlocking(f), UNCHANGED late
        PROVE  WokenWhenUnlocked'
    BY <1>0, <1>1, WokenStep
  <1>2. ASSUME UNCHANGED <<inode, queue>>,
               \A g \in Files : pc'[g] = "asleep" => pc[g] = "asleep"
        PROVE  WokenWhenUnlocked'
    <2>1. \A p \in Procs : queue[p] # <<>> => Head(queue[p]).file \in Files
      BY <1>0, HeadIs DEF WaitInfo
    <2> QED
      BY <1>2, <2>1 DEF WokenWhenUnlocked
  <1>3. ASSUME NEW f \in Files, Timeout(f) PROVE WokenWhenUnlocked'
    <2>1. UNCHANGED <<inode, queue>>
          /\ \A g \in Files : pc'[g] = "asleep" => pc[g] = "asleep"
      BY <1>0, <1>3, AfterBusyPlace DEF Timeout, TypeOK
    <2> QED
      BY <1>2, <2>1
  <1>4. ASSUME NEW p \in Procs, Crash(p) PROVE WokenWhenUnlocked'
    <2>1. \A q \in Procs : q # p => inode'[q] = inode[q] /\ queue'[q] = queue[q]
      BY <1>0, <1>4 DEF Crash, TypeOK
    <2>2. queue'[p] = <<>> /\ \A g \in Files : pc'[g] = "asleep" => pc[g] = "asleep"
      BY <1>0, <1>4 DEF Crash, TypeOK
    <2>3. \A q \in Procs : queue[q] # <<>> => Head(queue[q]).file \in Files
      BY <1>0, HeadIs DEF WaitInfo
    <2> QED
      BY <2>1, <2>2, <2>3 DEF WokenWhenUnlocked
  <1>5. CASE UNCHANGED vars
    BY <1>2, <1>5 DEF vars
  <1> QED
    BY <1>1, <1>3, <1>4, <1>5 DEF Next

\* Whatever entries timeouts have left, once a process has given back its last lock nobody
\* sleeps at the head of its queue (posixUnlock, os_unix.c:1906; WCDBOsTrySignal,
\* os_wcdb.c:120).
THEOREM NobodyLeftAsleep == Spec => []WokenWhenUnlocked
  <1>1. Init => WokenWhenUnlocked
    BY DEF Init, WokenWhenUnlocked
  <1> QED
    BY <1>1, NextWoken, Invariance, OwnedAlways, PTL DEF Spec

(***************************************************************************)
(* Whoever is at the head waits for a reason, as long as no wait has timed *)
(* out.  Alone this is not inductive: it needs that each entry has its     *)
(* sleeper, and one entry each; that an entry for the shared range is of   *)
(* the handle with PENDING; and that only while a handle stands between    *)
(* the two halves of an unlock is a signal still to come.                  *)
(***************************************************************************)
Fits(e) ==
    /\ ~e.freed /\ pc[e.file] = "asleep"
    /\ e.eFlag = "exclusive" =>
          e.eFileLock = EXCLUSIVE_LOCK /\ fileLock[e.file] = PENDING_LOCK
    /\ e.eFlag = "shared" => e.eFileLock # EXCLUSIVE_LOCK
Tidy(p) ==
    /\ \A i \in DOMAIN queue[p] : Fits(queue[p][i])
    /\ \A i, j \in DOMAIN queue[p] : queue[p][i].file = queue[p][j].file => i = j
NoneReleasing(p) == \A g \in HandlesOf(p) : pc[g] # "release"
HeadHeld(p) ==
    NoneReleasing(p) /\ queue[p] # <<>> =>
        StillWaits(inode[p], queue[p][1], fileLock[queue[p][1].file])
Orderly(p) == p \notin late => Tidy(p) /\ HeadHeld(p)
AllOrderly == \A p \in Procs : Orderly(p)

LEMMA EntryOf ==
    ASSUME NEW q \in Seq(WaitInfo)
    PROVE  /\ Len(q) \in Nat /\ DOMAIN q = 1 .. Len(q)
           /\ \A i \in DOMAIN q : q[i] \in WaitInfo /\ q[i].file \in Files
           /\ q # <<>> => 1 \in DOMAIN q
  <1>1. Len(q) \in Nat /\ DOMAIN q = 1 .. Len(q)
    BY LenProperties
  <1>2. \A i \in DOMAIN q : q[i] \in WaitInfo
    BY <1>1, ElementOfSeq
  <1>3. \A e \in WaitInfo : e.file \in Files
    BY DEF WaitInfo
  <1>4. ASSUME q # <<>> PROVE 1 \in DOMAIN q
    <2>1. Len(q) # 0
      BY <1>4, EmptySeq
    <2> QED
      BY <1>1, <2>1
  <1> QED
    BY <1>1, <1>2, <1>3, <1>4

\* The signals of a step go to the sleepers whose entries it takes, and no others.
LEMMA SignalledTidy ==
    ASSUME TypeOK, NEW f \in Files, pc[f] # "asleep", Tidy(Owner[f]),
           NEW n, Signalled(f, n), \A g \in Files : g # f => fileLock'[g] = fileLock[g]
    PROVE  Tidy(Owner[f])'
  <1> DEFINE p == Owner[f]
             q == queue[p]
             r == queue'[p]
  <1>0. /\ q \in Seq(WaitInfo) /\ Len(q) \in Nat /\ DOMAIN q = 1 .. Len(q)
        /\ n \in 0 .. Len(q) /\ r = Popped(q, n) /\ n \in Nat
        /\ \A i \in DOMAIN q : q[i] \in WaitInfo /\ q[i].file \in Files
    <2>1. q \in Seq(WaitInfo) /\ n \in 0 .. Len(q) /\ r = Popped(q, n)
      BY DEF TypeOK, Signalled
    <2> QED
      BY <2>1, EntryOf
  <1>1. DOMAIN r = 1 .. Len(q) - n /\ \A i \in 1 .. Len(q) - n : r[i] = q[n + i]
    <2>1. q \in Seq(WaitInfo) /\ n \in 0 .. Len(q) /\ r = Popped(q, n)
      BY <1>0
    <2> HIDE DEF q, r
    <2> QED
      BY <2>1, PoppedIs
  <1>2. \A i \in DOMAIN r : n + i \in DOMAIN q /\ r[i] = q[n + i] /\ n + i \notin 1 .. n /\ i \in Int
    BY <1>0, <1>1
  <1>3. ASSUME NEW i \in DOMAIN q, i \notin 1 .. n
        PROVE  pc'[q[i].file] = "asleep" /\ fileLock'[q[i].file] = fileLock[q[i].file]
    <2>1. PICK g \in Files : g = q[i].file
      BY <1>0
    <2>2. pc[g] = "asleep" /\ g # f
      BY <2>1 DEF Tidy, Fits
    <2>3. ~ \E j \in 1 .. n : q[j].file = g
      BY <1>0, <1>3, <2>1 DEF Tidy
    <2> QED
      BY <2>1, <2>2, <2>3 DEF Signalled
  <1>4. ASSUME NEW i \in DOMAIN r
        PROVE  Fits(queue[p][i])'
    <2>1. Fits(q[n + i])
      BY <1>2 DEF Tidy
    <2>2. r[i] = q[n + i] /\ pc'[q[n + i].file] = "asleep"
          /\ fileLock'[q[n + i].file] = fileLock[q[n + i].file]
      BY <1>2, <1>3
    <2> QED
      BY <2>1, <2>2 DEF Fits
  <1>5. ASSUME NEW i \in DOMAIN r, NEW j \in DOMAIN r, r[i].file = r[j].file
        PROVE  i = j
    <2>1. q[n + i].file = q[n + j].file /\ n + i \in DOMAIN q /\ n + j \in DOMAIN q
          /\ i \in Int /\ j \in Int
      BY <1>2, <1>5
    <2>2. n + i = n + j
      BY <2>1 DEF Tidy
    <2> QED
      BY <1>0, <2>1, <2>2
  <1> QED
    BY <1>4, <1>5 DEF Tidy

LEMMA EnqueuedTidy ==
    ASSUME TypeOK, NEW f \in Files, pc[f] # "asleep", Tidy(Owner[f]),
           NEW l, NEW flag, Enqueued(f, l, flag),
           flag = "exclusive" => l = EXCLUSIVE_LOCK /\ fileLock'[f] = PENDING_LOCK,
           flag = "shared" => l # EXCLUSIVE_LOCK,
           \A g \in Files : g # f => fileLock'[g] = fileLock[g]
    PROVE  /\ Tidy(Owner[f])'
           /\ \/ queue'[Owner[f]][1] = NewEntry(f, l, flag)
              \/ queue[Owner[f]] # <<>> /\ queue'[Owner[f]][1] = queue[Owner[f]][1]
  <1> DEFINE p == Owner[f]
             q == queue[p]
             r == queue'[p]
             e == NewEntry(f, l, flag)
  <1>0. /\ q \in Seq(WaitInfo) /\ Len(q) \in Nat /\ DOMAIN q = 1 .. Len(q)
        /\ \A i \in DOMAIN q : q[i] \in WaitInfo /\ q[i].file \in Files
    <2>1. q \in Seq(WaitInfo)
      BY DEF TypeOK
    <2> QED
      BY <2>1, EntryOf
  <1>1. DOMAIN r = 1 .. Len(q) + 1
    BY EnqueuedIs
  <1>2. PICK d \in {0, 1} : /\ r[IF d = 0 THEN Len(q) + 1 ELSE 1] = e
                            /\ \A i \in 1 .. Len(q) : r[i + d] = q[i]
    BY EnqueuedIs
  <1> DEFINE k == IF d = 0 THEN Len(q) + 1 ELSE 1
  <1>3. \A i \in DOMAIN r : i = k \/ (i - d \in DOMAIN q /\ r[i] = q[i - d] /\ i \in Int)
    <2> SUFFICES ASSUME NEW i \in DOMAIN r, i # k
                 PROVE  i - d \in DOMAIN q /\ r[i] = q[i - d] /\ i \in Int
      OBVIOUS
    <2>1. i - d \in 1 .. Len(q) /\ (i - d) + d = i /\ i \in Int
      BY <1>0, <1>1
    <2> QED
      BY <1>0, <1>2, <2>1
  <1>4. e.file = f /\ ~e.freed /\ e.eFileLock = l /\ e.eFlag = flag /\ r[k] = e
    BY <1>2 DEF NewEntry
  <1>5. pc'[f] = "asleep" /\ \A g \in Files : g # f => pc'[g] = pc[g]
    BY DEF Enqueued, TypeOK
  <1>6. \A i \in DOMAIN q : q[i].file # f /\ pc'[q[i].file] = "asleep"
                            /\ fileLock'[q[i].file] = fileLock[q[i].file]
    BY <1>0, <1>5 DEF Tidy, Fits
  <1> HIDE DEF k, e
  <1>7. ASSUME NEW i \in DOMAIN r
        PROVE  Fits(queue[p][i])'
    <2>1. CASE i = k
      <3>1. r[i] = e
        BY <1>4, <2>1
      <3> QED
        BY <1>4, <1>5, <3>1 DEF Fits
    <2>2. CASE i # k
      <3>1. i - d \in DOMAIN q /\ r[i] = q[i - d]
        BY <1>3, <2>2
      <3>2. Fits(q[i - d])
        BY <3>1 DEF Tidy
      <3> QED
        BY <1>6, <3>1, <3>2 DEF Fits
    <2> QED
      BY <2>1, <2>2
  <1>8. ASSUME NEW i \in DOMAIN r, NEW j \in DOMAIN r, r[i].file = r[j].file
        PROVE  i = j
    <2>1. CASE i = k /\ j = k
      BY <2>1
    <2>2. CASE i # k /\ j # k
      <3>1. i - d \in DOMAIN q /\ j - d \in DOMAIN q /\ q[i - d].file = q[j - d].file
            /\ i \in Int /\ j \in Int
        BY <1>3, <1>8, <2>2
      <3>2. i - d = j - d
        BY <3>1 DEF Tidy
      <3> QED
        BY <3>1, <3>2
    <2>3. CASE ~(i = k <=> j = k)
      BY <1>3, <1>4, <1>6, <1>8, <2>3
    <2> QED
      BY <2>1, <2>2, <2>3
  <1>9. r[1] = e \/ (q # <<>> /\ r[1] = q[1])
    <2>1. CASE d = 1
      BY <1>4, <2>1 DEF k
    <2>2. CASE d = 0 /\ q = <<>>
      <3>1. Len(q) = 0
        BY <2>2
      <3> QED
        BY <1>4, <2>2, <3>1 DEF k
    <2>3. CASE d = 0 /\ q # <<>>
      <3>1. 1 \in 1 .. Len(q) /\ 1 + 0 = 1
        BY <1>0, <2>3, EntryOf
      <3> QED
        BY <1>2, <2>3, <3>1
    <2> QED
      BY <2>1, <2>2, <2>3
  <1> QED
    BY <1>7, <1>8, <1>9 DEF Tidy, e

\* A handle with PENDING or EXCLUSIVE keeps every waiter of its process waiting.
KeptOut(k, e) ==
    /\ IInv /\ Fits(e) /\ e.file # k /\ Owner[e.file] = Owner[k]
    /\ Counted(k) >= PENDING_LOCK
    => StillWaits(inode[Owner[k]], e, fileLock[e.file])
AllKeptOut == \A k \in Files, e \in WaitInfo : KeptOut(k, e)

LEMMA PendingKeepsOut == AllKeptOut
  <1> SUFFICES ASSUME NEW k \in Files, NEW e \in WaitInfo,
                      IInv, Fits(e), e.file # k, Owner[e.file] = Owner[k],
                      Counted(k) >= PENDING_LOCK
               PROVE  StillWaits(inode[Owner[k]], e, fileLock[e.file])
    BY DEF AllKeptOut, KeptOut
  <1> DEFINE p == Owner[k]
             g == e.file
  <1>0. /\ TypeOK /\ p \in Procs /\ k \in HandlesOf(p) /\ g \in Files
        /\ e.eFlag \in {"shared", "exclusive"}
    BY DEF IInv, HandlesOf, WaitInfo
  <1>1. Counted(g) = fileLock[g]
    BY CountedIs DEF Fits
  <1>2. inode[p].eFileLock \in Level /\ Counted(k) \in Level /\ fileLock[g] \in Level
    BY <1>0, CountedLevel DEF TypeOK, Inode
  <1>3. inode[p].eFileLock >= PENDING_LOCK
    BY <1>0, <1>2 DEF IInv, Tops
  <1>4. ~(Counted(g) > SHARED_LOCK)
    BY <1>0, <1>2 DEF IInv, AboveOne
  <1>5. fileLock[g] # inode[p].eFileLock /\ fileLock[g] # PENDING_LOCK
    BY <1>1, <1>2, <1>3, <1>4
  <1> QED
    BY <1>0, <1>3, <1>5 DEF Fits, StillWaits, Precludes

\* The entry a step leaves at the head.
LEMMA NextHead ==
    ASSUME TypeOK, NEW f \in Files, NEW n, Signalled(f, n), queue'[Owner[f]] # <<>>
    PROVE  LET q == queue[Owner[f]]
               r == queue'[Owner[f]]
           IN
           /\ n \in Nat /\ n < Len(q) /\ n + 1 \in DOMAIN q /\ n + 1 \notin 1 .. n
           /\ r[1] = q[n + 1] /\ 1 \in DOMAIN r /\ r[1] \in WaitInfo /\ r[1].file \in Files
  <1> DEFINE p == Owner[f]
             q == queue[p]
             r == queue'[p]
  <1>0. /\ q \in Seq(WaitInfo) /\ Len(q) \in Nat /\ DOMAIN q = 1 .. Len(q)
        /\ n \in 0 .. Len(q) /\ r = Popped(q, n) /\ n \in Nat
    <2>1. q \in Seq(WaitInfo) /\ n \in 0 .. Len(q) /\ r = Popped(q, n)
      BY DEF TypeOK, Signalled
    <2> QED
      BY <2>1, EntryOf
  <1>1. /\ r \in Seq(WaitInfo) /\ Len(r) = Len(q) - n
        /\ \A i \in 1 .. Len(q) - n : r[i] = q[n + i]
    <2>1. q \in Seq(WaitInfo) /\ n \in 0 .. Len(q) /\ r = Popped(q, n)
      BY <1>0
    <2> HIDE DEF q, r
    <2> QED
      BY <2>1, PoppedIs
  <1>2. Len(r) \in Nat /\ Len(r) # 0 /\ 1 \in DOMAIN r
    <2>1. r # <<>>
      OBVIOUS
    <2> QED
      BY <1>1, <2>1, EmptySeq, EntryOf
  <1>3. \A k, m \in Nat : k - m \in Nat /\ k - m # 0
            => m < k /\ m + 1 <= k /\ 1 <= k - m /\ ~(m + 1 <= m)
    OBVIOUS
  <1>4. Len(q) - n \in Nat /\ Len(q) - n # 0
    BY <1>1, <1>2, Zenon
  <1>5. n < Len(q) /\ n + 1 <= Len(q) /\ 1 <= Len(q) - n /\ ~(n + 1 <= n)
    BY <1>0, <1>3, <1>4
  <1>6. n + 1 \in DOMAIN q /\ n + 1 \notin 1 .. n /\ 1 \in 1 .. Len(q) - n
    BY <1>0, <1>5
  <1>7. r[1] = q[n + 1]
    BY <1>1, <1>6
  <1>8. r[1] \in WaitInfo /\ r[1].file \in Files
    BY <1>1, <1>2, EntryOf
  <1> QED
    BY <1>0, <1>2, <1>5, <1>6, <1>7, <1>8

\* Whoever of the others waits for a reason still does.
Stands(f) ==
    \A e \in WaitInfo :
        /\ Fits(e) /\ e.file # f /\ Owner[e.file] = Owner[f]
        /\ StillWaits(inode[Owner[f]], e, fileLock[e.file])
        => StillWaits(inode'[Owner[f]], e, fileLock'[e.file])

\* A handle of the process that was between the halves of an unlock still is.
LEMMA StillReleasing ==
    ASSUME NEW f \in Files, Quiet(f), pc[f] # "release", NoneReleasing(Owner[f])'
    PROVE  NoneReleasing(Owner[f])
  BY DEF NoneReleasing, HandlesOf, Quiet

\* A step that takes and adds no entry.
LEMMA StillOrderly ==
    ASSUME TypeOK, NEW f \in Files, Quiet(f), Signalled(f, 0), UNCHANGED queue, Stands(f),
           pc[f] \notin {"asleep", "release"},
           QueueOwned(Owner[f]), Tidy(Owner[f]), HeadHeld(Owner[f])
    PROVE  Tidy(Owner[f])' /\ HeadHeld(Owner[f])'
  <1> DEFINE p == Owner[f]
  <1>0. \A g \in Files : g # f => fileLock'[g] = fileLock[g]
    BY DEF Quiet
  <1>1. Tidy(p)'
    BY <1>0, SignalledTidy
  <1>2. ASSUME NoneReleasing(p)', queue[p] # <<>>
        PROVE  StillWaits(inode'[p], queue[p][1], fileLock'[queue[p][1].file])
    <2>1. NoneReleasing(p)
      BY <1>2, StillReleasing
    <2>2. 1 \in DOMAIN queue[p] /\ queue[p][1] \in WaitInfo
      BY <1>2, HeadIs, OwnerAssumption
    <2>3. PICK e \in WaitInfo : e = queue[p][1]
      BY <2>2
    <2>4. Fits(e) /\ Owner[e.file] = p
      BY <2>2, <2>3 DEF Tidy, QueueOwned
    <2>5. e.file # f
      BY <2>4 DEF Fits
    <2>6. StillWaits(inode[p], e, fileLock[e.file])
      BY <1>2, <2>1, <2>3 DEF HeadHeld
    <2>7. StillWaits(inode'[p], e, fileLock'[e.file])
      BY <2>4, <2>5, <2>6 DEF Stands
    <2> QED
      BY <2>3, <2>7
  <1> QED
    BY <1>1, <1>2 DEF HeadHeld

\* WCDBOsTrySignal stops at an entry that still waits.
LEMMA TryOrderly ==
    ASSUME TypeOK, NEW f \in Files, Quiet(f), UNCHANGED fileLock, pc[f] # "asleep",
           TrySignal(Owner[f], inode'[Owner[f]], f, "leave"), Tidy(Owner[f])
    PROVE  Tidy(Owner[f])' /\ HeadHeld(Owner[f])'
  <1> DEFINE p == Owner[f]
             q == queue[p]
             r == queue'[p]
  <1>1. PICK n \in 0 .. Len(q) :
            SignalledByTrySignal(p, inode'[p], n) /\ SignalFirst(p, n, f, "leave")
    BY DEF TrySignal
  <1>2. Signalled(f, n)
    BY <1>1, SignalFirstIs
  <1>3. Tidy(p)'
    BY <1>2, SignalledTidy
  <1>4. ASSUME r # <<>>
        PROVE  StillWaits(inode'[p], r[1], fileLock'[r[1].file])
    <2>1. n < Len(q) /\ n + 1 \in DOMAIN q /\ r[1] = q[n + 1]
      BY <1>2, <1>4, NextHead
    <2>2. ~q[n + 1].freed
      BY <2>1 DEF Tidy, Fits
    <2>3. StillWaits(inode'[p], q[n + 1], fileLock[q[n + 1].file])
      BY <1>1, <2>1, <2>2 DEF SignalledByTrySignal, LockRead
    <2> QED
      BY <2>1, <2>3
  <1> QED
    BY <1>3, <1>4 DEF HeadHeld

\* Beside a handle with PENDING or EXCLUSIVE the next entry waits for a reason.
LEMMA KeptOrderly ==
    ASSUME IInv, IInv', NEW f \in Files, Quiet(f), pc[f] # "asleep",
           QueueOwned(Owner[f]), Tidy(Owner[f]),
           NEW n, Signalled(f, n),
           NEW k \in HandlesOf(Owner[f]), Counted(k)' >= PENDING_LOCK,
           \A i \in DOMAIN queue[Owner[f]] :
               i \notin 1 .. n => queue[Owner[f]][i].file # k
    PROVE  Tidy(Owner[f])' /\ HeadHeld(Owner[f])'
  <1> DEFINE p == Owner[f]
             q == queue[p]
             r == queue'[p]
  <1>0. TypeOK /\ k \in Files /\ Owner[k] = p
        /\ \A g \in Files : g # f => fileLock'[g] = fileLock[g]
    BY DEF IInv, Quiet, HandlesOf
  <1>1. Tidy(p)'
    BY <1>0, SignalledTidy
  <1>2. ASSUME r # <<>>
        PROVE  StillWaits(inode'[p], r[1], fileLock'[r[1].file])
    <2>1. n + 1 \in DOMAIN q /\ n + 1 \notin 1 .. n /\ r[1] = q[n + 1] /\ 1 \in DOMAIN r
          /\ r[1] \in WaitInfo
      BY <1>0, <1>2, NextHead
    <2>2. PICK e \in WaitInfo : e = r[1]
      BY <2>1
    <2>3. e.file # k /\ Owner[e.file] = p
      BY <2>1, <2>2 DEF QueueOwned
    <2>4. Fits(e)'
      BY <1>1, <2>1, <2>2 DEF Tidy
    <2>5. AllKeptOut'
      BY PendingKeepsOut, PTL
    <2>6. KeptOut(k, e)'
      BY <1>0, <2>5 DEF AllKeptOut
    <2>7. StillWaits(inode'[p], e, fileLock'[e.file])
      BY <1>0, <2>3, <2>4, <2>6 DEF KeptOut
    <2> QED
      BY <2>2, <2>7
  <1> QED
    BY <1>1, <1>2 DEF HeadHeld

\* A new entry at the head waits for the reason it was made for.
LEMMA EnqueuedOrderly ==
    ASSUME TypeOK, NEW f \in Files, Quiet(f), pc[f] \notin {"asleep", "release"}, Stands(f),
           QueueOwned(Owner[f]), Tidy(Owner[f]), HeadHeld(Owner[f]),
           NEW l, NEW flag, Enqueued(f, l, flag),
           flag = "exclusive" => l = EXCLUSIVE_LOCK /\ fileLock'[f] = PENDING_LOCK,
           flag = "shared" => l # EXCLUSIVE_LOCK,
           StillWaits(inode'[Owner[f]], NewEntry(f, l, flag), fileLock'[f])
    PROVE  Tidy(Owner[f])' /\ HeadHeld(Owner[f])'
  <1> DEFINE p == Owner[f]
             q == queue[p]
             r == queue'[p]
  <1>0. \A g \in Files : g # f => fileLock'[g] = fileLock[g]
    BY DEF Quiet
  <1>1. Tidy(p)' /\ (r[1] = NewEntry(f, l, flag) \/ (q # <<>> /\ r[1] = q[1]))
    BY <1>0, EnqueuedTidy
  <1>2. ASSUME r[1] = NewEntry(f, l, flag)
        PROVE  StillWaits(inode'[p], r[1], fileLock'[r[1].file])
    <2>1. r[1].file = f
      BY <1>2 DEF NewEntry
    <2> QED
      BY <1>2, <2>1
  <1>3. ASSUME q # <<>>, r[1] = q[1], NoneReleasing(p)'
        PROVE  StillWaits(inode'[p], r[1], fileLock'[r[1].file])
    <2>1. NoneReleasing(p)
      BY <1>3, StillReleasing
    <2>2. 1 \in DOMAIN q /\ q[1] \in WaitInfo
      BY <1>3, HeadIs, OwnerAssumption
    <2>3. PICK e \in WaitInfo : e = q[1]
      BY <2>2
    <2>4. Fits(e) /\ Owner[e.file] = p
      BY <2>2, <2>3 DEF Tidy, QueueOwned
    <2>5. e.file # f
      BY <2>4 DEF Fits
    <2>6. StillWaits(inode[p], e, fileLock[e.file])
      BY <1>3, <2>1, <2>3 DEF HeadHeld
    <2>7. StillWaits(inode'[p], e, fileLock'[e.file])
      BY <2>4, <2>5, <2>6 DEF Stands
    <2> QED
      BY <1>3, <2>3, <2>7
  <1> QED
    BY <1>1, <1>2, <1>3 DEF HeadHeld

Orders(f) == QueueOwned(Owner[f]) /\ Tidy(Owner[f]) /\ HeadHeld(Owner[f])

LEMMA SameStands ==
    ASSUME NEW f \in Files, Quiet(f),
           inode'[Owner[f]].eFileLock = inode[Owner[f]].eFileLock,
           inode'[Owner[f]].nShared = inode[Owner[f]].nShared
    PROVE  Stands(f)
  <1> SUFFICES ASSUME NEW e \in WaitInfo, e.file # f,
                      StillWaits(inode[Owner[f]], e, fileLock[e.file])
               PROVE  StillWaits(inode'[Owner[f]], e, fileLock'[e.file])
    BY DEF Stands
  <1>1. fileLock'[e.file] = fileLock[e.file]
    BY DEF Quiet, WaitInfo
  <1> QED
    BY <1>1 DEF StillWaits, Precludes

\* A step that moves only its own handle.
LEMMA SoleOrderly ==
    ASSUME IInv, NEW f \in Files, Quiet(f), UNCHANGED queue, Stands(f), Orders(f),
           pc[f] \notin {"asleep", "release"},
           pc' = pc \/ \E x : x # "asleep" /\ pc' = [pc EXCEPT ![f] = x]
    PROVE  Tidy(Owner[f])' /\ HeadHeld(Owner[f])'
  <1>1. TypeOK /\ pc \in [Files -> Pc]
    BY DEF IInv, TypeOK
  <1>2. pc'[f] # "asleep" /\ \A g \in Files : g # f => pc'[g] = pc[g]
    BY <1>1
  <1>3. Signalled(f, 0)
    BY <1>1, <1>2, StillSignals
  <1> QED
    BY <1>1, <1>3, StillOrderly DEF Orders

LEMMA UsingOrderly ==
    ASSUME IInv, NEW f \in Files, Quiet(f), Orders(f), Using(f), ~Close(f)
    PROVE  Tidy(Owner[f])' /\ HeadHeld(Owner[f])'
  <1>0. TypeOK /\ Mine(f) /\ Owner[f] \in Procs /\ inode \in [Procs -> Inode]
    BY DEF IInv, TypeOK
  <1>1. CASE Open(f)
    <2>1. UNCHANGED <<queue, pc>> /\ pc[f] = "idle"
          /\ inode' = [inode EXCEPT ![Owner[f]].nUnused = MayTakeOver(@)]
      BY <1>0, <1>1 DEF Open, Mine
    <2>2. inode'[Owner[f]].eFileLock = inode[Owner[f]].eFileLock
          /\ inode'[Owner[f]].nShared = inode[Owner[f]].nShared
      BY <1>0, <2>1 DEF Inode
    <2> QED
      BY <2>1, <2>2, SameStands, SoleOrderly
  <1>2. CASE BeginRead(f) \/ BeginWrite(f) \/ Upgrade(f) \/ Commit(f) \/ Fail(f)
    <2>1. /\ pc[f] = "idle" /\ UNCHANGED <<queue, inode>>
          /\ pc' = pc \/ pc' = [pc EXCEPT ![f] = "backoff"]
      BY <1>2 DEF BeginRead, BeginWrite, Begin, Upgrade, Commit, Go, Fail
    <2> QED
      BY <2>1, SameStands, SoleOrderly
  <1> QED
    BY <1>1, <1>2 DEF Using

\* Closing a handle does not reach an entry: its own thread does not sleep.
LEMMA CloseOrderly ==
    ASSUME IInv, IInv', NEW f \in Files, Quiet(f), Orders(f), Close(f)
    PROVE  Tidy(Owner[f])' /\ HeadHeld(Owner[f])'
  <1> DEFINE p == Owner[f]
             q == queue[p]
             r == queue'[p]
  <1>0. TypeOK /\ p \in Procs /\ inode \in [Procs -> Inode] /\ queue \in [Procs -> Seq(WaitInfo)]
        /\ q \in Seq(WaitInfo)
    BY DEF IInv, TypeOK
  <1>1. UNCHANGED <<pc, fileLock>> /\ pc[f] = "idle"
    BY DEF Close
  <1>2. CASE r = <<>>
    <2>1. DOMAIN <<>> = {}
      BY <1>0
    <2> QED
      BY <1>2, <2>1 DEF Tidy, HeadHeld
  <1>3. CASE r # <<>>
    <2>1. \A i \in DOMAIN q : q[i].file # f
      BY <1>1 DEF Orders, Tidy, Fits
    <2>2. /\ DOMAIN r = DOMAIN q /\ \A i \in DOMAIN q : r[i] = q[i]
          /\ ~ \A g \in HandlesOf(p) : isOpen[g] => g = f
      <3>1. DOMAIN r = DOMAIN q /\ \A i \in DOMAIN q : r[i] = q[i]
        BY <1>0, <1>3, <2>1, CloseIs
      <3>2. ASSUME \A g \in HandlesOf(p) : isOpen[g] => g = f
            PROVE  FALSE
        <4>1. queue' = [queue EXCEPT ![p] = <<>>]
          BY <3>2 DEF Close
        <4> QED
          BY <1>0, <1>3, <4>1
      <3> QED
        BY <3>1, <3>2
    <2>3. Tidy(p)'
      BY <1>1, <2>2 DEF Orders, Tidy, Fits
    <2>4. /\ inode'[p].eFileLock = inode[p].eFileLock
          /\ inode'[p].nShared = inode[p].nShared
      <3>1. \/ inode' = [inode EXCEPT ![p] = OneMoreUnused(inode[p])]
            \/ inode' = inode
        BY <1>0, <2>2 DEF Close
      <3> QED
        BY <1>0, <3>1, OneMoreUnusedIs
    <2>5. ASSUME NoneReleasing(p)'
          PROVE  StillWaits(inode'[p], r[1], fileLock'[r[1].file])
      <3>1. NoneReleasing(p)
        BY <1>1, <2>5 DEF NoneReleasing
      <3>2. q # <<>> /\ 1 \in DOMAIN q /\ r[1] = q[1]
        <4>2. r \in Seq(WaitInfo)
          BY <1>0 DEF IInv, TypeOK
        <4>3. 1 \in DOMAIN r
          BY <1>3, <4>2, EntryOf
        <4>4. DOMAIN <<>> = {}
          BY <1>0
        <4> QED
          BY <2>2, <4>3, <4>4
      <3>3. StillWaits(inode[p], q[1], fileLock[q[1].file])
        BY <3>1, <3>2 DEF Orders, HeadHeld
      <3> QED
        BY <1>1, <2>4, <3>2, <3>3 DEF StillWaits, Precludes
    <2> QED
      BY <2>3, <2>5 DEF HeadHeld
  <1> QED
    BY <1>2, <1>3

\* A handle that another one of the process keeps out queues up, or wakes whom it would
\* wait for and who would wait for it: then the first has PENDING, and keeps out the next.
LEMMA PrecludedOrderly ==
    ASSUME IInv, IInv', NEW f \in Files, Quiet(f), Orders(f), Precluded(f)
    PROVE  Tidy(Owner[f])' /\ HeadHeld(Owner[f])'
  <1> DEFINE p == Owner[f]
             q == queue[p]
             l == Wanted(f)
  <1>0. /\ TypeOK /\ Mine(f) /\ p \in Procs /\ f \in HandlesOf(p) /\ HandlesOf(p) \subseteq Files
        /\ inode[p].eFileLock \in Level /\ l \in Level /\ "shared" \in {"shared", "exclusive"}
    BY DEF IInv, TypeOK, Inode, HandlesOf, Wanted
  <1>1. /\ pc[f] = "idle" /\ Precludes(inode[p], fileLock[f], l)
        /\ WaitOrReturn(f, l, "shared") /\ UNCHANGED <<fileLock, inode>>
    BY DEF Precluded, Attempts
  <1>2. Stands(f)
    BY <1>1, SameStands
  <1>3. MayWait(f) => l # EXCLUSIVE_LOCK
    <2> SUFFICES ASSUME MayWait(f), l = EXCLUSIVE_LOCK PROVE FALSE
      OBVIOUS
    <2>1. op[f] = "commit"
      BY DEF MayWait, Wanted
    <2>2. fileLock[f] >= RESERVED_LOCK /\ Counted(f) = fileLock[f] /\ fileLock[f] \in Level
      BY <1>0, <1>1, <2>1, CountedIs DEF Mine, TypeOK
    <2>3. PICK g \in HandlesOf(p) : Counted(g) = inode[p].eFileLock
      BY <1>0, <2>2 DEF IInv, Tops
    <2>4. inode[p].eFileLock > SHARED_LOCK
      BY <1>0, <2>2 DEF IInv, Tops
    <2>5. g = f
      BY <1>0, <2>2, <2>3, <2>4 DEF IInv, AboveOne, HandlesOf
    <2> QED
      BY <1>1, <2>2, <2>3, <2>5 DEF Precludes
  <1>4. \/ Signalled(f, 0) /\ UNCHANGED queue
        \/ /\ MayWait(f) /\ q # <<>> /\ Clash(l, Head(q))
           /\ Signalled(f, 1)
        \/ MayWait(f) /\ Enqueued(f, l, "shared")
    BY <1>0, <1>1, WaitOrReturnIs
  <1>5. CASE Signalled(f, 0) /\ UNCHANGED queue
    BY <1>0, <1>1, <1>2, <1>5, StillOrderly DEF Orders
  <1>6. CASE MayWait(f) /\ q # <<>> /\ Clash(l, Head(q)) /\ Signalled(f, 1)
    <2>1. 1 \in DOMAIN q /\ Head(q) = q[1] /\ q[1] \in WaitInfo
      BY <1>0, <1>6, HeadIs
    <2>2. PICK h \in WaitInfo : h = q[1]
      BY <2>1
    <2>3. Fits(h) /\ h.file \in Files /\ Owner[h.file] = p /\ h.eFlag \in {"shared", "exclusive"}
      BY <2>1, <2>2 DEF Orders, Tidy, QueueOwned, WaitInfo
    <2>4. h.eFileLock = EXCLUSIVE_LOCK
      BY <1>3, <1>6, <2>1, <2>2 DEF Clash
    <2>5. fileLock[h.file] = PENDING_LOCK /\ pc[h.file] = "asleep"
      BY <2>3, <2>4 DEF Fits
    <2>6. PICK k \in Files : k = h.file
      BY <2>3
    <2>7. Counted(k) = PENDING_LOCK /\ k # f /\ k \in HandlesOf(p)
      BY <1>1, <2>3, <2>5, <2>6, CountedIs DEF HandlesOf
    <2>8. Counted(k)' = PENDING_LOCK
      BY <2>7, OthersKeep
    <2>9. \A i \in DOMAIN q : i \notin 1 .. 1 => q[i].file # k
      BY <2>1, <2>2, <2>6 DEF Orders, Tidy
    <2>10. pc[f] # "asleep" /\ Counted(k)' >= PENDING_LOCK
      BY <1>1, <2>8
    <2> QED
      BY <1>6, <2>7, <2>9, <2>10, KeptOrderly DEF Orders
  <1>7. CASE MayWait(f) /\ Enqueued(f, l, "shared")
    <2>1. StillWaits(inode'[p], NewEntry(f, l, "shared"), fileLock'[f])
      BY <1>1 DEF StillWaits, NewEntry
    <2>2. "shared" # "exclusive" /\ l # EXCLUSIVE_LOCK
      BY <1>3, <1>7
    <2> HIDE DEF l
    <2> QED
      BY <1>0, <1>1, <1>2, <1>7, <2>1, <2>2, EnqueuedOrderly DEF Orders
  <1> QED
    BY <1>4, <1>5, <1>6, <1>7

\* To reserve is to pass from SHARED, where waiters wait for what the reserver now has.
LEMMA ReserveOrderly ==
    ASSUME IInv, NEW f \in Files, Quiet(f), Orders(f), Reserve(f)
    PROVE  Tidy(Owner[f])' /\ HeadHeld(Owner[f])'
  <1> DEFINE p == Owner[f]
  <1>0. /\ TypeOK /\ p \in Procs /\ inode[p].eFileLock \in Level /\ fileLock[f] \in Level
    BY DEF IInv, TypeOK, Inode
  <1>1. /\ pc[f] = "idle" /\ fileLock[f] < RESERVED_LOCK /\ UNCHANGED queue
        /\ ~Precludes(inode[p], fileLock[f], RESERVED_LOCK)
    BY DEF Reserve, Admitted, Attempts
  <1>2. pc' = pc \/ (pc' = [pc EXCEPT ![f] = AfterBusy(f)] /\ AfterBusy(f) # "asleep")
    BY AfterBusyPlace DEF Reserve
  <1>3. Stands(f)
    <2>1. CASE UNCHANGED inode
      BY <2>1, SameStands
    <2>2. CASE inode' = [inode EXCEPT ![p].eFileLock = RESERVED_LOCK]
      <3>1. RESERVED_LOCK \in Level
        OBVIOUS
      <3>2. inode'[p].eFileLock = RESERVED_LOCK /\ inode'[p].nShared = inode[p].nShared
        BY <1>0, <2>2, <3>1, LevelSet
      <3>3. inode[p].eFileLock = fileLock[f] /\ inode[p].eFileLock <= SHARED_LOCK
        BY <1>0, <1>1 DEF Precludes
      <3> SUFFICES ASSUME NEW e \in WaitInfo, Fits(e), e.file # f, Owner[e.file] = p,
                          StillWaits(inode[p], e, fileLock[e.file])
                   PROVE  StillWaits(inode'[p], e, fileLock'[e.file])
        BY DEF Stands
      <3>4. e.file \in Files /\ fileLock'[e.file] = fileLock[e.file]
        BY DEF Quiet, WaitInfo
      <3>5. Counted(e.file) = fileLock[e.file] /\ fileLock[e.file] \in Level
        BY <1>0, <3>4, CountedIs DEF Fits, TypeOK
      <3>6. fileLock[e.file] <= SHARED_LOCK
        BY <1>0, <3>3, <3>4, <3>5 DEF IInv, Tops, HandlesOf
      <3>7. fileLock[e.file] # RESERVED_LOCK /\ ~(inode[p].eFileLock >= PENDING_LOCK)
        BY <1>0, <3>3, <3>5, <3>6
      <3> QED
        BY <3>2, <3>4, <3>7 DEF StillWaits, Precludes
    <2> QED
      BY <2>1, <2>2 DEF Reserve
  <1> QED
    BY <1>1, <1>2, <1>3, SoleOrderly

LEMMA ExclusiveRangeOrderly ==
    ASSUME IInv, IInv', NEW f \in Files, Quiet(f), Orders(f), ExclusiveRange(f)
    PROVE  Tidy(Owner[f])' /\ HeadHeld(Owner[f])'
  <1> DEFINE p == Owner[f]
             q == queue[p]
             alone == Alone(inode[p])
             reached == IF alone /\ MayWrite(p, "shared") THEN EXCLUSIVE_LOCK ELSE PENDING_LOCK
  <1>0. /\ TypeOK /\ TypeOK' /\ Mine(f) /\ p \in Procs /\ f \in HandlesOf(p)
        /\ inode[p] \in Inode
    BY DEF IInv, TypeOK, HandlesOf
  <1>1. pc[f] \in {"idle", "exclusive"} /\ fileLock[f] # NO_LOCK
    <2>1. CASE pc[f] = "exclusive"
      BY <1>0, <2>1 DEF Mine
    <2>2. CASE Admitted(f, EXCLUSIVE_LOCK) /\ fileLock[f] = PENDING_LOCK
      BY <2>2 DEF Admitted, Attempts
    <2> QED
      BY <2>1, <2>2 DEF ExclusiveRange
  <1>2. /\ fileLock' = [fileLock EXCEPT ![f] = reached]
        /\ inode' = [inode EXCEPT ![p].eFileLock = reached]
    BY DEF ExclusiveRange
  <1>3. reached \in {PENDING_LOCK, EXCLUSIVE_LOCK} /\ reached \in Level
    OBVIOUS
  <1>4. fileLock'[f] = reached /\ inode'[p].nShared = inode[p].nShared
    <2> HIDE DEF reached
    <2> QED
      BY <1>0, <1>2, <1>3, LevelSet DEF TypeOK
  <1>5. \A i \in DOMAIN q : q[i].file # f
    BY <1>1 DEF Orders, Tidy, Fits
  <1>6. ASSUME NEW n, Signalled(f, n), pc'[f] \in {"idle", "backoff"}
        PROVE  Tidy(p)' /\ HeadHeld(p)'
    <2>1. Counted(f)' = reached
      BY <1>4, <1>6, CountedIs
    <2>2. Counted(f)' >= PENDING_LOCK
      BY <1>3, <2>1
    <2> QED
      BY <1>0, <1>1, <1>5, <1>6, <2>2, KeptOrderly DEF Orders
  <1>7. ASSUME UNCHANGED queue, NEW x \in {"idle", "backoff"}, pc' = [pc EXCEPT ![f] = x]
        PROVE  Tidy(p)' /\ HeadHeld(p)'
    <2>1. pc'[f] = x /\ \A g \in Files : g # f => pc'[g] = pc[g]
      BY <1>0, <1>7 DEF TypeOK
    <2>2. Signalled(f, 0)
      BY <1>0, <1>7, <2>1, StillSignals
    <2> QED
      BY <1>6, <2>1, <2>2
  <1>8. CASE ~alone /\ WaitOrReturn(f, EXCLUSIVE_LOCK, "exclusive")
    <2>0. EXCLUSIVE_LOCK \in Level /\ "exclusive" \in {"shared", "exclusive"}
      OBVIOUS
    <2>1. \/ \E n : Signalled(f, n)
          \/ MayWait(f) /\ Enqueued(f, EXCLUSIVE_LOCK, "exclusive")
      BY <1>0, <1>8, <2>0, WaitOrReturnIs
    <2>2. pc'[f] = AfterBusy(f) \/ pc'[f] = "asleep"
      BY <1>0, <1>8, <2>0, WaitOrReturnKeeps
    <2>3. CASE \E n : Signalled(f, n)
      <3>1. PICK n : Signalled(f, n)
        BY <2>3
      <3>2. pc'[f] # "asleep"
        BY <3>1 DEF Signalled
      <3>3. pc'[f] \in {"idle", "backoff"}
        BY <2>2, <3>2, AfterBusyPlace
      <3> QED
        BY <1>6, <3>1, <3>3
    <2>4. CASE Enqueued(f, EXCLUSIVE_LOCK, "exclusive")
      <3>1. reached = PENDING_LOCK /\ fileLock'[f] = PENDING_LOCK
        BY <1>4, <1>8
      <3>2. inode[p].nShared > 1
        <4>1. Counted(f) # NO_LOCK
          BY <1>1, CountedIs
        <4>2. inode[p].nShared = Cardinality(Readers(p)) /\ IsFiniteSet(Readers(p))
              /\ f \in Readers(p)
          BY <1>0, <4>1, ReadersFinite DEF IInv, Counts, Readers
        <4>3. Cardinality(Readers(p)) # 0 /\ Cardinality(Readers(p)) \in Nat
          BY <4>2, FS_EmptySet, FS_CardinalityType
        <4> QED
          BY <1>8, <4>2, <4>3 DEF Alone
      <3>3. Stands(f)
        <4> SUFFICES ASSUME NEW e \in WaitInfo, Fits(e), e.file # f, Owner[e.file] = p
                     PROVE  StillWaits(inode'[p], e, fileLock'[e.file])
          BY DEF Stands
        <4>1. pc'[e.file] = "asleep" /\ fileLock'[e.file] = fileLock[e.file]
          BY <1>0, <2>4 DEF Enqueued, Fits, Quiet, WaitInfo, TypeOK
        <4>2. Fits(e)'
          BY <4>1 DEF Fits
        <4>3. AllKeptOut'
          BY PendingKeepsOut, PTL
        <4>4. KeptOut(f, e)'
          BY <4>3 DEF AllKeptOut
        <4>5. pc'[f] = "asleep"
          BY <1>0, <2>4 DEF Enqueued, TypeOK
        <4>6. Counted(f)' = PENDING_LOCK
          BY <3>1, <4>5, CountedIs
        <4> QED
          BY <4>2, <4>4, <4>6 DEF KeptOut
      <3>4. StillWaits(inode'[p], NewEntry(f, EXCLUSIVE_LOCK, "exclusive"), fileLock'[f])
        BY <1>4, <3>2 DEF StillWaits, NewEntry
      <3>5. pc[f] \notin {"asleep", "release"} /\ "exclusive" # "shared"
        BY <1>1
      <3> HIDE DEF reached
      <3> QED
        BY <1>0, <2>4, <3>1, <3>3, <3>4, <3>5, EnqueuedOrderly DEF Orders
    <2> QED
      BY <2>1, <2>3, <2>4
  <1>9. CASE ~(~alone /\ WaitOrReturn(f, EXCLUSIVE_LOCK, "exclusive"))
    <2>1. UNCHANGED queue /\ \E x \in {"idle", AfterBusy(f)} : pc' = [pc EXCEPT ![f] = x]
      BY <1>9 DEF ExclusiveRange
    <2> QED
      BY <1>7, <2>1, AfterBusyPlace
  <1> QED
    BY <1>8, <1>9

LEMMA LockingOrderly ==
    ASSUME IInv, IInv', NEW f \in Files, Quiet(f), Orders(f), Locking(f)
    PROVE  Tidy(Owner[f])' /\ HeadHeld(Owner[f])'
  <1> DEFINE p == Owner[f]
  <1>0. /\ TypeOK /\ Inside(f) /\ p \in Procs /\ inode \in [Procs -> Inode] /\ inode[p] \in Inode
    BY DEF IInv, TypeOK
  <1>1. CASE ShareInProcess(f)
    <2>1. /\ pc[f] = "idle" /\ UNCHANGED <<queue, pc>>
          /\ inode' = [inode EXCEPT ![p] = CountedIn(inode[p])]
      BY <1>0, <1>1 DEF ShareInProcess, Admitted, Attempts
    <2>2. inode'[p].eFileLock = inode[p].eFileLock /\ inode'[p].nShared = inode[p].nShared + 1
      BY <1>0, <2>1, CountedInIs
    <2>3. inode[p].nShared \in Nat
      BY <1>0 DEF Inode
    <2>4. Stands(f)
      <3> SUFFICES ASSUME NEW e \in WaitInfo, e.file # f,
                          StillWaits(inode[p], e, fileLock[e.file])
                   PROVE  StillWaits(inode'[p], e, fileLock'[e.file])
        BY DEF Stands
      <3>1. fileLock'[e.file] = fileLock[e.file]
        BY DEF Quiet, WaitInfo
      <3>2. inode[p].nShared > 1 => inode'[p].nShared > 1
        BY <2>2, <2>3
      <3> QED
        BY <2>2, <3>1, <3>2 DEF StillWaits, Precludes
    <2> QED
      BY <2>1, <2>4, SoleOrderly
  <1>2. CASE PendingByte(f)
    <2>1. /\ pc[f] = "idle" /\ UNCHANGED <<queue, inode>>
          /\ \E x \in {"shared", "exclusive", AfterBusy(f)} : pc' = [pc EXCEPT ![f] = x]
      BY <1>2 DEF PendingByte, Admitted, Attempts
    <2> QED
      BY <2>1, AfterBusyPlace, SameStands, SoleOrderly
  <1>3. CASE SharedRange(f)
    <2>1. /\ pc[f] = "shared" /\ UNCHANGED <<queue, inode>>
          /\ \E x \in {"drop", "dropBusy"} : pc' = [pc EXCEPT ![f] = x]
      BY <1>3 DEF SharedRange
    <2> QED
      BY <2>1, SameStands, SoleOrderly
  <1>4. CASE DropPendingBusy(f)
    <2>1. /\ pc[f] = "dropBusy" /\ UNCHANGED <<queue, inode>>
          /\ pc' = [pc EXCEPT ![f] = AfterBusy(f)] /\ AfterBusy(f) # "asleep"
      BY <1>4, AfterBusyPlace DEF DropPendingBusy
    <2> QED
      BY <2>1, SameStands, SoleOrderly
  <1>5. CASE DropPending(f)
    <2>1. pc[f] = "drop" /\ UNCHANGED queue /\ pc' = [pc EXCEPT ![f] = "idle"]
      BY <1>5 DEF DropPending
    <2>2. inode[p].eFileLock = NO_LOCK
      BY <1>0, <2>1 DEF Inside
    <2>3. \A g \in HandlesOf(p) : Counted(g) = NO_LOCK
      BY <1>0, <2>2, NoneCounted
    <2>4. inode[p].nShared = 0
      <3>1. Readers(p) = {}
        BY <2>3 DEF Readers
      <3> QED
        BY <1>0, <3>1, FS_EmptySet DEF IInv, Counts
    <2>5. Stands(f)
      <3> SUFFICES ASSUME NEW e \in WaitInfo, Fits(e), Owner[e.file] = p,
                          StillWaits(inode[p], e, fileLock[e.file])
                   PROVE  FALSE
        BY DEF Stands
      <3>1. Counted(e.file) = fileLock[e.file] /\ e.file \in HandlesOf(p)
        BY CountedIs DEF Fits, HandlesOf, WaitInfo
      <3> QED
        BY <2>2, <2>3, <2>4, <3>1 DEF StillWaits, Precludes
    <2> QED
      BY <2>1, <2>5, SoleOrderly
  <1> QED
    BY <1>1, <1>2, <1>3, <1>4, <1>5, PrecludedOrderly, ReserveOrderly, ExclusiveRangeOrderly
       DEF Locking

LEMMA UnlockingOrderly ==
    ASSUME IInv, NEW f \in Files, Quiet(f), Orders(f), Unlocking(f)
    PROVE  Tidy(Owner[f])' /\ HeadHeld(Owner[f])'
  <1> DEFINE p == Owner[f]
             q == queue[p]
  <1>0. /\ TypeOK /\ Mine(f) /\ p \in Procs /\ f \in HandlesOf(p)
        /\ inode \in [Procs -> Inode] /\ pc \in [Files -> Pc]
    BY DEF IInv, TypeOK, HandlesOf
  <1>1. ASSUME NEW t \in {NO_LOCK, SHARED_LOCK}, UnlocksTo(f, t)
        PROVE  pc[f] \in {"idle", "backoff"}
    BY <1>0, <1>1, UnlocksToIs
  <1>2. CASE Downgrade(f)
    <2>1. UNCHANGED <<queue, inode>> /\ pc' = [pc EXCEPT ![f] = "clear"]
          /\ UnlocksTo(f, SHARED_LOCK)
      BY <1>2 DEF Downgrade
    <2> QED
      BY <1>1, <2>1, SameStands, SoleOrderly
  <1>3. CASE Leave(f)
    <2>1. pc[f] = "leave" /\ UNCHANGED <<queue, inode>> /\ pc' = [pc EXCEPT ![f] = "idle"]
      BY <1>3 DEF Leave
    <2> QED
      BY <2>1, SameStands, SoleOrderly
  <1>4. CASE ClearBytes(f)
    <2>1. pc[f] \in {"idle", "backoff", "clear"} /\ UNCHANGED fileLock
      BY <1>1, <1>4 DEF ClearBytes
    <2>2. CASE target'[f] = SHARED_LOCK
      <3>1. inode'[p] = [inode[p] EXCEPT !.eFileLock = SHARED_LOCK]
        BY <1>0, <1>4 DEF ClearBytes
      <3>2. TrySignal(p, inode'[p], f, "leave")
        BY <1>4, <2>2, <3>1 DEF ClearBytes
      <3> QED
        BY <1>0, <2>1, <3>2, TryOrderly DEF Orders
    <2>3. CASE target'[f] # SHARED_LOCK
      <3>1. UNCHANGED queue /\ pc' = [pc EXCEPT ![f] = "release"]
        BY <1>4, <2>3 DEF ClearBytes
      <3>2. pc'[f] = "release" /\ \A g \in Files : g # f => pc'[g] = pc[g]
        BY <1>0, <3>1
      <3>3. Signalled(f, 0)
        BY <1>0, <3>1, <3>2, StillSignals
      <3>4. Tidy(p)'
        BY <1>0, <2>1, <3>3, SignalledTidy DEF Orders
      <3>5. ~NoneReleasing(p)'
        BY <1>0, <3>2 DEF NoneReleasing
      <3> QED
        BY <3>4, <3>5 DEF HeadHeld
    <2> QED
      BY <2>2, <2>3
  <1>5. CASE Release(f)
    <2>1. pc[f] \in {"idle", "backoff", "release"} /\ UNCHANGED fileLock
      BY <1>1, <1>5 DEF Release
    <2>2. TrySignal(p, inode'[p], f, "leave")
      BY <1>0, <1>5 DEF Release
    <2> QED
      BY <1>0, <2>1, <2>2, TryOrderly DEF Orders
  <1> QED
    BY <1>2, <1>3, <1>4, <1>5 DEF Unlocking

\* The sleepers of other processes sleep on.
LEMMA OthersSleepOn ==
    ASSUME IInv, AllOwned, NEW f \in Files, Using(f) \/ Locking(f) \/ Unlocking(f)
    PROVE  \A g \in Files : Owner[g] # Owner[f] => pc'[g] = pc[g]
  <1> DEFINE p == Owner[f]
             q == queue[p]
  <1> SUFFICES ASSUME NEW g \in Files, Owner[g] # p
               PROVE  pc'[g] = pc[g]
    OBVIOUS
  <1>0. /\ TypeOK /\ p \in Procs /\ g # f /\ Len(q) \in Nat /\ DOMAIN q = 1 .. Len(q)
    <2>1. TypeOK /\ p \in Procs /\ q \in Seq(WaitInfo)
      BY DEF IInv, TypeOK
    <2> QED
      BY <2>1, EntryOf
  <1>1. CASE Close(f)
    BY <1>1 DEF Close
  <1>2. CASE ~Close(f)
    <2>1. \/ \E n \in 0 .. Len(q) : Signalled(f, n)
          \/ \E l, flag : Enqueued(f, l, flag)
      BY <1>2, Classes
    <2>2. ASSUME NEW n \in 0 .. Len(q), Signalled(f, n)
          PROVE  pc'[g] = pc[g]
      <3>1. \A i \in 1 .. n : i \in DOMAIN q
        BY <1>0
      <3>2. ~ \E i \in 1 .. n : q[i].file = g
        BY <1>0, <3>1 DEF AllOwned, QueueOwned
      <3> QED
        BY <1>0, <2>2, <3>2 DEF Signalled
    <2>3. ASSUME NEW l, NEW flag, Enqueued(f, l, flag)
          PROVE  pc'[g] = pc[g]
      BY <1>0, <2>3 DEF Enqueued, TypeOK
    <2> QED
      BY <2>1, <2>2, <2>3
  <1> QED
    BY <1>1, <1>2

\* A process whose handles, record and queue stay as they are.
LEMMA UntouchedOrderly ==
    ASSUME IInv, AllOwned, NEW p \in Procs, Orderly(p), p \notin late' => p \notin late,
           inode'[p] = inode[p], queue'[p] = queue[p],
           \A g \in HandlesOf(p) : pc'[g] = pc[g] /\ fileLock'[g] = fileLock[g]
    PROVE  Orderly(p)'
  <1> SUFFICES ASSUME p \notin late, Tidy(p), HeadHeld(p)
               PROVE  Tidy(p)' /\ HeadHeld(p)'
    BY DEF Orderly
  <1> DEFINE q == queue[p]
  <1>0. /\ q \in Seq(WaitInfo)
        /\ \A i \in DOMAIN q : q[i].file \in HandlesOf(p)
    <2>1. q \in Seq(WaitInfo)
      BY DEF IInv, TypeOK
    <2> QED
      BY <2>1, EntryOf DEF AllOwned, QueueOwned, HandlesOf
  <1>1. \A i \in DOMAIN q : pc'[q[i].file] = pc[q[i].file]
                            /\ fileLock'[q[i].file] = fileLock[q[i].file]
    BY <1>0
  <1>2. Tidy(p)'
    BY <1>1 DEF Tidy, Fits
  <1>3. NoneReleasing(p)' => NoneReleasing(p)
    BY DEF NoneReleasing
  <1>4. q # <<>> => 1 \in DOMAIN q
    BY <1>0, EntryOf
  <1>5. HeadHeld(p)'
    BY <1>1, <1>3, <1>4 DEF HeadHeld
  <1> QED
    BY <1>2, <1>5

LEMMA NextOrderly == IInv /\ AllOwned /\ AllOrderly /\ [Next]_vars => AllOrderly'
  <1> SUFFICES ASSUME IInv, AllOwned, AllOrderly, [Next]_vars
               PROVE  AllOrderly'
    OBVIOUS
  <1>0. TypeOK /\ IInv'
    BY NextIInv DEF IInv
  <1>1. ASSUME NEW f \in Files, Using(f) \/ Locking(f) \/ Unlocking(f), UNCHANGED late
        PROVE  AllOrderly'
    <2> DEFINE p == Owner[f]
    <2>0. p \in Procs /\ Quiet(f)
      BY <1>1, OtherProcesses
    <2>1. ASSUME NEW q \in Procs, q # p
          PROVE  Orderly(q)'
      <3>1. inode'[q] = inode[q] /\ queue'[q] = queue[q]
        BY <1>0, <1>1, <2>1, OtherRecords, EntriesFrom
      <3>2. \A g \in HandlesOf(q) : pc'[g] = pc[g] /\ fileLock'[g] = fileLock[g]
        BY <1>1, <2>0, <2>1, OthersSleepOn DEF HandlesOf, Quiet
      <3> QED
        BY <1>1, <3>1, <3>2, UntouchedOrderly DEF AllOrderly
    <2>2. Orderly(p)'
      <3> SUFFICES ASSUME p \notin late
                   PROVE  Tidy(p)' /\ HeadHeld(p)'
        BY <1>1 DEF Orderly
      <3>1. Orders(f)
        BY <2>0 DEF Orders, AllOwned, AllOrderly, Orderly
      <3> QED
        BY <1>0, <1>1, <2>0, <3>1, UsingOrderly, CloseOrderly, LockingOrderly, UnlockingOrderly
    <2> QED
      BY <2>1, <2>2 DEF AllOrderly
  <1>2. ASSUME NEW f \in Files, Timeout(f) PROVE AllOrderly'
    <2>1. UNCHANGED <<inode, queue, fileLock>> /\ late' = late \cup {Owner[f]}
          /\ \A g \in Files : g # f => pc'[g] = pc[g]
      BY <1>0, <1>2 DEF Timeout, TypeOK
    <2>2. ASSUME NEW q \in Procs, q # Owner[f] PROVE Orderly(q)'
      BY <2>1, <2>2, UntouchedOrderly DEF AllOrderly, HandlesOf
    <2>3. Orderly(Owner[f])'
      BY <2>1 DEF Orderly
    <2> QED
      BY <2>2, <2>3 DEF AllOrderly
  <1>3. ASSUME NEW p \in Procs, Crash(p) PROVE AllOrderly'
    <2>1. ASSUME NEW q \in Procs, q # p PROVE Orderly(q)'
      <3>1. inode'[q] = inode[q] /\ queue'[q] = queue[q] /\ (q \notin late' => q \notin late)
        BY <1>0, <1>3, <2>1 DEF Crash, TypeOK
      <3>2. \A g \in HandlesOf(q) : pc'[g] = pc[g] /\ fileLock'[g] = fileLock[g]
        BY <1>3, <2>1 DEF Crash, HandlesOf
      <3> QED
        BY <3>1, <3>2, UntouchedOrderly DEF AllOrderly
    <2>2. Orderly(p)'
      <3>1. queue'[p] = <<>>
        BY <1>0, <1>3 DEF Crash, TypeOK
      <3>2. DOMAIN <<>> = {}
        BY <1>0
      <3> QED
        BY <3>1, <3>2 DEF Orderly, Tidy, HeadHeld
    <2> QED
      BY <2>1, <2>2 DEF AllOrderly
  <1>4. CASE UNCHANGED vars
    BY <1>4 DEF vars, AllOrderly, Orderly, Tidy, Fits, HeadHeld, NoneReleasing
  <1> QED
    BY <1>1, <1>2, <1>3, <1>4 DEF Next

\* While no wait of a process has timed out and nobody is inside, the thread that waits
\* first waits for a lock it cannot have yet: a signal was neither lost nor spent on
\* another (WCDBOsTrySignal, os_wcdb.c:59-94).
THEOREM HeadAlwaysWaits == Spec => []HeadWaits
  <1>1. Init => AllOrderly
    BY DEF Init, AllOrderly, Orderly, Tidy, HeadHeld
  <1>2. IInv /\ AllOrderly => HeadWaits
    <2> SUFFICES ASSUME IInv, AllOrderly, NEW p \in Procs, p \notin late, MutexFree(p),
                        queue[p] # <<>>
                 PROVE  StillWaits(inode[p], Head(queue[p]), fileLock[Head(queue[p]).file])
      BY DEF HeadWaits
    <2>1. Head(queue[p]) = queue[p][1]
      BY HeadIs DEF IInv
    <2>2. NoneReleasing(p)
      BY DEF MutexFree, HoldsMutex, NoneReleasing
    <2> QED
      BY <2>1, <2>2 DEF AllOrderly, Orderly, HeadHeld
  <1> QED
    BY <1>1, <1>2, NextOrderly, Invariance, OwnedAlways, PTL DEF Spec
=============================================================================
