----------------------------- MODULE WalProofs ------------------------------
(***************************************************************************)
(* Proofs about Wal, for any connections, pages, slots and bounds: no      *)
(* checkpoint overtakes a transaction that reads the log and nobody begins *)
(* the log anew under it, provided that only the sole writer checkpoints   *)
(* in mode PASSIVE.                                                        *)
(***************************************************************************)
EXTENDS Wal, FiniteSetTheorems, WellFoundedInduction, TLAPS

\* A handle checkpoints in mode PASSIVE only if no other handle writes.
OwnPassive == \A h \in Checkpointers : "PASSIVE" \in Modes[h] => Writers \subseteq {h}

(***************************************************************************)
(* Numbers.                                                                *)
(***************************************************************************)
LEMMA LeastIs ==
    ASSUME NEW S \in SUBSET Nat, S # {}
    PROVE  Least(S) \in S /\ \A y \in S : Least(S) <= y
  <1> DEFINE T == {0 .. x : x \in S}
  <1>1. \A x \in S : 0 .. x \in FiniteSubsetsOf(Nat)
    BY FS_Interval DEF FiniteSubsetsOf
  <1>2. T \subseteq FiniteSubsetsOf(Nat) /\ T # {}
    BY <1>1
  <1>3. PICK t \in T : \A u \in T : ~(<<u, t>> \in StrictSubsetOrdering(Nat))
    BY <1>2, FS_StrictSubsetOrderingWellFounded, WFMin, Zenon
  <1>4. PICK x \in S : t = 0 .. x
    BY <1>3
  <1>5. ASSUME NEW y \in S PROVE x <= y
    <2> SUFFICES ASSUME y < x PROVE FALSE
      OBVIOUS
    <2>1. x \in 0 .. x /\ x \notin 0 .. y /\ 0 .. y \subseteq 0 .. x
      OBVIOUS
    <2>2. <<0 .. y, t>> \in StrictSubsetOrdering(Nat)
      BY <1>4, <2>1 DEF StrictSubsetOrdering
    <2> QED
      BY <1>3, <2>2
  <1>6. QED
    BY <1>5 DEF Least

LEMMA GreatestIs ==
    ASSUME NEW n \in Nat, NEW S \in SUBSET (0 .. n), S # {}
    PROVE  Greatest(S) \in S /\ \A y \in S : y <= Greatest(S)
  <1> DEFINE T == {n - x : x \in S}
  <1>0. \A x \in S : x \in 0 .. n /\ n - x \in Nat
    OBVIOUS
  <1>1. T \subseteq Nat /\ T # {}
    BY <1>0
  <1> HIDE DEF T
  <1>2. Least(T) \in T /\ \A y \in T : Least(T) <= y
    BY <1>1, LeastIs
  <1>3. PICK x \in S : Least(T) = n - x
    BY <1>2 DEF T
  <1>4. ASSUME NEW y \in S PROVE y <= x
    <2>1. n - y \in T
      BY DEF T
    <2>2. n - x <= n - y
      BY <1>2, <1>3, <2>1
    <2> QED
      BY <2>2
  <1>5. QED
    BY <1>4 DEF Greatest

USE RolesAssumption, ModesAssumption, BoundsAssumption
USE DEF Slots, NoSlot

(***************************************************************************)
(* The inductive invariant: the forms of the variables, and for each       *)
(* handle what the locks it has or lacks say about the header.             *)
(***************************************************************************)
IsHdr(x) == x \in [mx : Nat, salt : {x.salt}, at : {x.at}]

HandleForms ==
    /\ pc \in [Handles -> Places]
    /\ own = [h \in Handles |-> own[h]]
    /\ \A h \in Handles : IsHdr(own[h])
    /\ slot \in [Handles -> 0 .. NoSlot]
    /\ mark \in [Handles -> Nat]

SharedForms ==
    /\ shm \in [valid : BOOLEAN, hdr : {shm.hdr}, index : {shm.index}, nBackfill : Nat,
                mark : [Slots -> Nat]]
    /\ IsHdr(shm.hdr)
    /\ writer \in Handles \cup {Nobody}
    /\ todo \in [all : SUBSET Pages, left : SUBSET Pages] /\ todo.left \subseteq todo.all
    /\ ckpt \in [by : Handles \cup {Nobody}, mode : {"PASSIVE", "FULL", "RESTART", "TRUNCATE"},
                 next : Nat, upTo : Nat, left : {ckpt.left}]

Forms == HandleForms /\ SharedForms

Writes == {"restart", "begin", "frames", "index", "publish"}
Starts == {"hdr", "choose", "lock", "confirm"}
Copies == {"ckptHdr", "iterator", "slots", "copy", "drain"}

\* The writer works on the header that is published, until it begins a log.
Writing(h) ==
    /\ pc[h] \in Writes => writer = h
    /\ pc[h] = "reset" => writer = h
    /\ pc[h] = "begin" => own[h].mx = 0
    /\ writer = h =>
          IF ckpt.by = h THEN pc[h] \in Copies \cup {"reset"}
          ELSE /\ h \in Writers
               /\ pc[h] \in Writes \cup Starts \cup {"reset"}
               /\ own[h].mx = shm.hdr.mx
               /\ own[h] = shm.hdr \/ (own[h].mx = 0 /\ pc[h] \in {"frames", "index", "publish"})

\* A checkpoint has the writer's lock, or its handle is the only one that could:
\* the header it has read stays the one published.
Backfilling(h) ==
    /\ pc[h] \in Copies \cup {"ckptWrite"} => ckpt.by = h
    /\ ckpt.by = h =>
          /\ pc[h] \in Copies \cup {"ckptWrite", "reset"}
          /\ ckpt.mode = "PASSIVE" => Writers \subseteq {h} /\ pc[h] # "ckptWrite"
          /\ ckpt.mode # "PASSIVE" /\ pc[h] # "ckptWrite" => writer = h
          /\ pc[h] \in {"iterator", "slots", "copy", "drain"} => own[h] = shm.hdr
          /\ pc[h] \in {"slots", "copy"} => ckpt.upTo <= shm.hdr.mx
          /\ pc[h] = "slots" => ckpt.next > 0

\* A transaction that reads the log.
InLog(h) == Reading(h) /\ slot[h] \in Slots

\* The checkpoint copies no further than the snapshot of h, whose slot it has passed.
Spared(h) ==
    \A c \in Handles : (pc[c] = "slots" /\ slot[h] < ckpt.next) \/ pc[c] = "copy"
                           => ckpt.upTo <= own[h].mx

\* The mark of its slot is not past its snapshot, and protects it.
Protected(h) ==
    /\ pc[h] = "check0" => slot[h] = 0
    /\ pc[h] \in {"lock", "confirm"} => slot[h] \in Slots /\ mark[h] <= own[h].mx
    /\ InLog(h) =>
          /\ mark[h] = shm.mark[slot[h]] /\ mark[h] <= own[h].mx
          /\ shm.nBackfill <= own[h].mx /\ own[h].mx <= shm.hdr.mx
          /\ pc[h] = "read" /\ own[h].mx > 0 => own[h].salt = shm.hdr.salt
          /\ Spared(h)

\* While the log is begun anew nobody else uses a slot with a mark.
Alone == \A h, g \in Handles : pc[h] = "reset" /\ g # h /\ slot[g] \in Slots => pc[g] = "lock"

BackfillsHdr == shm.nBackfill <= shm.hdr.mx \/ Restarting

\* Without a wal-index nothing is under way.
Invalid == ~shm.valid => writer = Nobody /\ ckpt.by = Nobody /\ \A h \in Handles : pc[h] = "idle"

Safe ==
    /\ \A h \in Handles : Writing(h) /\ Backfilling(h) /\ Protected(h)
    /\ BackfillsHdr
    /\ Alone
    /\ Invalid

IInv == Forms /\ Safe

LEMMA InitIInv == Init => IInv
  <1> SUFFICES ASSUME Init PROVE IInv
    OBVIOUS
  <1> USE DEF Init
  <1>1. Forms
    <2>1. shm \in [valid : BOOLEAN, hdr : {shm.hdr}, index : {shm.index}, nBackfill : Nat,
                   mark : [Slots -> Nat]]
      BY DEF NotUsed
    <2>2. IsHdr(shm.hdr) /\ \A h \in Handles : own[h] = shm.hdr
      BY DEF IsHdr
    <2>3. own = [h \in Handles |-> own[h]] /\ \A h \in Handles : IsHdr(own[h])
      BY <2>2
    <2>4. ckpt \in [by : Handles \cup {Nobody}, mode : {"PASSIVE", "FULL", "RESTART", "TRUNCATE"},
                    next : Nat, upTo : Nat, left : {ckpt.left}]
      BY DEF NoCkpt
    <2>5. todo \in [all : SUBSET Pages, left : SUBSET Pages] /\ todo.left \subseteq todo.all
      BY DEF NoTodo
    <2>6. /\ pc \in [Handles -> Places]
          /\ slot \in [Handles -> 0 .. NoSlot]
          /\ mark \in [Handles -> Nat]
          /\ writer \in Handles \cup {Nobody}
      BY DEF Places
    <2> QED
      BY <2>1, <2>2, <2>3, <2>4, <2>5, <2>6 DEF Forms, HandleForms, SharedForms
  <1>2. /\ \A h \in Handles : pc[h] = "idle"
        /\ writer = Nobody /\ ckpt.by = Nobody
        /\ shm.nBackfill = 0 /\ shm.hdr.mx = 0 /\ shm.valid
    BY DEF NoCkpt
  <1>3. Safe
    BY <1>2 DEF Safe, Writing, Backfilling, Protected, InLog, Reading, BackfillsHdr, Alone,
                Invalid, Writes, Starts, Copies
  <1> QED
    BY <1>1, <1>3 DEF IInv

(***************************************************************************)
(* A step of one handle.                                                   *)
(***************************************************************************)
Others(h) ==
    \A g \in Handles \ {h} :
        pc'[g] = pc[g] /\ own'[g] = own[g] /\ slot'[g] = slot[g] /\ mark'[g] = mark[g]

\* The checkpoint is that of another handle still, or was not.
SameCkpt(h) == ckpt' = ckpt \/ ({ckpt.by, ckpt.by'} \subseteq {h, Nobody})
SameWriter(h) == writer' = writer \/ ({writer, writer'} \subseteq {h, Nobody})

\* What the step owes another transaction that reads the log.
Spares(h, g) ==
    /\ shm'.mark[slot[g]] = shm.mark[slot[g]]
    /\ shm'.nBackfill <= own[g].mx
    /\ pc'[h] = "slots" /\ slot[g] < ckpt'.next => ckpt'.upTo <= own[g].mx
    /\ pc'[h] = "copy" => ckpt'.upTo <= own[g].mx

\* The published header stays, or nobody relies on it who does not rely on the new one.
HdrFor(h) ==
    \/ shm'.hdr = shm.hdr
    \/ \A g \in Handles \ {h} :
          /\ writer # g /\ pc[g] \notin Copies
          /\ InLog(g) => own[g].mx <= shm'.hdr.mx
          /\ InLog(g) /\ own[g].mx > 0 => shm'.hdr.salt = shm.hdr.salt

LEMMA OneMoves ==
    ASSUME IInv, NEW h \in Handles, Others(h), SameCkpt(h), SameWriter(h), HdrFor(h),
           shm.valid, shm'.valid,
           \A g \in Handles \ {h} : InLog(g) => Spares(h, g),
           Writing(h)', Backfilling(h)', Protected(h)', Alone', BackfillsHdr'
    PROVE  Safe'
  <1> USE DEF IInv, Safe
  <1>0. Nobody \notin Handles
    OBVIOUS
  <1>1. ASSUME NEW g \in Handles \ {h} PROVE Writing(g)'
    <2>1. (writer' = g <=> writer = g) /\ (ckpt'.by = g <=> ckpt.by = g)
      BY <1>0, <1>1 DEF SameWriter, SameCkpt
    <2>2. pc'[g] = pc[g] /\ own'[g] = own[g]
      BY <1>1 DEF Others
    <2>3. writer = g => shm'.hdr = shm.hdr
      BY <1>1 DEF HdrFor
    <2>4. Writing(g)
      BY <1>1
    <2> QED
      BY <2>1, <2>2, <2>3, <2>4 DEF Writing
  <1>2. ASSUME NEW g \in Handles \ {h} PROVE Backfilling(g)'
    <2>1. (writer' = g <=> writer = g) /\ (ckpt'.by = g <=> ckpt.by = g)
      BY <1>0, <1>1 DEF SameWriter, SameCkpt
    <2>2. pc'[g] = pc[g] /\ own'[g] = own[g]
      BY <1>2 DEF Others
    <2>3. pc[g] \in Copies => shm'.hdr = shm.hdr
      BY <1>2 DEF HdrFor
    <2>4. ckpt.by = g => ckpt' = ckpt
      BY <1>0, <1>2 DEF SameCkpt
    <2>5. Backfilling(g)
      BY <1>2
    <2> QED
      BY <2>1, <2>2, <2>3, <2>4, <2>5 DEF Backfilling, Copies
  <1>3. ASSUME NEW g \in Handles \ {h} PROVE Protected(g)'
    <2>1. pc'[g] = pc[g] /\ own'[g] = own[g] /\ slot'[g] = slot[g] /\ mark'[g] = mark[g]
      BY <1>3 DEF Others
    <2>2. Protected(g)
      BY <1>3
    <2>3. InLog(g)' <=> InLog(g)
      BY <2>1 DEF InLog, Reading
    <2>4. ASSUME InLog(g) PROVE Spared(g)'
      <3> SUFFICES ASSUME NEW c \in Handles,
                          (pc'[c] = "slots" /\ slot'[g] < ckpt'.next) \/ pc'[c] = "copy"
                   PROVE  ckpt'.upTo <= own'[g].mx
        BY DEF Spared
      <3>1. CASE c = h
        BY <1>3, <2>1, <2>4, <3>1 DEF Spares
      <3>2. CASE c # h
        <4>1. pc'[c] = pc[c] /\ Backfilling(c)
          BY <3>2 DEF Others
        <4>2. ckpt.by = c
          BY <4>1 DEF Backfilling, Copies
        <4>3. ckpt' = ckpt
          BY <1>0, <3>2, <4>2 DEF SameCkpt
        <4> QED
          BY <2>1, <2>2, <2>4, <4>1, <4>3 DEF Protected, Spared
      <3> QED
        BY <3>1, <3>2
    <2>5. ASSUME InLog(g)
          PROVE  /\ mark'[g] = shm'.mark[slot'[g]] /\ mark'[g] <= own'[g].mx
                 /\ shm'.nBackfill <= own'[g].mx /\ own'[g].mx <= shm'.hdr.mx
                 /\ pc'[g] = "read" /\ own'[g].mx > 0 => own'[g].salt = shm'.hdr.salt
      BY <1>3, <2>1, <2>2, <2>5 DEF Protected, Spares, HdrFor
    <2> QED
      BY <2>1, <2>2, <2>3, <2>4, <2>5 DEF Protected
  <1>4. Invalid'
    BY DEF Invalid
  <1> QED
    BY <1>1, <1>2, <1>3, <1>4

(***************************************************************************)
(* Steps that leave who has which lock alone, and of the wal-index all but *)
(* the marks of slots nobody uses.                                         *)
(***************************************************************************)
Calm ==
    /\ UNCHANGED <<writer, ckpt>>
    /\ shm'.hdr = shm.hdr /\ shm'.nBackfill = shm.nBackfill /\ shm'.valid = shm.valid
    /\ \A i \in Slots : shm'.mark[i] = shm.mark[i] \/ Holders(i) = {}

LEMMA FormsKept ==
    ASSUME IInv, UNCHANGED <<shm, writer, todo, ckpt>>, HandleForms'
    PROVE  Forms'
  BY DEF IInv, Forms, SharedForms

LEMMA CalmMoves ==
    ASSUME IInv, NEW h \in Handles, Others(h), Calm, shm.valid,
           pc[h] # "reset", pc'[h] \notin {"reset", "slots", "copy"},
           slot'[h] \in Slots => pc'[h] = "lock" \/ ~Restarting,
           Writing(h)', Backfilling(h)', Protected(h)'
    PROVE  Safe'
  <1> USE DEF IInv, Safe
  <1>1. \A g \in Handles : pc'[g] = "reset" <=> pc[g] = "reset"
    BY DEF Others
  <1>2. Alone'
    <2> SUFFICES ASSUME NEW k \in Handles, NEW g \in Handles,
                        pc'[k] = "reset", g # k, slot'[g] \in Slots
                 PROVE  pc'[g] = "lock"
      BY DEF Alone
    <2>1. pc[k] = "reset" /\ Restarting
      BY <1>1 DEF Restarting
    <2>2. CASE g = h
      BY <2>1, <2>2
    <2>3. CASE g # h
      BY <2>1, <2>3 DEF Others, Alone
    <2> QED
      BY <2>2, <2>3
  <1>3. BackfillsHdr'
    BY <1>1 DEF BackfillsHdr, Calm, Restarting
  <1>4. ASSUME NEW g \in Handles \ {h}, InLog(g) PROVE Spares(h, g)
    <2>1. g \in Holders(slot[g]) /\ slot[g] \in Slots
      BY <1>4 DEF Holders, InLog, Reading
    <2>2. shm'.mark[slot[g]] = shm.mark[slot[g]]
      BY <2>1 DEF Calm
    <2> QED
      BY <1>4, <2>2 DEF Calm, Protected, Spares
  <1> QED
    BY <1>2, <1>3, <1>4, OneMoves DEF Calm, SameCkpt, SameWriter, HdrFor

\* Handle h goes to l with this copy of the header, slot and mark.
LEMMA Goes ==
    ASSUME IInv, NEW h \in Handles, NEW l \in Places, NEW x, IsHdr(x),
           NEW i \in 0 .. NoSlot, NEW m \in Nat, Goto(h, l),
           own' = [own EXCEPT ![h] = x], slot' = [slot EXCEPT ![h] = i],
           mark' = [mark EXCEPT ![h] = m]
    PROVE  /\ HandleForms' /\ Others(h)
           /\ pc'[h] = l /\ own'[h] = x /\ slot'[h] = i /\ mark'[h] = m
  <1>0. HandleForms
    BY DEF IInv, Forms
  <1>1. pc' \in [Handles -> Places] /\ pc'[h] = l /\ \A g \in Handles \ {h} : pc'[g] = pc[g]
    BY <1>0 DEF HandleForms, Goto
  <1>2. /\ own' = [g \in Handles |-> own'[g]]
        /\ own'[h] = x /\ \A g \in Handles \ {h} : own'[g] = own[g]
    BY <1>0 DEF HandleForms
  <1>3. \A g \in Handles : IsHdr(own'[g])
    BY <1>0, <1>2 DEF HandleForms
  <1>4. /\ slot' \in [Handles -> 0 .. NoSlot] /\ slot'[h] = i
        /\ \A g \in Handles \ {h} : slot'[g] = slot[g]
    BY <1>0 DEF HandleForms
  <1>5. /\ mark' \in [Handles -> Nat] /\ mark'[h] = m
        /\ \A g \in Handles \ {h} : mark'[g] = mark[g]
    BY <1>0 DEF HandleForms
  <1> QED
    BY <1>1, <1>2, <1>3, <1>4, <1>5 DEF HandleForms, Others

\* What h has may be said to be set to what it is.
LEMMA Keeps ==
    ASSUME IInv, NEW h \in Handles
    PROVE  /\ IsHdr(own[h]) /\ own = [own EXCEPT ![h] = own[h]]
           /\ slot[h] \in 0 .. NoSlot /\ slot = [slot EXCEPT ![h] = slot[h]]
           /\ mark[h] \in Nat /\ mark = [mark EXCEPT ![h] = mark[h]]
  <1>0. HandleForms
    BY DEF IInv, Forms
  <1>1. IsHdr(own[h]) /\ own = [own EXCEPT ![h] = own[h]]
    BY <1>0 DEF HandleForms
  <1>2. slot[h] \in 0 .. NoSlot /\ slot = [slot EXCEPT ![h] = slot[h]]
    BY <1>0 DEF HandleForms
  <1>3. mark[h] \in Nat /\ mark = [mark EXCEPT ![h] = mark[h]]
    BY <1>0 DEF HandleForms
  <1> QED
    BY <1>1, <1>2, <1>3

\* Leave drops what a handle had.
LEMMA LeaveMoves ==
    ASSUME IInv, NEW h \in Handles, Leave(h)
    PROVE  HandleForms' /\ Others(h) /\ pc'[h] = "idle" /\ slot'[h] = NoSlot
  <1> DEFINE x == [mx |-> 0, salt |-> 0, at |-> 0]
  <1>1. "idle" \in Places
    BY DEF Places
  <1>2. IsHdr(x)
    BY DEF IsHdr
  <1>3. NoSlot \in 0 .. NoSlot
    OBVIOUS
  <1>4. Goto(h, "idle") /\ own' = [own EXCEPT ![h] = x]
        /\ slot' = [slot EXCEPT ![h] = NoSlot] /\ mark' = [mark EXCEPT ![h] = 0]
    BY DEF Leave
  <1> HIDE DEF x
  <1> QED
    BY <1>1, <1>2, <1>3, <1>4, Goes

\* Who is where has which lock.
LEMMA HasLock ==
    ASSUME IInv, NEW h \in Handles
    PROVE  /\ pc[h] # "idle" => shm.valid
           /\ pc[h] \in {"idle", "check0", "read"} => writer # h
           /\ pc[h] \notin Copies \cup {"ckptWrite", "reset"} => ckpt.by # h
           /\ writer = h \/ ckpt.by = h => shm.valid
  BY DEF IInv, Safe, Writing, Backfilling, Invalid, Writes, Starts, Copies

(***************************************************************************)
(* Readers.                                                                *)
(***************************************************************************)

\* A handle moves on with what it has.
LEMMA GoesOn ==
    ASSUME IInv, NEW h \in Handles, NEW l \in Places, Goto(h, l), UNCHANGED <<own, slot, mark>>
    PROVE  HandleForms' /\ Others(h) /\ pc'[h] = l
  BY Keeps, Goes

\* A handle moves on with another copy of the header.
LEMMA GoesWith ==
    ASSUME IInv, NEW h \in Handles, NEW l \in Places, NEW x, IsHdr(x), Goto(h, l),
           own' = [own EXCEPT ![h] = x], UNCHANGED <<slot, mark>>
    PROVE  /\ HandleForms' /\ Others(h)
           /\ pc'[h] = l /\ own'[h] = x /\ slot'[h] = slot[h] /\ mark'[h] = mark[h]
  <1>0. HandleForms
    BY DEF IInv, Forms
  <1>1. pc' \in [Handles -> Places] /\ pc'[h] = l /\ \A g \in Handles \ {h} : pc'[g] = pc[g]
    BY <1>0 DEF HandleForms, Goto
  <1>2. /\ own' = [g \in Handles |-> own'[g]]
        /\ own'[h] = x /\ \A g \in Handles \ {h} : own'[g] = own[g]
    BY <1>0 DEF HandleForms
  <1>3. \A g \in Handles : IsHdr(own'[g])
    BY <1>0, <1>2 DEF HandleForms
  <1>4. slot' \in [Handles -> 0 .. NoSlot] /\ mark' \in [Handles -> Nat]
    BY <1>0 DEF HandleForms
  <1> QED
    BY <1>1, <1>2, <1>3, <1>4 DEF HandleForms, Others

\* A handle without the writer's lock or a checkpoint goes where it relies on nothing.
LEMMA IdleSafe ==
    ASSUME IInv, NEW h \in Handles, pc'[h] \in {"idle", "hdr", "choose"}, writer' # h, ckpt'.by # h
    PROVE  Writing(h)' /\ Backfilling(h)' /\ Protected(h)'
  BY DEF Writing, Backfilling, Protected, InLog, Reading, Writes, Copies

LEMMA ReadHdrSafe == ASSUME IInv, NEW h \in Handles, ReadHdr(h) PROVE IInv'
  <1> USE DEF ReadHdr
  <1>1. "hdr" \in Places /\ IsHdr(shm.hdr)
    BY DEF Places, IInv, Forms, SharedForms
  <1>2. HandleForms' /\ Others(h) /\ pc'[h] = "hdr"
    BY <1>1, GoesWith
  <1>3. Forms'
    BY <1>2, FormsKept
  <1>4. writer # h /\ ckpt.by # h
    BY HasLock DEF Copies
  <1>5. Writing(h)' /\ Backfilling(h)' /\ Protected(h)'
    BY <1>2, <1>4, IdleSafe
  <1>6. slot'[h] \in Slots => ~Restarting
    BY DEF IInv, Safe, Alone, Restarting
  <1> QED
    BY <1>2, <1>3, <1>5, <1>6, CalmMoves DEF Calm, IInv

\* Retry leaves nothing behind that others rely on.
LEMMA RetrySafe ==
    ASSUME IInv, NEW h \in Handles, Retry(h), UNCHANGED <<shm, writer, todo, ckpt>>,
           pc[h] \in {"check0", "choose", "lock", "confirm"}
    PROVE  IInv'
  <1>0. shm.valid /\ ckpt.by # h
    BY HasLock DEF Copies
  <1>1. CASE writer # h
    <2>1. Leave(h)
      BY <1>1 DEF Retry
    <2>2. Forms'
      BY <2>1, LeaveMoves, FormsKept
    <2>3. Writing(h)' /\ Backfilling(h)' /\ Protected(h)'
      BY <1>0, <1>1, <2>1, LeaveMoves, IdleSafe
    <2> QED
      BY <1>0, <2>1, <2>2, <2>3, LeaveMoves, CalmMoves DEF Calm, IInv
  <1>2. CASE writer = h
    <2>1. Goto(h, "hdr") /\ slot' = [slot EXCEPT ![h] = NoSlot] /\ UNCHANGED <<own, mark>>
      BY <1>2 DEF Retry
    <2>2. "hdr" \in Places /\ NoSlot \in 0 .. NoSlot
      BY DEF Places
    <2>k. /\ own' = [own EXCEPT ![h] = own[h]] /\ IsHdr(own[h])
          /\ mark' = [mark EXCEPT ![h] = mark[h]] /\ mark[h] \in Nat
      BY <2>1, Keeps
    <2>g. slot' = [slot EXCEPT ![h] = NoSlot] /\ Goto(h, "hdr")
      BY <2>1
    <2>3. HandleForms' /\ Others(h) /\ pc'[h] = "hdr" /\ slot'[h] = NoSlot /\ own'[h] = own[h]
      BY <2>2, <2>k, <2>g, Goes
    <2>6. Forms'
      BY <2>3, FormsKept
    <2>7. Writing(h)
      BY DEF IInv, Safe
    <2>8. Writing(h)'
      BY <1>0, <1>2, <2>3, <2>7 DEF Writing, Writes, Starts
    <2>9. Backfilling(h)' /\ Protected(h)'
      BY <1>0, <2>3 DEF Backfilling, Protected, InLog, Reading, Copies
    <2> QED
      BY <1>0, <2>3, <2>6, <2>8, <2>9, CalmMoves DEF Calm, IInv
  <1> QED
    BY <1>1, <1>2

LEMMA LockZeroSafe == ASSUME IInv, NEW h \in Handles, LockZero(h) PROVE IInv'
  <1> USE DEF LockZero
  <1>0. shm.valid /\ ckpt.by # h /\ writer # h
    BY HasLock DEF Copies, MayIgnoreLog
  <1>1. "check0" \in Places /\ 0 \in 0 .. NoSlot
    BY DEF Places
  <1>k. /\ own' = [own EXCEPT ![h] = own[h]] /\ IsHdr(own[h])
        /\ mark' = [mark EXCEPT ![h] = mark[h]] /\ mark[h] \in Nat
    BY Keeps
  <1>g. Goto(h, "check0") /\ slot' = [slot EXCEPT ![h] = 0]
    OBVIOUS
  <1> HIDE DEF LockZero
  <1>2. HandleForms' /\ Others(h) /\ pc'[h] = "check0" /\ slot'[h] = 0
    BY <1>1, <1>k, <1>g, Goes
  <1> USE DEF LockZero
  <1>5. Forms'
    BY <1>2, FormsKept
  <1>6. Writing(h)' /\ Backfilling(h)' /\ Protected(h)'
    BY <1>0, <1>2 DEF Writing, Backfilling, Protected, InLog, Reading, Writes, Copies
  <1> QED
    BY <1>0, <1>2, <1>5, <1>6, CalmMoves DEF Calm, IInv

LEMMA CheckZeroSafe == ASSUME IInv, NEW h \in Handles, CheckZero(h) PROVE IInv'
  <1> USE DEF CheckZero
  <1>1. CASE ~StillCurrent(h)
    BY <1>1, RetrySafe
  <1>2. CASE StillCurrent(h)
    <2>1. Goto(h, "read") /\ UNCHANGED <<own, slot, mark>> /\ "read" \in Places
      BY <1>2 DEF Places
    <2>2. shm.valid /\ ckpt.by # h /\ writer # h
      BY HasLock DEF Copies
    <2>3. HandleForms' /\ Others(h) /\ pc'[h] = "read"
      BY <2>1, GoesOn
    <2>4. slot'[h] = 0
      BY <2>1 DEF IInv, Safe, Protected
    <2>5. Forms'
      BY <2>3, FormsKept
    <2>6. Writing(h)' /\ Backfilling(h)' /\ Protected(h)'
      BY <2>2, <2>3, <2>4 DEF Writing, Backfilling, Protected, InLog, Reading, Writes, Copies
    <2> QED
      BY <2>2, <2>3, <2>4, <2>5, <2>6, CalmMoves DEF Calm, IInv
  <1> QED
    BY <1>1, <1>2

LEMMA UseLogSafe == ASSUME IInv, NEW h \in Handles, UseLog(h) PROVE IInv'
  <1> USE DEF UseLog
  <1>1. Goto(h, "choose") /\ UNCHANGED <<own, slot, mark>> /\ "choose" \in Places
    BY DEF Places
  <1>2. shm.valid /\ ckpt.by # h
    BY HasLock DEF Copies
  <1>3. HandleForms' /\ Others(h) /\ pc'[h] = "choose"
    BY <1>1, GoesOn
  <1>4. Forms'
    BY <1>3, FormsKept
  <1>5. Writing(h)
    BY DEF IInv, Safe
  <1>6. Writing(h)'
    BY <1>1, <1>2, <1>3, <1>5 DEF Writing, Writes, Starts
  <1>7. Backfilling(h)' /\ Protected(h)'
    BY <1>2, <1>3 DEF Backfilling, Protected, InLog, Reading, Copies
  <1>8. slot'[h] \in Slots => ~Restarting
    BY DEF IInv, Safe, Alone, Restarting
  <1> QED
    BY <1>2, <1>3, <1>4, <1>6, <1>7, <1>8, CalmMoves DEF Calm, IInv

LEMMA EndReadSafe == ASSUME IInv, NEW h \in Handles, EndRead(h) PROVE IInv'
  <1> USE DEF EndRead
  <1>0. shm.valid /\ ckpt.by # h /\ writer # h
    BY HasLock DEF Copies
  <1>1. Forms'
    BY LeaveMoves, FormsKept
  <1>2. Writing(h)' /\ Backfilling(h)' /\ Protected(h)'
    BY <1>0, LeaveMoves, IdleSafe
  <1> QED
    BY <1>0, <1>1, <1>2, LeaveMoves, CalmMoves DEF Calm, IInv

LEMMA LockSlotSafe == ASSUME IInv, NEW h \in Handles, LockSlot(h) PROVE IInv'
  <1> USE DEF LockSlot
  <1>1. CASE Retry(h)
    BY <1>1, RetrySafe
  <1>2. CASE ~Retry(h)
    <2>1. Goto(h, "confirm") /\ UNCHANGED <<own, slot, mark>> /\ ~Restarting
      BY <1>2
    <2>2. shm.valid /\ ckpt.by # h
      BY HasLock DEF Copies
    <2>3. "confirm" \in Places
      BY DEF Places
    <2>4. HandleForms' /\ Others(h) /\ pc'[h] = "confirm"
      BY <2>1, <2>3, GoesOn
    <2>5. Forms'
      BY <2>4, FormsKept
    <2>6. Writing(h) /\ Protected(h)
      BY DEF IInv, Safe
    <2>7. Writing(h)'
      BY <2>1, <2>2, <2>4, <2>6 DEF Writing, Writes, Starts
    <2>8. Protected(h)'
      BY <2>1, <2>4, <2>6 DEF Protected, InLog, Reading
    <2>9. Backfilling(h)'
      BY <2>2, <2>4 DEF Backfilling, Copies
    <2> QED
      BY <2>1, <2>2, <2>4, <2>5, <2>7, <2>8, <2>9, CalmMoves DEF Calm, IInv
  <1> QED
    BY <1>1, <1>2

\* Whoever has confirmed its slot is a reader of the published header, which is not
\* behind what a checkpoint copies.
LEMMA ConfirmSafe == ASSUME IInv, NEW h \in Handles, Confirm(h) PROVE IInv'
  <1> USE DEF Confirm
  <1>1. CASE Retry(h)
    BY <1>1, RetrySafe
  <1>2. CASE ~Retry(h)
    <2> DEFINE l == IF writer = h THEN FirstWrite(h) ELSE "read"
    <2>1. /\ Goto(h, l) /\ UNCHANGED <<own, slot, mark>>
          /\ shm.mark[slot[h]] = mark[h] /\ own[h] = shm.hdr
          /\ l = "begin" => own[h].mx = 0
      BY <1>2 DEF StillCurrent, FirstWrite
    <2>2. shm.valid /\ ckpt.by # h
      BY HasLock DEF Copies
    <2>3. l \in {"begin", "frames", "read"} /\ (writer = h => l # "read") /\ (writer # h => l = "read")
      BY DEF FirstWrite
    <2> HIDE DEF l
    <2>4. l \in Places
      BY <2>3 DEF Places
    <2>5. HandleForms' /\ Others(h) /\ pc'[h] = l
      BY <2>1, <2>4, GoesOn
    <2>6. Forms'
      BY <2>5, FormsKept
    <2>7. Writing(h) /\ Protected(h) /\ slot[h] \in Slots /\ mark[h] <= own[h].mx
      BY DEF IInv, Safe, Protected
    <2>8. Writing(h)'
      BY <2>1, <2>2, <2>3, <2>5, <2>7 DEF Writing, Writes, Starts
    <2>9. ~Restarting
      BY <2>7 DEF IInv, Safe, Alone, Restarting
    <2>10. shm.nBackfill <= shm.hdr.mx
      BY <2>9 DEF IInv, Safe, BackfillsHdr
    <2>11. Spared(h)'
      <3> SUFFICES ASSUME NEW c \in Handles, pc'[c] \in {"slots", "copy"}
                   PROVE  ckpt'.upTo <= own'[h].mx
        BY DEF Spared
      <3>1. c # h /\ pc[c] = pc'[c]
        BY <2>3, <2>5 DEF Others
      <3>2. Backfilling(c)
        BY DEF IInv, Safe
      <3>3. ckpt.upTo <= shm.hdr.mx
        BY <3>1, <3>2 DEF Backfilling, Copies
      <3> QED
        BY <2>1, <3>3
    <2>12. IsHdr(shm.hdr)
      BY DEF IInv, Forms, SharedForms
    <2>13. shm.hdr.mx <= shm.hdr.mx
      BY <2>12 DEF IsHdr
    <2>14. Protected(h)'
      BY <2>1, <2>3, <2>5, <2>7, <2>10, <2>11, <2>13 DEF Protected
    <2>15. Backfilling(h)'
      BY <2>2, <2>3, <2>5 DEF Backfilling, Copies
    <2> QED
      BY <2>2, <2>3, <2>5, <2>6, <2>8, <2>9, <2>14, <2>15, CalmMoves DEF Calm, IInv
  <1> QED
    BY <1>1, <1>2

\* Choosing a slot: one that is free gets the mark of the snapshot, or the mark chosen
\* is the highest not past it.
LEMMA BestIs ==
    ASSUME NEW m \in [Slots -> Nat], NEW mx \in Nat, NEW low, low # {},
           low = {i \in Slots : m[i] <= mx}
    PROVE  Greatest({i \in low : \A j \in low : m[j] <= m[i]}) \in low
  <1> DEFINE vals == {m[i] : i \in low}
             top == {i \in low : \A j \in low : m[j] <= m[i]}
  <1>0. \A i \in low : m[i] \in 0 .. mx
    OBVIOUS
  <1>1. vals \subseteq 0 .. mx
    BY <1>0
  <1>7. vals # {}
    <2>1. PICK i \in low : TRUE
      OBVIOUS
    <2>2. m[i] \in vals
      BY <2>1
    <2> QED
      BY <2>2
  <1> HIDE DEF vals
  <1>2. Greatest(vals) \in vals /\ \A y \in vals : y <= Greatest(vals)
    BY <1>1, <1>7, GreatestIs
  <1>3. PICK i \in low : m[i] = Greatest(vals)
    BY <1>2 DEF vals
  <1>4. i \in top
    BY <1>2, <1>3 DEF vals
  <1>5. top \in SUBSET (0 .. NSlots) /\ NSlots \in Nat /\ top \subseteq low
    OBVIOUS
  <1> HIDE DEF top
  <1>6. Greatest(top) \in top
    BY <1>4, <1>5, GreatestIs
  <1> QED
    BY <1>5, <1>6 DEF top

LEMMA TakesSlot ==
    ASSUME IInv, NEW h \in Handles, pc[h] = "choose", NEW i \in Slots, NEW m \in Nat,
           m <= own[h].mx, mark' = [mark EXCEPT ![h] = m], slot' = [slot EXCEPT ![h] = i],
           Goto(h, "lock"), UNCHANGED <<own, writer, ckpt>>, Calm
    PROVE  HandleForms' /\ Safe'
  <1>1. "lock" \in Places /\ i \in 0 .. NoSlot
    BY DEF Places
  <1>2. own' = [own EXCEPT ![h] = own[h]] /\ IsHdr(own[h])
    BY Keeps
  <1>3. /\ HandleForms' /\ Others(h) /\ pc'[h] = "lock"
        /\ own'[h] = own[h] /\ slot'[h] = i /\ mark'[h] = m
    BY <1>1, <1>2, Goes
  <1>4. shm.valid /\ ckpt.by # h
    BY HasLock DEF Copies
  <1>5. Writing(h)
    BY DEF IInv, Safe
  <1>6. Writing(h)'
    BY <1>3, <1>4, <1>5 DEF Writing, Writes, Starts, Calm
  <1>7. Protected(h)'
    BY <1>3 DEF Protected, InLog, Reading
  <1>8. Backfilling(h)'
    BY <1>3, <1>4 DEF Backfilling, Copies, Calm
  <1>9. Safe'
    BY <1>3, <1>4, <1>6, <1>7, <1>8, CalmMoves
  <1> QED
    BY <1>3, <1>9

LEMMA ChooseSlotSafe == ASSUME IInv, NEW h \in Handles, ChooseSlot(h) PROVE IInv'
  <1> DEFINE mx == own[h].mx
             low == {i \in Slots : shm.mark[i] <= mx}
             best == Greatest({i \in low : \A j \in low : shm.mark[j] <= shm.mark[i]})
             free == {i \in Slots : SlotFree(i)}
             take(i, m) == /\ mark' = [mark EXCEPT ![h] = m]
                           /\ slot' = [slot EXCEPT ![h] = i]
                           /\ Goto(h, "lock") /\ UNCHANGED <<own, min>>
  <1>0. /\ pc[h] = "choose" /\ UNCHANGED <<writer, todo, ckpt>>
        /\ \/ /\ free # {} /\ take(Least(free), mx)
              /\ shm' = [shm EXCEPT !.mark[Least(free)] = mx]
           \/ low # {} /\ take(best, shm.mark[best]) /\ shm' = shm
           \/ Retry(h) /\ shm' = shm
    BY DEF ChooseSlot
  <1>1. mx \in Nat /\ shm.mark \in [Slots -> Nat] /\ mx <= mx
    <2>1. IsHdr(own[h])
      BY Keeps
    <2>2. shm.mark \in [Slots -> Nat]
      BY DEF IInv, Forms, SharedForms
    <2> QED
      BY <2>1, <2>2 DEF IsHdr
  <1>2. CASE Retry(h) /\ shm' = shm
    BY <1>0, <1>2, RetrySafe
  <1>3. CASE low # {} /\ take(best, shm.mark[best]) /\ shm' = shm
    <2>1. best \in low
      BY <1>1, <1>3, BestIs
    <2>2. best \in Slots /\ shm.mark[best] \in Nat /\ shm.mark[best] <= mx
      BY <1>1, <2>1
    <2>3. Calm
      BY <1>0, <1>3 DEF Calm
    <2> HIDE DEF mx, low, best, free
    <2>4. HandleForms' /\ Safe'
      BY <1>0, <1>3, <2>2, <2>3, TakesSlot DEF mx
    <2> QED
      BY <1>0, <1>3, <2>4, FormsKept DEF IInv
  <1>4. CASE free # {} /\ take(Least(free), mx) /\ shm' = [shm EXCEPT !.mark[Least(free)] = mx]
    <2>1. free \in SUBSET Nat
      OBVIOUS
    <2>2. Least(free) \in free
      BY <1>4, <2>1, LeastIs
    <2>3. PICK i \in Slots : i = Least(free) /\ SlotFree(i)
      BY <2>2
    <2>4. shm' = [shm EXCEPT !.mark[i] = mx]
      BY <1>4, <2>3
    <2> HIDE DEF mx, low, best, free
    <2>5. /\ shm' \in [valid : BOOLEAN, hdr : {shm'.hdr}, index : {shm'.index}, nBackfill : Nat,
                       mark : [Slots -> Nat]]
          /\ shm'.hdr = shm.hdr /\ shm'.nBackfill = shm.nBackfill /\ shm'.valid = shm.valid
          /\ shm'.mark = [shm.mark EXCEPT ![i] = mx]
      BY <1>1, <2>4 DEF IInv, Forms, SharedForms
    <2>6. Calm
      BY <1>0, <1>1, <2>3, <2>5 DEF Calm, SlotFree
    <2>7. HandleForms' /\ Safe'
      BY <1>0, <1>1, <1>4, <2>3, <2>6, TakesSlot DEF mx
    <2>8. SharedForms'
      BY <1>0, <2>5 DEF IInv, Forms, SharedForms
    <2> QED
      BY <2>7, <2>8 DEF IInv, Forms
  <1> QED
    BY <1>0, <1>2, <1>3, <1>4

(***************************************************************************)
(* The writer.                                                             *)
(***************************************************************************)

\* The writer moves on with what it has, in a transaction that reads the log.
LEMMA WriterGoesOn ==
    ASSUME IInv, NEW h \in Handles, writer = h, pc[h] \in Writes,
           NEW l \in {"begin", "frames", "index", "publish"}, Goto(h, l),
           own[h].mx > 0 \/ own[h] = shm.hdr \/ pc[h] \in {"frames", "index", "publish"},
           l = "begin" => own[h] = shm.hdr /\ own[h].mx = 0,
           UNCHANGED <<own, slot, mark, writer, ckpt>>, Calm
    PROVE  HandleForms' /\ Safe'
  <1>1. l \in Places
    BY DEF Places
  <1>2. HandleForms' /\ Others(h) /\ pc'[h] = l
    BY <1>1, GoesOn
  <1>3. shm.valid /\ ckpt.by # h
    BY HasLock DEF Copies, Writes
  <1>4. Writing(h) /\ Protected(h) /\ slot'[h] = slot[h] /\ own'[h] = own[h] /\ mark'[h] = mark[h]
    BY DEF IInv, Safe
  <1>5. Writing(h)'
    BY <1>2, <1>3, <1>4 DEF Writing, Writes, Starts, Calm
  <1>6. Backfilling(h)'
    BY <1>2, <1>3 DEF Backfilling, Copies, Calm
  <1>7. ASSUME InLog(h)' PROVE InLog(h)
    BY <1>4, <1>7 DEF InLog, Reading, Writes
  <1>8. ASSUME InLog(h) PROVE Spared(h)'
    <2> SUFFICES ASSUME NEW c \in Handles,
                        (pc'[c] = "slots" /\ slot'[h] < ckpt'.next) \/ pc'[c] = "copy"
                 PROVE  ckpt'.upTo <= own'[h].mx
      BY DEF Spared
    <2>1. pc[c] = pc'[c]
      BY <1>2 DEF Others
    <2> QED
      BY <1>4, <1>8, <2>1 DEF Protected, Spared, Calm
  <1>9. ASSUME InLog(h) PROVE shm'.mark[slot[h]] = shm.mark[slot[h]]
    <2>1. h \in Holders(slot[h]) /\ slot[h] \in Slots
      BY <1>9 DEF Holders, InLog, Reading
    <2> QED
      BY <2>1 DEF Calm
  <1>10. Protected(h)'
    BY <1>2, <1>4, <1>7, <1>8, <1>9 DEF Protected, Calm
  <1>11. slot[h] \in Slots => ~Restarting
    BY DEF IInv, Safe, Alone, Restarting, Writes
  <1>12. Safe'
    BY <1>2, <1>3, <1>4, <1>5, <1>6, <1>10, <1>11, CalmMoves DEF Writes
  <1> QED
    BY <1>2, <1>12

LEMMA AppendFrameSafe == ASSUME IInv, NEW h \in Handles, AppendFrame(h) PROVE IInv'
  <1> DEFINE p == Least(todo.left)
             l == IF todo.left = {p} THEN "index" ELSE "frames"
  <1>1. /\ pc[h] = "frames" /\ todo' = [todo EXCEPT !.left = @ \ {p}] /\ Goto(h, l)
        /\ UNCHANGED <<shm, own, slot, mark, writer, ckpt>>
    BY DEF AppendFrame
  <1>2. l \in {"begin", "frames", "index", "publish"} /\ l # "begin"
    OBVIOUS
  <1> HIDE DEF p, l
  <1>3. writer = h
    BY <1>1 DEF IInv, Safe, Writing, Writes
  <1>4. HandleForms' /\ Safe'
    BY <1>1, <1>2, <1>3, WriterGoesOn DEF Writes, Calm
  <1>5. todo' \in [all : SUBSET Pages, left : SUBSET Pages] /\ todo'.left \subseteq todo'.all
    BY <1>1 DEF IInv, Forms, SharedForms
  <1>6. SharedForms'
    BY <1>1, <1>5 DEF IInv, Forms, SharedForms
  <1> QED
    BY <1>4, <1>6 DEF IInv, Forms

LEMMA IndexFramesSafe == ASSUME IInv, NEW h \in Handles, IndexFrames(h) PROVE IInv'
  <1>1. pc[h] = "index" /\ Goto(h, "publish") /\ UNCHANGED <<own, slot, mark, writer, todo, ckpt>>
    BY DEF IndexFrames
  <1>2. /\ shm' \in [valid : BOOLEAN, hdr : {shm'.hdr}, index : {shm'.index}, nBackfill : Nat,
                     mark : [Slots -> Nat]]
        /\ shm'.hdr = shm.hdr /\ shm'.nBackfill = shm.nBackfill /\ shm'.valid = shm.valid
        /\ shm'.mark = shm.mark
    BY DEF IndexFrames, IInv, Forms, SharedForms
  <1>3. writer = h
    BY <1>1 DEF IInv, Safe, Writing, Writes
  <1>4. Calm
    BY <1>1, <1>2 DEF Calm
  <1>5. HandleForms' /\ Safe'
    BY <1>1, <1>3, <1>4, WriterGoesOn DEF Writes
  <1>6. SharedForms'
    BY <1>1, <1>2 DEF IInv, Forms, SharedForms
  <1> QED
    BY <1>5, <1>6 DEF IInv, Forms

\* A transaction that begins to write reads what is published.
LEMMA BeginWriteSafe == ASSUME IInv, NEW h \in Handles, BeginWrite(h) PROVE IInv'
  <1>1. /\ pc[h] = "read" /\ h \in Writers /\ writer = Nobody /\ writer' = h
        /\ own[h] = shm.hdr /\ Goto(h, "restart")
        /\ UNCHANGED <<shm, own, slot, mark, ckpt>>
    BY DEF BeginWrite, StillCurrent
  <1>2. todo' \in [all : SUBSET Pages, left : SUBSET Pages] /\ todo'.left \subseteq todo'.all
    <2>1. PICK S \in (SUBSET Pages) \ {{}} : todo' = [all |-> S, left |-> S]
      BY DEF BeginWrite
    <2> QED
      BY <2>1
  <1>3. "restart" \in Places
    BY DEF Places
  <1>4. HandleForms' /\ Others(h) /\ pc'[h] = "restart"
    BY <1>1, <1>3, GoesOn
  <1>5. shm.valid /\ ckpt.by # h
    BY <1>1, HasLock DEF Copies
  <1>6. IInv /\ Protected(h)
    BY DEF IInv, Safe
  <1>7. Writing(h)'
    BY <1>1, <1>4, <1>5, Keeps DEF Writing, Writes, IsHdr
  <1>8. Backfilling(h)'
    BY <1>1, <1>4, <1>5 DEF Backfilling, Copies
  <1>9. InLog(h)' <=> InLog(h)
    BY <1>1, <1>4 DEF InLog, Reading
  <1>10. Spared(h) => Spared(h)'
    <2> SUFFICES ASSUME Spared(h), NEW c \in Handles,
                        (pc'[c] = "slots" /\ slot'[h] < ckpt'.next) \/ pc'[c] = "copy"
                 PROVE  ckpt'.upTo <= own'[h].mx
      BY DEF Spared
    <2>1. pc[c] = pc'[c]
      BY <1>4 DEF Others
    <2> QED
      BY <1>1, <2>1 DEF Spared
  <1>11. Protected(h)'
    BY <1>1, <1>4, <1>6, <1>9, <1>10 DEF Protected
  <1>12. \A g \in Handles : pc'[g] = "reset" <=> pc[g] = "reset"
    BY <1>1, <1>4 DEF Others
  <1>13. Alone' /\ BackfillsHdr'
    <2>1. Alone'
      <3> SUFFICES ASSUME NEW k \in Handles, NEW g \in Handles,
                          pc'[k] = "reset", g # k, slot'[g] \in Slots
                   PROVE  pc'[g] = "lock"
        BY DEF Alone
      <3>1. pc[k] = "reset" /\ pc[g] = "lock"
        BY <1>1, <1>6, <1>12 DEF IInv, Safe, Alone
      <3>2. g # h
        BY <1>1, <3>1
      <3> QED
        BY <1>4, <3>1, <3>2 DEF Others
    <2> QED
      BY <1>1, <1>6, <1>12, <2>1 DEF BackfillsHdr, Restarting, IInv, Safe
  <1>14. \A g \in Handles \ {h} : InLog(g) => Spares(h, g)
    BY <1>1, <1>4 DEF IInv, Safe, Protected, Spares
  <1>15. Safe'
    BY <1>1, <1>4, <1>5, <1>7, <1>8, <1>11, <1>13, <1>14, OneMoves
    DEF SameCkpt, SameWriter, HdrFor
  <1>16. SharedForms'
    BY <1>1, <1>2 DEF IInv, Forms, SharedForms
  <1> QED
    BY <1>4, <1>15, <1>16 DEF IInv, Forms

\* A handle in the middle of a write, and the checkpoint of another.
LEMMA NoCopier ==
    ASSUME IInv, NEW h \in Handles, writer = h, ckpt.by # h
    PROVE  \A g \in Handles \ {h} : writer # g /\ pc[g] \notin Copies
  <1> SUFFICES ASSUME NEW g \in Handles \ {h}, pc[g] \in Copies PROVE FALSE
    OBVIOUS
  <1>1. Backfilling(g) /\ Writing(h)
    BY DEF IInv, Safe
  <1>2. ckpt.by = g /\ pc[g] # "ckptWrite"
    BY <1>1 DEF Backfilling, Copies
  <1>3. h \in Writers
    BY <1>1 DEF Writing
  <1> QED
    BY <1>1, <1>2, <1>3 DEF Backfilling

LEMMA AbortSafe == ASSUME IInv, NEW h \in Handles, Abort(h) PROVE IInv'
  <1>1. /\ pc[h] = "frames" /\ Leave(h) /\ writer' = Nobody /\ todo' = NoTodo
        /\ UNCHANGED <<shm, ckpt>>
    BY DEF Abort
  <1>2. HandleForms' /\ Others(h) /\ pc'[h] = "idle" /\ slot'[h] = NoSlot
    BY <1>1, LeaveMoves
  <1>3. shm.valid /\ ckpt.by # h /\ writer = h
    BY <1>1, HasLock DEF Copies, IInv, Safe, Writing, Writes
  <1>4. Writing(h)' /\ Backfilling(h)' /\ Protected(h)'
    BY <1>1, <1>2, <1>3, IdleSafe
  <1>5. \A g \in Handles : pc'[g] = "reset" <=> pc[g] = "reset"
    BY <1>1, <1>2 DEF Others
  <1>6. BackfillsHdr'
    BY <1>1, <1>5 DEF BackfillsHdr, Restarting, IInv, Safe
  <1>7. Alone'
    BY <1>2, <1>5 DEF Alone, IInv, Safe, Others
  <1>8. \A g \in Handles \ {h} : InLog(g) => Spares(h, g)
    BY <1>1, <1>2 DEF IInv, Safe, Protected, Spares
  <1>9. Safe'
    BY <1>1, <1>2, <1>3, <1>4, <1>6, <1>7, <1>8, OneMoves DEF SameCkpt, SameWriter, HdrFor
  <1>10. SharedForms'
    BY <1>1 DEF IInv, Forms, SharedForms, NoTodo
  <1> QED
    BY <1>2, <1>9, <1>10 DEF IInv, Forms

\* A log is begun when it is empty: nobody reads frames of it.
LEMMA BeginLogSafe == ASSUME IInv, NEW h \in Handles, BeginLog(h) PROVE IInv'
  <1>1. /\ pc[h] = "begin" /\ Goto(h, "frames")
        /\ UNCHANGED <<shm, slot, mark, writer, todo, ckpt>>
    BY DEF BeginLog
  <1>2. PICK salt : own' = [own EXCEPT ![h].salt = salt]
    BY DEF BeginLog
  <1>3. PICK x : x = [own[h] EXCEPT !.salt = salt] /\ own' = [own EXCEPT ![h] = x]
    BY <1>2
  <1>4. IsHdr(x) /\ x.mx = own[h].mx
    BY <1>3, Keeps DEF IsHdr
  <1>5. "frames" \in Places
    BY DEF Places
  <1>7. /\ HandleForms' /\ Others(h) /\ pc'[h] = "frames" /\ own'[h] = x
        /\ slot'[h] = slot[h] /\ mark'[h] = mark[h]
    BY <1>1, <1>3, <1>4, <1>5, GoesWith
  <1>8. shm.valid /\ ckpt.by # h /\ writer = h /\ own[h].mx = 0
    BY <1>1, HasLock DEF Copies, IInv, Safe, Writing, Writes
  <1>9. Writing(h) /\ Protected(h)
    BY DEF IInv, Safe
  <1>10. Writing(h)'
    BY <1>1, <1>4, <1>7, <1>8, <1>9 DEF Writing, Writes
  <1>11. Backfilling(h)'
    BY <1>1, <1>7, <1>8 DEF Backfilling, Copies
  <1>12. InLog(h)' <=> InLog(h)
    BY <1>1, <1>7 DEF InLog, Reading
  <1>13. Spared(h) => Spared(h)'
    <2> SUFFICES ASSUME Spared(h), NEW c \in Handles,
                        (pc'[c] = "slots" /\ slot'[h] < ckpt'.next) \/ pc'[c] = "copy"
                 PROVE  ckpt'.upTo <= own'[h].mx
      BY DEF Spared
    <2>1. pc[c] = pc'[c]
      BY <1>7 DEF Others
    <2> QED
      BY <1>1, <1>4, <1>7, <2>1 DEF Spared
  <1>14. Protected(h)'
    BY <1>1, <1>4, <1>7, <1>9, <1>12, <1>13 DEF Protected
  <1>15. slot[h] \in Slots => ~Restarting
    BY <1>1 DEF IInv, Safe, Alone, Restarting
  <1>16. Safe'
    BY <1>1, <1>7, <1>8, <1>10, <1>11, <1>14, <1>15, CalmMoves DEF Calm
  <1> QED
    BY <1>1, <1>7, <1>16, FormsKept DEF IInv

(***************************************************************************)
(* A new header is published, and the checkpoints.                         *)
(***************************************************************************)

\* NextFrame counts on from the last frame published.
LEMMA NextFrameIs ==
    ASSUME IInv, NEW h \in Handles
    PROVE  NextFrame(h) - 1 \in Nat /\ own[h].mx <= NextFrame(h) - 1
  <1>1. todo.all \in SUBSET Pages /\ todo.left \in SUBSET todo.all
    BY DEF IInv, Forms, SharedForms
  <1>2. NPages \in Nat /\ IsFiniteSet(Pages)
    BY FS_Interval DEF Pages
  <1>3. IsFiniteSet(todo.all) /\ IsFiniteSet(todo.left)
    BY <1>1, <1>2, FS_Subset
  <1>4. /\ Cardinality(todo.all) \in Nat /\ Cardinality(todo.left) \in Nat
        /\ Cardinality(todo.left) <= Cardinality(todo.all)
    BY <1>1, <1>3, FS_Subset, FS_CardinalityType
  <1>5. own[h].mx \in Nat
    BY Keeps DEF IsHdr
  <1> QED
    BY <1>4, <1>5 DEF NextFrame

LEMMA PublishSafe == ASSUME IInv, NEW h \in Handles, Publish(h) PROVE IInv'
  <1> DEFINE hdr == [mx |-> NextFrame(h) - 1, salt |-> own[h].salt, at |-> Len(commits)]
  <1>1. /\ pc[h] = "publish" /\ Goto(h, "read") /\ writer' = Nobody /\ todo' = NoTodo
        /\ shm' = [shm EXCEPT !.hdr = hdr] /\ own' = [own EXCEPT ![h] = hdr]
        /\ UNCHANGED <<slot, mark, ckpt>>
    BY DEF Publish
  <1>2. /\ IsHdr(hdr) /\ hdr.mx \in Nat /\ own[h].mx <= hdr.mx /\ hdr.salt = own[h].salt
        /\ own[h].mx \in Nat
    BY NextFrameIs, Keeps DEF IsHdr
  <1> HIDE DEF hdr
  <1>3. shm.valid /\ ckpt.by # h /\ writer = h
    BY <1>1, HasLock DEF Copies, IInv, Safe, Writing, Writes
  <1>4. own[h].mx = shm.hdr.mx /\ (own[h] = shm.hdr \/ own[h].mx = 0)
    BY <1>3 DEF IInv, Safe, Writing
  <1>5. /\ shm' \in [valid : BOOLEAN, hdr : {shm'.hdr}, index : {shm'.index}, nBackfill : Nat,
                     mark : [Slots -> Nat]]
        /\ shm'.hdr = hdr /\ shm'.nBackfill = shm.nBackfill /\ shm'.valid = shm.valid
        /\ shm'.mark = shm.mark /\ shm.nBackfill \in Nat
    BY <1>1 DEF IInv, Forms, SharedForms
  <1>6. "read" \in Places
    BY DEF Places
  <1>7. mark[h] \in Nat
    BY Keeps
  <1>9. /\ HandleForms' /\ Others(h) /\ pc'[h] = "read" /\ own'[h] = hdr
        /\ slot'[h] = slot[h] /\ mark'[h] = mark[h]
    BY <1>1, <1>2, <1>6, GoesWith
  <1>10. ASSUME NEW g \in Handles \ {h}
         PROVE  /\ writer # g /\ pc[g] \notin Copies
                /\ InLog(g) => own[g].mx <= hdr.mx
                /\ InLog(g) /\ own[g].mx > 0 => hdr.salt = shm.hdr.salt
    <2>1. writer # g /\ pc[g] \notin Copies
      BY <1>3, <1>10, NoCopier
    <2>2. InLog(g) => own[g].mx <= shm.hdr.mx
      BY <1>10 DEF IInv, Safe, Protected
    <2>3. own[g].mx \in Nat
      BY <1>10, Keeps DEF IsHdr
    <2> QED
      BY <1>2, <1>4, <2>1, <2>2, <2>3
  <1>11. HdrFor(h)
    BY <1>5, <1>10 DEF HdrFor
  <1>12. Writing(h)' /\ Backfilling(h)'
    BY <1>1, <1>3, <1>9 DEF Writing, Backfilling, Writes, Copies
  <1>13. Spared(h)'
    <2>1. \A c \in Handles : pc'[c] \notin Copies
      BY <1>9, <1>10 DEF Others, Copies
    <2> QED
      BY <2>1 DEF Spared, Copies
  <1>14. InLog(h)' => InLog(h) /\ Protected(h)
    BY <1>1, <1>9 DEF InLog, Reading, IInv, Safe
  <1>15. Protected(h)'
    BY <1>2, <1>5, <1>7, <1>9, <1>13, <1>14 DEF Protected
  <1>16. \A g \in Handles : pc'[g] = "reset" <=> pc[g] = "reset"
    BY <1>1, <1>9 DEF Others
  <1>17. \A g \in Handles : pc[g] # "reset"
    BY <1>1, <1>3 DEF IInv, Safe, Writing
  <1>18. Alone'
    BY <1>16, <1>17 DEF Alone
  <1>19. BackfillsHdr'
    BY <1>2, <1>4, <1>5, <1>17 DEF BackfillsHdr, Restarting, IInv, Safe
  <1>20. \A g \in Handles \ {h} : InLog(g) => Spares(h, g)
    BY <1>5, <1>9 DEF IInv, Safe, Protected, Spares
  <1>21. Safe'
    BY <1>1, <1>3, <1>5, <1>9, <1>11, <1>12, <1>15, <1>18, <1>19, <1>20, OneMoves
    DEF SameCkpt, SameWriter
  <1>22. SharedForms'
    BY <1>1, <1>2, <1>5 DEF IInv, Forms, SharedForms, NoTodo
  <1> QED
    BY <1>9, <1>21, <1>22 DEF IInv, Forms

\* The header of an empty log, while nobody else uses a slot with a mark.
LEMMA NewHdrSafe ==
    ASSUME IInv, NEW h \in Handles, writer = h, pc[h] \in {"restart", "drain"},
           NewHdr(h), MarkedFree(h), UNCHANGED <<slot, mark, writer, todo, ckpt>>
    PROVE  IInv'
  <1>1. PICK hdr : /\ hdr = [own[h] EXCEPT !.mx = 0, !.salt = Fresh]
                   /\ own' = [own EXCEPT ![h] = hdr] /\ shm' = [shm EXCEPT !.hdr = hdr]
                   /\ Goto(h, "reset")
    BY DEF NewHdr
  <1>2. IsHdr(hdr) /\ hdr.mx = 0
    BY <1>1, Keeps DEF IsHdr
  <1>3. shm.valid
    BY HasLock
  <1>4. /\ shm' \in [valid : BOOLEAN, hdr : {shm'.hdr}, index : {shm'.index}, nBackfill : Nat,
                     mark : [Slots -> Nat]]
        /\ shm'.hdr = hdr /\ shm'.valid = shm.valid
    BY <1>1 DEF IInv, Forms, SharedForms
  <1>5. "reset" \in Places
    BY DEF Places
  <1>8. /\ HandleForms' /\ Others(h) /\ pc'[h] = "reset" /\ own'[h] = hdr
        /\ slot'[h] = slot[h] /\ mark'[h] = mark[h]
    BY <1>1, <1>2, <1>5, GoesWith
  <1>9. ASSUME NEW g \in Handles \ {h} PROVE writer # g /\ pc[g] \notin Copies
    <2>1. CASE ckpt.by = h
      BY <1>9, <2>1 DEF IInv, Safe, Backfilling
    <2>2. CASE ckpt.by # h
      BY <1>9, <2>2, NoCopier
    <2> QED
      BY <2>1, <2>2
  <1>10. ASSUME NEW g \in Handles \ {h}, slot[g] \in Slots PROVE pc[g] = "lock"
    BY <1>10 DEF MarkedFree, Holders
  <1>11. \A g \in Handles \ {h} : ~InLog(g)
    BY <1>10 DEF InLog, Reading
  <1>12. HdrFor(h)
    BY <1>9, <1>11 DEF HdrFor
  <1>13. Writing(h) /\ Backfilling(h)
    BY DEF IInv, Safe
  <1>14. Writing(h)'
    BY <1>2, <1>4, <1>8, <1>13 DEF Writing, Writes
  <1>15. Backfilling(h)'
    BY <1>8, <1>13 DEF Backfilling, Copies
  <1>16. Protected(h)'
    BY <1>8 DEF Protected, InLog, Reading
  <1>17. \A k \in Handles : pc'[k] = "reset" => k = h
    BY <1>8, <1>9 DEF IInv, Safe, Writing, Others
  <1>18. Alone'
    BY <1>8, <1>10, <1>17 DEF Alone, Others
  <1>19. BackfillsHdr'
    BY <1>8 DEF BackfillsHdr, Restarting
  <1>20. Safe'
    BY <1>3, <1>4, <1>8, <1>11, <1>12, <1>14, <1>15, <1>16, <1>18, <1>19, OneMoves
    DEF SameCkpt, SameWriter
  <1>21. SharedForms'
    BY <1>2, <1>4 DEF IInv, Forms, SharedForms
  <1> QED
    BY <1>8, <1>20, <1>21 DEF IInv, Forms

LEMMA RestartLogSafe == ASSUME IInv, NEW h \in Handles, RestartLog(h) PROVE IInv'
  <1>1. pc[h] = "restart" /\ UNCHANGED <<mark, writer, todo, ckpt>>
    BY DEF RestartLog
  <1>2. writer = h /\ shm.valid /\ ckpt.by # h
    BY <1>1, HasLock DEF Copies, IInv, Safe, Writing, Writes
  <1>3. Writing(h) /\ own[h] = shm.hdr
    BY <1>1, <1>2 DEF IInv, Safe, Writing
  <1>4. CASE slot[h] # 0 /\ Goto(h, FirstWrite(h)) /\ UNCHANGED <<own, slot, shm>>
    <2>1. PICK l \in {"begin", "frames"} : /\ l = FirstWrite(h)
                                           /\ (l = "begin" => own[h].mx = 0)
      BY DEF FirstWrite
    <2>2. Goto(h, l)
      BY <1>4, <2>1
    <2>3. HandleForms' /\ Safe'
      BY <1>1, <1>2, <1>3, <1>4, <2>1, <2>2, WriterGoesOn DEF Writes, Calm
    <2> QED
      BY <1>1, <1>4, <2>3, FormsKept DEF IInv
  <1>5. CASE MarkedFree(h) /\ NewHdr(h) /\ UNCHANGED slot
    BY <1>1, <1>2, <1>5, NewHdrSafe
  <1>6. CASE Goto(h, "hdr") /\ slot' = [slot EXCEPT ![h] = NoSlot] /\ UNCHANGED <<own, shm>>
    <2>1. "hdr" \in Places /\ NoSlot \in 0 .. NoSlot
      BY DEF Places
    <2>2. /\ own' = [own EXCEPT ![h] = own[h]] /\ IsHdr(own[h])
          /\ mark' = [mark EXCEPT ![h] = mark[h]] /\ mark[h] \in Nat
      BY <1>1, <1>6, Keeps
    <2>3. slot' = [slot EXCEPT ![h] = NoSlot] /\ Goto(h, "hdr")
      BY <1>6
    <2>4. /\ HandleForms' /\ Others(h) /\ pc'[h] = "hdr" /\ own'[h] = own[h]
          /\ slot'[h] = NoSlot
      BY <2>1, <2>2, <2>3, Goes
    <2>5. Forms'
      BY <1>1, <1>6, <2>4, FormsKept
    <2>6. Writing(h)'
      BY <1>1, <1>2, <1>3, <1>6, <2>4 DEF Writing, Writes, Starts
    <2>7. Backfilling(h)' /\ Protected(h)'
      BY <1>1, <1>2, <2>4 DEF Backfilling, Protected, InLog, Reading, Copies
    <2>8. slot'[h] \notin Slots /\ pc[h] # "reset"
      BY <1>1, <2>4
    <2>9. Calm
      BY <1>1, <1>6 DEF Calm
    <2>10. Safe'
      BY <1>2, <2>4, <2>6, <2>7, <2>8, <2>9, CalmMoves
    <2> QED
      BY <2>5, <2>10 DEF IInv
  <1> QED
    BY <1>4, <1>5, <1>6 DEF RestartLog

\* The rest of the wal-index of an empty log.
LEMMA MarksResetMoves ==
    ASSUME IInv, NEW h \in Handles, pc[h] = "reset", MarksReset, Others(h), pc'[h] # "reset",
           pc'[h] \notin {"slots", "copy"}, SameCkpt(h), SameWriter(h),
           Writing(h)', Backfilling(h)', Protected(h)'
    PROVE  Safe'
  <1>1. /\ shm'.hdr = shm.hdr /\ shm'.nBackfill = 0 /\ shm'.valid = shm.valid
        /\ shm.hdr.mx \in Nat
    BY DEF MarksReset, IInv, Forms, SharedForms, IsHdr
  <1>2. \A g \in Handles \ {h} : ~InLog(g)
    BY DEF IInv, Safe, Alone, InLog, Reading
  <1>3. \A k \in Handles : pc[k] = "reset" => k = h
    BY DEF IInv, Safe, Writing
  <1>4. \A k \in Handles : pc'[k] # "reset"
    BY <1>3 DEF Others
  <1>5. Alone' /\ BackfillsHdr'
    BY <1>1, <1>4 DEF Alone, BackfillsHdr
  <1> QED
    BY <1>1, <1>2, <1>5, HasLock, OneMoves DEF HdrFor

LEMMA MarksResetForms ==
    ASSUME IInv, MarksReset
    PROVE  /\ shm' \in [valid : BOOLEAN, hdr : {shm'.hdr}, index : {shm'.index}, nBackfill : Nat,
                        mark : [Slots -> Nat]]
           /\ IsHdr(shm'.hdr) /\ shm'.hdr = shm.hdr
  <1> DEFINE m == [i \in Slots |-> IF i = 1 THEN 0 ELSE NotUsed]
  <1>1. m \in [Slots -> Nat]
    BY DEF NotUsed
  <1>2. shm' = [shm EXCEPT !.nBackfill = 0, !.mark = m]
    BY DEF MarksReset
  <1> HIDE DEF m
  <1>3. SharedForms
    BY DEF IInv, Forms
  <1>4. /\ shm'.hdr = shm.hdr /\ shm'.mark = m /\ shm'.nBackfill = 0
        /\ shm' \in [valid : BOOLEAN, hdr : {shm'.hdr}, index : {shm'.index}, nBackfill : Nat,
                     mark : [Slots -> Nat]]
    BY <1>1, <1>2, <1>3 DEF SharedForms
  <1> QED
    BY <1>3, <1>4 DEF SharedForms

LEMMA ResetMarksSafe == ASSUME IInv, NEW h \in Handles, ResetMarks(h) PROVE IInv'
  <1>1. /\ pc[h] = "reset" /\ ckpt.by # h /\ MarksReset
        /\ Goto(h, "hdr") /\ slot' = [slot EXCEPT ![h] = NoSlot]
        /\ UNCHANGED <<own, mark, writer, todo, ckpt>>
    BY DEF ResetMarks
  <1>2. "hdr" \in Places /\ NoSlot \in 0 .. NoSlot
    BY DEF Places
  <1>3. /\ own' = [own EXCEPT ![h] = own[h]] /\ IsHdr(own[h])
        /\ mark' = [mark EXCEPT ![h] = mark[h]] /\ mark[h] \in Nat
    BY <1>1, Keeps
  <1>4. slot' = [slot EXCEPT ![h] = NoSlot] /\ Goto(h, "hdr")
    BY <1>1
  <1>5. /\ HandleForms' /\ Others(h) /\ pc'[h] = "hdr" /\ own'[h] = own[h]
        /\ slot'[h] = NoSlot
    BY <1>2, <1>3, <1>4, Goes
  <1>6. Writing(h)
    BY DEF IInv, Safe
  <1>7. Writing(h)'
    BY <1>1, <1>5, <1>6, MarksResetForms DEF Writing, Writes, Starts
  <1>8. Backfilling(h)' /\ Protected(h)'
    BY <1>1, <1>5 DEF Backfilling, Protected, InLog, Reading, Copies
  <1>9. Safe'
    BY <1>1, <1>5, <1>7, <1>8, MarksResetMoves DEF SameCkpt, SameWriter
  <1>10. SharedForms'
    BY <1>1, MarksResetForms DEF IInv, Forms, SharedForms
  <1> QED
    BY <1>5, <1>9, <1>10 DEF IInv, Forms

(***************************************************************************)
(* Checkpoints.                                                            *)
(***************************************************************************)

\* A step of a checkpoint from one of its places to another.
LEMMA CopierMoves ==
    ASSUME IInv, NEW h \in Handles, Others(h), shm.valid,
           pc[h] \notin {"lock", "reset"}, pc'[h] # "reset",
           slot'[h] \in Slots => slot'[h] = slot[h],
           shm'.hdr = shm.hdr, shm'.valid = shm.valid, SameCkpt(h), SameWriter(h),
           \A g \in Handles \ {h} : InLog(g) => Spares(h, g),
           Writing(h)', Backfilling(h)', Protected(h)',
           shm'.nBackfill <= shm.hdr.mx \/ shm'.nBackfill = shm.nBackfill
    PROVE  Safe'
  <1> USE DEF IInv, Safe
  <1>1. \A g \in Handles : pc'[g] = "reset" <=> pc[g] = "reset"
    BY DEF Others
  <1>2. Alone'
    <2> SUFFICES ASSUME NEW k \in Handles, NEW g \in Handles,
                        pc'[k] = "reset", g # k, slot'[g] \in Slots
                 PROVE  pc'[g] = "lock"
      BY DEF Alone
    <2>1. pc[k] = "reset" /\ slot[g] = slot'[g]
      BY <1>1 DEF Others
    <2>2. pc[g] = "lock"
      BY <2>1 DEF Alone
    <2> QED
      BY <2>2 DEF Others
  <1>3. BackfillsHdr'
    BY <1>1 DEF BackfillsHdr, Restarting
  <1> QED
    BY <1>2, <1>3, OneMoves DEF HdrFor

LEMMA CheckpointSafe ==
    ASSUME OwnPassive, IInv, NEW h \in Checkpointers, NEW mode \in Modes[h], Checkpoint(h, mode)
    PROVE  IInv'
  <1>0. h \in Handles /\ mode \in {"PASSIVE", "FULL", "RESTART", "TRUNCATE"}
    OBVIOUS
  <1> DEFINE l == IF mode = "PASSIVE" THEN "ckptHdr" ELSE "ckptWrite"
  <1>1. /\ pc[h] = "idle" /\ shm.valid /\ ckpt.by = Nobody
        /\ ckpt' = [NoCkpt EXCEPT !.by = h, !.mode = mode]
        /\ Goto(h, l) /\ UNCHANGED <<shm, own, slot, mark, writer, todo>>
    BY DEF Checkpoint
  <1>2. l \in Places /\ l \in {"ckptHdr", "ckptWrite"} /\ (l = "ckptHdr" <=> mode = "PASSIVE")
    BY DEF Places
  <1> HIDE DEF l
  <1>3. HandleForms' /\ Others(h) /\ pc'[h] = l
    BY <1>0, <1>1, <1>2, GoesOn
  <1>4. /\ ckpt'.by = h /\ ckpt'.mode = mode
        /\ ckpt' \in [by : Handles \cup {Nobody}, mode : {"PASSIVE", "FULL", "RESTART", "TRUNCATE"},
                      next : Nat, upTo : Nat, left : {ckpt'.left}]
    BY <1>0, <1>1 DEF NoCkpt
  <1>5. writer # h
    BY <1>0, <1>1, HasLock
  <1>6. Writing(h)' /\ Protected(h)'
    BY <1>1, <1>2, <1>3, <1>5 DEF Writing, Protected, InLog, Reading, Writes
  <1>7. Backfilling(h)'
    BY <1>2, <1>3, <1>4 DEF Backfilling, Copies, OwnPassive
  <1>8. \A g \in Handles \ {h} : InLog(g) => Spares(h, g)
    BY <1>1, <1>2, <1>3 DEF IInv, Safe, Protected, Spares
  <1>9. SharedForms'
    BY <1>1, <1>4 DEF IInv, Forms, SharedForms
  <1>10. Safe'
    BY <1>0, <1>1, <1>2, <1>3, <1>4, <1>6, <1>7, <1>8, CopierMoves DEF SameCkpt, SameWriter
  <1> QED
    BY <1>3, <1>9, <1>10 DEF IInv, Forms

LEMMA LockWriteSafe == ASSUME IInv, NEW h \in Handles, LockWrite(h) PROVE IInv'
  <1>1. /\ pc[h] = "ckptWrite" /\ writer = Nobody /\ writer' = h /\ Goto(h, "ckptHdr")
        /\ UNCHANGED <<shm, own, slot, mark, todo, ckpt>>
    BY DEF LockWrite
  <1>2. "ckptHdr" \in Places
    BY DEF Places
  <1>3. HandleForms' /\ Others(h) /\ pc'[h] = "ckptHdr"
    BY <1>1, <1>2, GoesOn
  <1>4. shm.valid /\ Backfilling(h) /\ ckpt.by = h
    BY <1>1, HasLock DEF IInv, Safe, Backfilling
  <1>5. Writing(h)' /\ Protected(h)'
    BY <1>1, <1>3, <1>4 DEF Writing, Protected, InLog, Reading, Writes, Copies
  <1>6. Backfilling(h)'
    BY <1>1, <1>3, <1>4 DEF Backfilling, Copies
  <1>7. \A g \in Handles \ {h} : InLog(g) => Spares(h, g)
    BY <1>1, <1>3 DEF IInv, Safe, Protected, Spares
  <1>8. SharedForms'
    BY <1>1 DEF IInv, Forms, SharedForms
  <1>9. Safe'
    BY <1>1, <1>3, <1>4, <1>5, <1>6, <1>7, CopierMoves DEF SameCkpt, SameWriter
  <1> QED
    BY <1>3, <1>8, <1>9 DEF IInv, Forms

LEMMA ReadCkptHdrSafe == ASSUME IInv, NEW h \in Handles, ReadCkptHdr(h) PROVE IInv'
  <1>1. /\ pc[h] = "ckptHdr" /\ own' = [own EXCEPT ![h] = shm.hdr] /\ Goto(h, "iterator")
        /\ UNCHANGED <<shm, slot, mark, writer, todo, ckpt>>
    BY DEF ReadCkptHdr
  <1>2. "iterator" \in Places /\ IsHdr(shm.hdr)
    BY DEF Places, IInv, Forms, SharedForms
  <1>5. HandleForms' /\ Others(h) /\ pc'[h] = "iterator" /\ own'[h] = shm.hdr
    BY <1>1, <1>2, GoesWith
  <1>6. shm.valid /\ Backfilling(h) /\ Writing(h) /\ ckpt.by = h
    BY <1>1, HasLock DEF IInv, Safe, Backfilling, Copies
  <1>7. Writing(h)' /\ Protected(h)'
    BY <1>1, <1>5, <1>6 DEF Writing, Protected, InLog, Reading, Writes, Copies
  <1>8. Backfilling(h)'
    BY <1>1, <1>5, <1>6 DEF Backfilling, Copies
  <1>9. \A g \in Handles \ {h} : InLog(g) => Spares(h, g)
    BY <1>1, <1>5 DEF IInv, Safe, Protected, Spares
  <1>10. Forms'
    BY <1>1, <1>5, FormsKept
  <1>11. Safe'
    BY <1>1, <1>5, <1>6, <1>7, <1>8, <1>9, CopierMoves DEF SameCkpt, SameWriter
  <1> QED
    BY <1>10, <1>11 DEF IInv

\* A handle that stays with its checkpoint keeps its locks and what they give it.
LEMMA CopierStays ==
    ASSUME IInv, NEW h \in Handles, pc[h] \in Copies, pc'[h] \in Copies, writer' = writer,
           ckpt'.by = ckpt.by
    PROVE  /\ shm.valid /\ ckpt.by = h /\ Backfilling(h)
           /\ Writing(h)' /\ Protected(h)'
  <1>1. shm.valid /\ ckpt.by = h /\ Backfilling(h) /\ Writing(h)
    BY HasLock DEF IInv, Safe, Backfilling, Copies
  <1>2. Writing(h)'
    BY <1>1 DEF Writing, Writes, Copies
  <1>3. Protected(h)'
    BY DEF Protected, InLog, Reading, Copies
  <1> QED
    BY <1>1, <1>2, <1>3

LEMMA BuildIteratorSafe == ASSUME IInv, NEW h \in Handles, BuildIterator(h) PROVE IInv'
  <1>1. PICK work \in BOOLEAN :
           /\ pc[h] = "iterator" /\ Goto(h, IF work THEN "slots" ELSE "drain")
           /\ UNCHANGED <<shm, own, slot, mark, writer, todo>>
           /\ ~work => ckpt' = ckpt
           /\ work => \E left : ckpt' = [ckpt EXCEPT !.next = 1, !.upTo = own[h].mx, !.left = left]
    BY DEF BuildIterator
  <1>2. PICK l : l = (IF work THEN "slots" ELSE "drain") /\ l \in Places /\ l \in Copies
    BY DEF Places, Copies
  <1>3. Goto(h, l)
    BY <1>1, <1>2
  <1>4. HandleForms' /\ Others(h) /\ pc'[h] = l
    BY <1>1, <1>2, <1>3, GoesOn
  <1>5. own[h].mx \in Nat
    BY Keeps DEF IsHdr
  <1>6. /\ ckpt'.by = ckpt.by /\ ckpt'.mode = ckpt.mode
        /\ work => ckpt'.next = 1 /\ ckpt'.upTo = own[h].mx
        /\ ckpt' \in [by : Handles \cup {Nobody}, mode : {"PASSIVE", "FULL", "RESTART", "TRUNCATE"},
                      next : Nat, upTo : Nat, left : {ckpt'.left}]
    <2>0. SharedForms
      BY DEF IInv, Forms
    <2>1. CASE ~work
      BY <1>1, <2>0, <2>1 DEF SharedForms
    <2>2. CASE work
      <3>1. PICK left : ckpt' = [ckpt EXCEPT !.next = 1, !.upTo = own[h].mx, !.left = left]
        BY <1>1, <2>2
      <3> QED
        BY <1>5, <2>0, <3>1 DEF SharedForms
    <2> QED
      BY <2>1, <2>2
  <1>7. shm.valid /\ ckpt.by = h /\ Backfilling(h) /\ Writing(h)' /\ Protected(h)'
    BY <1>1, <1>2, <1>4, <1>6, CopierStays DEF Copies
  <1>8. Backfilling(h)'
    <2>1. own[h] = shm.hdr
      BY <1>1, <1>7 DEF Backfilling
    <2>0. shm'.hdr = shm.hdr
      BY <1>1
    <2>2. work => ckpt'.upTo <= shm'.hdr.mx /\ ckpt'.next > 0
      BY <1>5, <1>6, <2>0, <2>1
    <2>3. writer' = writer /\ own'[h] = shm'.hdr /\ (pc'[h] = "slots" => work) /\ pc'[h] # "copy"
      BY <1>1, <1>2, <1>4, <2>1
    <2> QED
      BY <1>1, <1>2, <1>4, <1>6, <1>7, <2>2, <2>3 DEF Backfilling, Copies
  <1>9. ASSUME NEW g \in Handles \ {h}, InLog(g) PROVE Spares(h, g)
    <2>1. ~(slot[g] < 1)
      BY <1>9 DEF InLog
    <2> QED
      BY <1>1, <1>2, <1>4, <1>6, <1>9, <2>1 DEF IInv, Safe, Protected, Spares
  <1>10. Safe'
    BY <1>1, <1>2, <1>4, <1>6, <1>7, <1>8, <1>9, CopierMoves DEF SameCkpt, SameWriter, Copies
  <1>11. SharedForms'
    BY <1>1, <1>6 DEF IInv, Forms, SharedForms
  <1> QED
    BY <1>4, <1>10, <1>11 DEF IInv, Forms

\* The readers of a slot that is passed need no more than the checkpoint copies: their
\* mark, which is not past their snapshot, is not below it.
LEMMA PassSlotSafe == ASSUME IInv, NEW h \in Handles, PassSlot(h) PROVE IInv'
  <1>1. PICK i : i = ckpt.next /\ i <= NSlots
    BY DEF PassSlot
  <1>2. /\ pc[h] = "slots" /\ Goto(h, "slots")
        /\ UNCHANGED <<own, slot, mark, writer, todo>>
        /\ \/ ~(shm.mark[i] < ckpt.upTo) /\ ckpt' = [ckpt EXCEPT !.next = i + 1] /\ UNCHANGED shm
           \/ /\ SlotFree(i) /\ ckpt' = [ckpt EXCEPT !.next = i + 1]
              /\ shm' = [shm EXCEPT !.mark[i] = IF i = 1 THEN ckpt.upTo ELSE NotUsed]
           \/ /\ shm.mark[i] < ckpt.upTo
              /\ ckpt' = [ckpt EXCEPT !.next = i + 1, !.upTo = shm.mark[i]] /\ UNCHANGED shm
    BY <1>1 DEF PassSlot
  <1>3. "slots" \in Places
    BY DEF Places
  <1>4. HandleForms' /\ Others(h) /\ pc'[h] = "slots"
    BY <1>2, <1>3, GoesOn
  <1>5. SharedForms /\ i \in Slots /\ ckpt.by = h /\ ckpt.upTo \in Nat /\ shm.mark \in [Slots -> Nat]
    <2>1. SharedForms
      BY DEF IInv, Forms
    <2>2. Backfilling(h)
      BY DEF IInv, Safe
    <2>3. ckpt.by = h /\ ckpt.next > 0 /\ ckpt.next \in Nat
      BY <1>2, <2>1, <2>2 DEF Backfilling, Copies, SharedForms
    <2> QED
      BY <1>1, <2>1, <2>3 DEF SharedForms
  <1>6. /\ ckpt'.by = ckpt.by /\ ckpt'.mode = ckpt.mode /\ ckpt'.next = i + 1
        /\ ckpt'.upTo \in Nat /\ ckpt'.upTo <= ckpt.upTo
        /\ ckpt' \in [by : Handles \cup {Nobody}, mode : {"PASSIVE", "FULL", "RESTART", "TRUNCATE"},
                      next : Nat, upTo : Nat, left : {ckpt'.left}]
    <2>1. shm.mark[i] \in Nat /\ i + 1 \in Nat
      BY <1>5
    <2>2. CASE ckpt' = [ckpt EXCEPT !.next = i + 1]
      BY <1>5, <2>1, <2>2 DEF SharedForms
    <2>3. CASE shm.mark[i] < ckpt.upTo /\ ckpt' = [ckpt EXCEPT !.next = i + 1, !.upTo = shm.mark[i]]
      <3>1. /\ ckpt'.by = ckpt.by /\ ckpt'.mode = ckpt.mode /\ ckpt'.next = i + 1
            /\ ckpt'.upTo = shm.mark[i]
            /\ ckpt' \in [by : Handles \cup {Nobody},
                          mode : {"PASSIVE", "FULL", "RESTART", "TRUNCATE"},
                          next : Nat, upTo : Nat, left : {ckpt'.left}]
        BY <1>5, <2>1, <2>3 DEF SharedForms
      <3>2. shm.mark[i] <= ckpt.upTo
        BY <1>5, <2>1, <2>3
      <3> QED
        BY <2>1, <3>1, <3>2
    <2> QED
      BY <1>2, <2>2, <2>3
  <1>7. PICK m \in Nat : m = IF i = 1 THEN ckpt.upTo ELSE NotUsed
    BY <1>5 DEF NotUsed
  <1>8. /\ shm' \in [valid : BOOLEAN, hdr : {shm'.hdr}, index : {shm'.index}, nBackfill : Nat,
                     mark : [Slots -> Nat]]
        /\ shm'.hdr = shm.hdr /\ shm'.nBackfill = shm.nBackfill /\ shm'.valid = shm.valid
        /\ \A j \in Slots : shm'.mark[j] = shm.mark[j] \/ (j = i /\ SlotFree(i))
    <2>1. CASE UNCHANGED shm
      BY <1>5, <2>1 DEF SharedForms
    <2>2. CASE SlotFree(i) /\ shm' = [shm EXCEPT !.mark[i] = m]
      <3>1. /\ shm' \in [valid : BOOLEAN, hdr : {shm'.hdr}, index : {shm'.index},
                         nBackfill : Nat, mark : [Slots -> Nat]]
            /\ shm'.hdr = shm.hdr /\ shm'.nBackfill = shm.nBackfill /\ shm'.valid = shm.valid
            /\ shm'.mark = [shm.mark EXCEPT ![i] = m]
        BY <1>5, <1>7, <2>2 DEF SharedForms
      <3> QED
        BY <1>5, <2>2, <3>1
    <2> QED
      BY <1>2, <1>7, <2>1, <2>2
  <1>9. /\ shm.valid /\ Backfilling(h) /\ Writing(h)' /\ Protected(h)'
        /\ ckpt.upTo <= shm.hdr.mx /\ shm.hdr.mx \in Nat
    <2>1. shm.valid /\ Backfilling(h) /\ Writing(h)' /\ Protected(h)'
      BY <1>2, <1>4, <1>6, CopierStays DEF Copies
    <2> QED
      BY <1>2, <1>5, <2>1 DEF Backfilling, SharedForms, IsHdr
  <1>10. Backfilling(h)'
    <2>1. ckpt'.upTo <= shm'.hdr.mx /\ ckpt'.next > 0
      <3>1. \A x, y, z \in Nat : x <= y /\ y <= z => x <= z
        OBVIOUS
      <3>2. i + 1 > 0
        BY <1>5
      <3>3. ckpt'.upTo <= shm.hdr.mx
        BY <1>5, <1>6, <1>9, <3>1
      <3> QED
        BY <1>6, <1>8, <3>2, <3>3
    <2>2. own'[h] = shm'.hdr /\ writer' = writer
      BY <1>2, <1>5, <1>8, <1>9 DEF Backfilling
    <2> QED
      BY <1>2, <1>4, <1>5, <1>6, <1>9, <2>1, <2>2 DEF Backfilling, Copies
  <1>11. ASSUME NEW g \in Handles \ {h}, InLog(g) PROVE Spares(h, g)
    <2>1. Protected(g) /\ slot[g] \in Slots /\ own[g].mx \in Nat /\ pc'[h] # "copy"
      BY <1>4, <1>11, Keeps DEF IInv, Safe, InLog, IsHdr
    <2>2. g \in Holders(slot[g])
      BY <1>11 DEF Holders, InLog, Reading
    <2>3. shm'.mark[slot[g]] = shm.mark[slot[g]] /\ ~(slot[g] = i /\ SlotFree(i))
      BY <1>8, <2>1, <2>2 DEF SlotFree
    <2>4. mark[g] = shm.mark[slot[g]] /\ mark[g] <= own[g].mx /\ shm.nBackfill <= own[g].mx
      BY <1>11, <2>1 DEF Protected
    <2>5. ASSUME slot[g] < ckpt'.next PROVE ckpt'.upTo <= own[g].mx
      <3>1. CASE slot[g] < i
        <4>1. ckpt.upTo <= own[g].mx
          BY <1>1, <1>2, <1>11, <2>1, <3>1 DEF Protected, Spared
        <4> QED
          BY <1>5, <1>6, <2>1, <4>1
      <3>2. CASE slot[g] = i
        <4>1. ckpt'.upTo <= shm.mark[i]
          <5>1. CASE ~(shm.mark[i] < ckpt.upTo) /\ ckpt' = [ckpt EXCEPT !.next = i + 1]
            BY <1>5, <1>6, <5>1
          <5>2. CASE shm.mark[i] < ckpt.upTo
                     /\ ckpt' = [ckpt EXCEPT !.next = i + 1, !.upTo = shm.mark[i]]
            BY <1>5, <5>2 DEF SharedForms
          <5> QED
            BY <1>2, <2>3, <3>2, <5>1, <5>2
        <4> QED
          BY <1>5, <1>6, <2>1, <2>4, <3>2, <4>1
      <3>3. slot[g] < i \/ slot[g] = i
        BY <1>5, <1>6, <2>1, <2>5
      <3> QED
        BY <3>1, <3>2, <3>3
    <2> QED
      BY <1>8, <2>1, <2>3, <2>4, <2>5 DEF Spares
  <1>12. Safe'
    BY <1>2, <1>4, <1>5, <1>6, <1>8, <1>9, <1>10, <1>11, CopierMoves DEF SameCkpt, SameWriter
  <1>13. SharedForms'
    BY <1>2, <1>5, <1>6, <1>8 DEF SharedForms
  <1> QED
    BY <1>4, <1>12, <1>13 DEF IInv, Forms
\* All slots passed: whoever reads the log needs no more than is copied.
LEMMA StartCopySafe == ASSUME IInv, NEW h \in Handles, StartCopy(h) PROVE IInv'
  <1>1. PICK l \in {"drain", "copy"} :
           /\ pc[h] = "slots" /\ ckpt.next > NSlots /\ Goto(h, l)
           /\ UNCHANGED <<shm, own, slot, mark, writer, todo>>
           /\ \E left : ckpt' = [ckpt EXCEPT !.left = left]
    BY DEF StartCopy
  <1>2. l \in Places /\ l \in Copies
    BY DEF Places, Copies
  <1>3. HandleForms' /\ Others(h) /\ pc'[h] = l
    BY <1>1, <1>2, GoesOn
  <1>4. /\ ckpt'.by = ckpt.by /\ ckpt'.mode = ckpt.mode /\ ckpt'.upTo = ckpt.upTo
        /\ ckpt.next \in Nat
        /\ ckpt' \in [by : Handles \cup {Nobody}, mode : {"PASSIVE", "FULL", "RESTART", "TRUNCATE"},
                      next : Nat, upTo : Nat, left : {ckpt'.left}]
    <2>1. PICK left : ckpt' = [ckpt EXCEPT !.left = left]
      BY <1>1
    <2> QED
      BY <2>1 DEF IInv, Forms, SharedForms
  <1>5. shm.valid /\ ckpt.by = h /\ Backfilling(h) /\ Writing(h)' /\ Protected(h)'
    BY <1>1, <1>2, <1>3, <1>4, CopierStays DEF Copies
  <1>6. Backfilling(h)'
    BY <1>1, <1>3, <1>4, <1>5 DEF Backfilling, Copies
  <1>7. ASSUME NEW g \in Handles \ {h}, InLog(g) PROVE Spares(h, g)
    <2>1. Protected(g) /\ slot[g] \in 1 .. NSlots
      BY <1>7 DEF IInv, Safe, InLog
    <2>2. slot[g] < ckpt.next
      BY <1>1, <1>4, <2>1
    <2>3. ckpt.upTo <= own[g].mx /\ shm.nBackfill <= own[g].mx
      BY <1>1, <1>7, <2>1, <2>2 DEF Protected, Spared
    <2> QED
      BY <1>1, <1>4, <2>3 DEF Spares
  <1>8. Safe'
    BY <1>1, <1>3, <1>4, <1>5, <1>6, <1>7, CopierMoves DEF SameCkpt, SameWriter
  <1>9. SharedForms'
    BY <1>1, <1>4 DEF IInv, Forms, SharedForms
  <1> QED
    BY <1>3, <1>8, <1>9 DEF IInv, Forms

LEMMA CopyPageSafe == ASSUME IInv, NEW h \in Handles, CopyPage(h) PROVE IInv'
  <1>1. /\ pc[h] = "copy" /\ UNCHANGED <<shm, pc, own, slot, mark, writer, todo>>
        /\ \E left : ckpt' = [ckpt EXCEPT !.left = left]
    BY DEF CopyPage, handles
  <1>2. Others(h)
    BY <1>1 DEF Others
  <1>3. HandleForms'
    BY <1>1 DEF IInv, Forms, HandleForms
  <1>4. /\ ckpt'.by = ckpt.by /\ ckpt'.mode = ckpt.mode /\ ckpt'.upTo = ckpt.upTo
        /\ ckpt' \in [by : Handles \cup {Nobody}, mode : {"PASSIVE", "FULL", "RESTART", "TRUNCATE"},
                      next : Nat, upTo : Nat, left : {ckpt'.left}]
    <2>1. PICK left : ckpt' = [ckpt EXCEPT !.left = left]
      BY <1>1
    <2> QED
      BY <2>1 DEF IInv, Forms, SharedForms
  <1>5. shm.valid /\ ckpt.by = h /\ Backfilling(h) /\ Writing(h)' /\ Protected(h)'
    BY <1>1, <1>4, CopierStays DEF Copies
  <1>6. Backfilling(h)'
    BY <1>1, <1>4, <1>5 DEF Backfilling, Copies
  <1>7. ASSUME NEW g \in Handles \ {h}, InLog(g) PROVE Spares(h, g)
    <2>1. Protected(g)
      BY <1>7 DEF IInv, Safe
    <2>2. ckpt.upTo <= own[g].mx /\ shm.nBackfill <= own[g].mx
      BY <1>1, <1>7, <2>1 DEF Protected, Spared
    <2> QED
      BY <1>1, <1>4, <2>2 DEF Spares
  <1>8. Safe'
    BY <1>1, <1>2, <1>4, <1>5, <1>6, <1>7, CopierMoves DEF SameCkpt, SameWriter
  <1>9. SharedForms'
    BY <1>1, <1>4 DEF IInv, Forms, SharedForms
  <1> QED
    BY <1>3, <1>8, <1>9 DEF IInv, Forms

\* A checkpoint that ends gives its locks back and leaves no trace of its own.
LEMMA EndsCheckpoint ==
    ASSUME IInv, NEW h \in Handles, pc[h] \in Copies \cup {"reset"}, ckpt.by = h, EndCheckpoint(h)
    PROVE  /\ HandleForms' /\ Others(h) /\ pc'[h] = "idle" /\ slot'[h] = NoSlot
           /\ SameCkpt(h) /\ SameWriter(h)
           /\ Writing(h)' /\ Backfilling(h)' /\ Protected(h)'
           /\ UNCHANGED <<shm, todo>> => SharedForms'
           /\ writer' \in Handles \cup {Nobody}
           /\ ckpt' \in [by : Handles \cup {Nobody},
                         mode : {"PASSIVE", "FULL", "RESTART", "TRUNCATE"},
                         next : Nat, upTo : Nat, left : {ckpt'.left}]
  <1>1. /\ Leave(h) /\ ckpt' = NoCkpt
        /\ writer' = IF writer = h THEN Nobody ELSE writer
    BY DEF EndCheckpoint
  <1>2. HandleForms' /\ Others(h) /\ pc'[h] = "idle" /\ slot'[h] = NoSlot
    BY <1>1, LeaveMoves
  <1>3. /\ ckpt'.by = Nobody
        /\ ckpt' \in [by : Handles \cup {Nobody}, mode : {"PASSIVE", "FULL", "RESTART", "TRUNCATE"},
                      next : Nat, upTo : Nat, left : {ckpt'.left}]
    BY <1>1 DEF NoCkpt
  <1>4. SameCkpt(h) /\ SameWriter(h)
    BY <1>1, <1>3 DEF SameCkpt, SameWriter
  <1>5. writer' # h /\ ckpt'.by # h /\ writer' \in Handles \cup {Nobody}
    BY <1>1, <1>3 DEF IInv, Forms, SharedForms
  <1>6. Writing(h)' /\ Backfilling(h)' /\ Protected(h)'
    BY <1>2, <1>5, IdleSafe
  <1>7. UNCHANGED <<shm, todo>> => SharedForms'
    BY <1>3, <1>5 DEF IInv, Forms, SharedForms
  <1> QED
    BY <1>2, <1>3, <1>4, <1>5, <1>6, <1>7

\* That is all: the others read as before.
LEMMA EndCheckpointSafe ==
    ASSUME IInv, NEW h \in Handles, pc[h] \in Copies, EndCheckpoint(h), UNCHANGED <<shm, todo>>
    PROVE  IInv'
  <1>1. shm.valid /\ ckpt.by = h
    BY HasLock DEF IInv, Safe, Backfilling, Copies
  <1>2. /\ HandleForms' /\ Others(h) /\ pc'[h] = "idle" /\ slot'[h] = NoSlot
        /\ SameCkpt(h) /\ SameWriter(h) /\ SharedForms'
        /\ Writing(h)' /\ Backfilling(h)' /\ Protected(h)'
    BY <1>1, EndsCheckpoint
  <1>3. \A g \in Handles \ {h} : InLog(g) => Spares(h, g)
    BY <1>2 DEF IInv, Safe, Protected, Spares
  <1>4. slot'[h] \notin Slots
    BY <1>2
  <1>5. Safe'
    BY <1>1, <1>2, <1>3, <1>4, CopierMoves DEF Copies
  <1> QED
    BY <1>2, <1>5 DEF IInv, Forms

LEMMA CopyFailsSafe == ASSUME IInv, NEW h \in Handles, CopyFails(h) PROVE IInv'
  BY EndCheckpointSafe DEF CopyFails, Copies

\* What is recorded as copied is what every reader of the log could spare.
LEMMA EndCopySafe == ASSUME IInv, NEW h \in Handles, EndCopy(h) PROVE IInv'
  <1>1. /\ pc[h] = "copy" /\ Goto(h, "drain") /\ shm' = [shm EXCEPT !.nBackfill = ckpt.upTo]
        /\ UNCHANGED <<own, slot, mark, writer, todo, ckpt>>
    BY DEF EndCopy
  <1>2. "drain" \in Places
    BY DEF Places
  <1>3. HandleForms' /\ Others(h) /\ pc'[h] = "drain"
    BY <1>1, <1>2, GoesOn
  <1>4. ckpt.upTo \in Nat
    BY DEF IInv, Forms, SharedForms
  <1>5. /\ shm' \in [valid : BOOLEAN, hdr : {shm'.hdr}, index : {shm'.index}, nBackfill : Nat,
                     mark : [Slots -> Nat]]
        /\ shm'.hdr = shm.hdr /\ shm'.valid = shm.valid /\ shm'.mark = shm.mark
        /\ shm'.nBackfill = ckpt.upTo
    BY <1>1, <1>4 DEF IInv, Forms, SharedForms
  <1>6. shm.valid /\ ckpt.by = h /\ Backfilling(h) /\ Writing(h)' /\ Protected(h)'
    <2>1. shm.valid /\ ckpt.by = h /\ Backfilling(h) /\ Writing(h)
      BY <1>1, HasLock DEF IInv, Safe, Backfilling, Copies
    <2>2. Writing(h)'
      BY <1>1, <1>3, <2>1 DEF Writing, Writes, Copies
    <2> QED
      BY <1>3, <2>1, <2>2 DEF Protected, InLog, Reading
  <1>7. Backfilling(h)'
    BY <1>1, <1>3, <1>5, <1>6 DEF Backfilling, Copies
  <1>8. ckpt.upTo <= shm.hdr.mx
    BY <1>1, <1>6 DEF Backfilling
  <1>9. ASSUME NEW g \in Handles \ {h}, InLog(g) PROVE Spares(h, g)
    <2>1. ckpt.upTo <= own[g].mx
      BY <1>1, <1>9 DEF IInv, Safe, Protected, Spared
    <2> QED
      BY <1>3, <1>5, <2>1 DEF Spares
  <1>10. Safe'
    BY <1>1, <1>3, <1>5, <1>6, <1>7, <1>8, <1>9, CopierMoves DEF SameCkpt, SameWriter
  <1>11. SharedForms'
    BY <1>1, <1>5 DEF IInv, Forms, SharedForms
  <1> QED
    BY <1>3, <1>10, <1>11 DEF IInv, Forms

LEMMA DrainSafe == ASSUME IInv, NEW h \in Handles, Drain(h) PROVE IInv'
  <1>1. pc[h] = "drain" /\ UNCHANGED todo
    BY DEF Drain
  <1>2. CASE EndCheckpoint(h) /\ UNCHANGED shm
    BY <1>1, <1>2, EndCheckpointSafe DEF Copies
  <1>3. CASE /\ ckpt.mode = "TRUNCATE" /\ MarkedFree(h) /\ NewHdr(h)
             /\ UNCHANGED <<slot, mark, min, ckpt, writer>>
    <2>1. writer = h
      BY <1>1, <1>3 DEF IInv, Safe, Backfilling, Copies
    <2> QED
      BY <1>1, <1>3, <2>1, NewHdrSafe
  <1> QED
    BY <1>2, <1>3 DEF Drain

LEMMA TruncateSafe == ASSUME IInv, NEW h \in Handles, Truncate(h) PROVE IInv'
  <1>1. /\ pc[h] = "reset" /\ ckpt.by = h /\ MarksReset /\ EndCheckpoint(h) /\ UNCHANGED todo
    BY DEF Truncate
  <1>2. /\ HandleForms' /\ Others(h) /\ pc'[h] = "idle"
        /\ SameCkpt(h) /\ SameWriter(h)
        /\ Writing(h)' /\ Backfilling(h)' /\ Protected(h)'
        /\ writer' \in Handles \cup {Nobody}
        /\ ckpt' \in [by : Handles \cup {Nobody},
                      mode : {"PASSIVE", "FULL", "RESTART", "TRUNCATE"},
                      next : Nat, upTo : Nat, left : {ckpt'.left}]
    BY <1>1, EndsCheckpoint
  <1>3. Safe'
    BY <1>1, <1>2, MarksResetMoves
  <1>4. SharedForms'
    BY <1>1, <1>2, MarksResetForms DEF IInv, Forms, SharedForms
  <1> QED
    BY <1>2, <1>3, <1>4 DEF IInv, Forms

(***************************************************************************)
(* Crashes and recovery.                                                   *)
(***************************************************************************)

LEMMA GoneSafe == ASSUME IInv, Gone PROVE IInv'
  <1>1. /\ shm' = [valid |-> FALSE, hdr |-> [mx |-> 0, salt |-> 0, at |-> 0],
                   index |-> [f \in Frames |-> 0], nBackfill |-> 0,
                   mark |-> [i \in Slots |-> NotUsed]]
        /\ pc' = [h \in Handles |-> "idle"]
        /\ own' = [h \in Handles |-> [mx |-> 0, salt |-> 0, at |-> 0]]
        /\ slot' = [h \in Handles |-> NoSlot] /\ mark' = [h \in Handles |-> 0]
        /\ writer' = Nobody /\ todo' = NoTodo /\ ckpt' = NoCkpt
    BY DEF Gone
  <1>2. HandleForms'
    <2>1. pc' \in [Handles -> Places]
      BY <1>1 DEF Places
    <2>2. own' = [h \in Handles |-> own'[h]] /\ \A h \in Handles : IsHdr(own'[h])
      BY <1>1 DEF IsHdr
    <2>3. slot' \in [Handles -> 0 .. NoSlot] /\ mark' \in [Handles -> Nat]
      BY <1>1
    <2> QED
      BY <2>1, <2>2, <2>3 DEF HandleForms
  <1>3. SharedForms'
    <2>1. [i \in Slots |-> NotUsed] \in [Slots -> Nat]
      BY DEF NotUsed
    <2>2. shm' \in [valid : BOOLEAN, hdr : {shm'.hdr}, index : {shm'.index}, nBackfill : Nat,
                    mark : [Slots -> Nat]]
      BY <1>1, <2>1
    <2>3. IsHdr(shm'.hdr)
      BY <1>1 DEF IsHdr
    <2>4. todo' \in [all : SUBSET Pages, left : SUBSET Pages] /\ todo'.left \subseteq todo'.all
      BY <1>1 DEF NoTodo
    <2>5. ckpt' \in [by : Handles \cup {Nobody},
                     mode : {"PASSIVE", "FULL", "RESTART", "TRUNCATE"},
                     next : Nat, upTo : Nat, left : {ckpt'.left}]
      BY <1>1 DEF NoCkpt
    <2> QED
      BY <1>1, <2>2, <2>3, <2>4, <2>5 DEF SharedForms
  <1>4. /\ \A h \in Handles : pc'[h] = "idle"
        /\ writer' = Nobody /\ ckpt'.by = Nobody /\ shm'.nBackfill <= shm'.hdr.mx
    BY <1>1 DEF NoCkpt
  <1>5. Safe'
    BY <1>4 DEF Safe, Writing, Backfilling, Protected, InLog, Reading, BackfillsHdr, Alone,
                Invalid, Writes, Starts, Copies
  <1> QED
    BY <1>2, <1>3, <1>5 DEF IInv, Forms

LEMMA RecoverSafe == ASSUME IInv, Recover PROVE IInv'
  <1> DEFINE valid == {f \in Frames : \A g \in 1 .. f : Follows(g)}
             S == {0} \cup {f \in valid : log.frame[f].commit}
             last == Greatest(S)
  <1>1. S \in SUBSET (0 .. MaxFrames) /\ S # {}
    BY DEF Frames
  <1>2. last \in 0 .. MaxFrames
    <2> HIDE DEF S
    <2> QED
      BY <1>1, GreatestIs
  <1>3. PICK at, index :
           shm' = [valid |-> TRUE, hdr |-> [mx |-> last, salt |-> log.salt, at |-> at],
                   index |-> index, nBackfill |-> 0,
                   mark |-> [i \in Slots |-> IF i = 1 /\ last > 0 THEN last ELSE NotUsed]]
    BY DEF Recover
  <1>4. ~shm.valid /\ UNCHANGED <<pc, own, slot, mark, writer, todo, ckpt>>
    BY DEF Recover, handles
  <1> HIDE DEF last
  <1>5. [i \in Slots |-> IF i = 1 /\ last > 0 THEN last ELSE NotUsed] \in [Slots -> Nat]
    BY <1>2 DEF NotUsed
  <1>6. /\ shm' \in [valid : BOOLEAN, hdr : {shm'.hdr}, index : {shm'.index}, nBackfill : Nat,
                     mark : [Slots -> Nat]]
        /\ shm'.hdr = [mx |-> last, salt |-> log.salt, at |-> at] /\ shm'.nBackfill = 0
    BY <1>3, <1>5
  <1>7. IsHdr(shm'.hdr) /\ shm'.nBackfill <= shm'.hdr.mx
    BY <1>2, <1>6 DEF IsHdr
  <1>8. Forms'
    <2>1. HandleForms'
      BY <1>4 DEF IInv, Forms, HandleForms
    <2>2. SharedForms'
      BY <1>4, <1>6, <1>7 DEF IInv, Forms, SharedForms
    <2> QED
      BY <2>1, <2>2 DEF Forms
  <1>9. (\A h \in Handles : pc'[h] = "idle") /\ writer' = Nobody /\ ckpt'.by = Nobody
    BY <1>4 DEF IInv, Safe, Invalid
  <1>10. Safe'
    BY <1>7, <1>9 DEF Safe, Writing, Backfilling, Protected, InLog, Reading, BackfillsHdr, Alone,
                      Invalid, Writes, Starts, Copies
  <1> QED
    BY <1>8, <1>10 DEF IInv

(***************************************************************************)
(* The invariance.                                                         *)
(***************************************************************************)
LEMMA NextIInv == ASSUME OwnPassive, IInv, [Next]_vars PROVE IInv'
  <1>1. CASE UNCHANGED vars
    <2>1. UNCHANGED <<shm, pc, own, slot, mark, writer, todo, ckpt>>
      BY <1>1 DEF vars, handles
    <2> QED
      BY <2>1 DEF IInv, Forms, HandleForms, SharedForms, Safe, Writing, Backfilling, Protected,
                  Spared, InLog, Reading, BackfillsHdr, Restarting, Alone, Invalid
  <1>2. ASSUME NEW h \in Handles, Read(h) PROVE IInv'
    BY <1>2, ReadHdrSafe, LockZeroSafe, CheckZeroSafe, UseLogSafe, ChooseSlotSafe, LockSlotSafe,
       ConfirmSafe, EndReadSafe DEF Read
  <1>3. ASSUME NEW h \in Handles, Write(h) PROVE IInv'
    BY <1>3, BeginWriteSafe, RestartLogSafe, ResetMarksSafe, BeginLogSafe, AppendFrameSafe,
       AbortSafe, IndexFramesSafe, PublishSafe DEF Write
  <1>4. ASSUME NEW h \in Handles, Backfill(h) PROVE IInv'
    BY <1>4, CheckpointSafe, LockWriteSafe, ReadCkptHdrSafe, BuildIteratorSafe, PassSlotSafe,
       StartCopySafe, CopyPageSafe, CopyFailsSafe, EndCopySafe, DrainSafe, TruncateSafe
    DEF Backfill
  <1>5. CASE Crash \/ PowerLoss
    BY <1>5, GoneSafe DEF Crash, PowerLoss
  <1>6. CASE Recover
    BY <1>6, RecoverSafe
  <1> QED
    BY <1>1, <1>2, <1>3, <1>4, <1>5, <1>6 DEF Next

LEMMA IInvSpares == IInv => NotOvertaken
  <1> SUFFICES ASSUME IInv, NEW h \in Handles, Reading(h), slot[h] \in Slots
               PROVE  /\ shm.nBackfill <= own[h].mx
                      /\ pc[h] = "read" /\ own[h].mx > 0 => own[h].salt = shm.hdr.salt
    BY DEF NotOvertaken
  <1> QED
    BY DEF IInv, Safe, Protected, InLog

\* If only the sole writer checkpoints in mode PASSIVE, no checkpoint copies past the
\* snapshot of a transaction that reads the log and nobody begins the log anew under it:
\* walCheckpoint stops at the mark of a slot it cannot lock, and walRestartLog has all
\* slots with a mark to itself.
THEOREM NeverOvertaken ==
    ASSUME OwnPassive
    PROVE  Spec => []NotOvertaken
  <1>1. Init => IInv
    BY InitIInv
  <1>2. IInv /\ [Next]_vars => IInv'
    BY NextIInv
  <1> QED
    BY <1>1, <1>2, IInvSpares, PTL DEF Spec
=============================================================================
