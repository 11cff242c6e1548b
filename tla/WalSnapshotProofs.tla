-------------------------- MODULE WalSnapshotProofs -------------------------
(***************************************************************************)
(* A transaction reads one snapshot, recovery loses nothing it may not     *)
(* lose, and the variables keep their types: Snapshot, NothingLost and     *)
(* TypeOK of module Wal.                                                   *)
(*                                                                         *)
(* WalProofs says who may move the header, nBackfill and the marks, and    *)
(* when; here is what the frames, the database and the commits then are.   *)
(* The invariant, DataInv, has three parts.                                *)
(*   - FilesOk speaks of the files alone, and of every state a power loss  *)
(*     may turn them into: any commit mark that recovery could accept ends *)
(*     a log that makes one of the commits out of the database (Genuine),  *)
(*     and a page of the database that is not as the log found it has a    *)
(*     synced frame in the log (Paged).                                    *)
(*   - Lost says what the files have while there is no wal-index.          *)
(*   - IndexOk says, while there is one, what the published header means   *)
(*     (Published), what nBackfill means (DbOk), and what the writer, the  *)
(*     checkpoint and each reader may rely on where they are.              *)
(* Each action keeps it: one lemma per action, ...Data, all of which use   *)
(* that IInv, of WalProofs, holds before and after.                        *)
(***************************************************************************)
EXTENDS WalProofs

USE RolesAssumption, BoundsAssumption
USE DEF Slots, NoSlot

(***************************************************************************)
(* Chains of frames.                                                       *)
(***************************************************************************)

\* The frames of g, up to k, follow a header with this salt and each other.
Chained(g, k, salt) ==
    \A f \in 1 .. k : /\ g[f].page # 0 /\ g[f].salt = salt
                      /\ g[f].prev = IF f = 1 THEN 0 ELSE g[f - 1].txn

\* Of the frames of g up to k, f is the last of page p.
Latest(g, k, p, f) == f \in 1 .. k /\ g[f].page = p /\ \A i \in f + 1 .. k : g[i].page # p
Absent(g, k, p) == \A f \in 1 .. k : g[f].page # p

(***************************************************************************)
(* The files.                                                              *)
(***************************************************************************)
AllFrames == {NoFrame} \cup UNION {safe.frame[f] : f \in Frames}

\* What a crash may leave of the log up to k.
Choice(g, k) == \A f \in 1 .. k : g[f] \in safe.frame[f] \cup {NoFrame}
Outcome(g, k, salt) == g \in [1 .. k -> AllFrames] /\ Choice(g, k) /\ Chained(g, k, salt)

\* The log to k, as g, is what the first n commits make of the database it was begun on.
Holds(g, k, n) ==
    /\ commits[n].txn = g[k].txn
    /\ \A p \in Pages, f \in Frames : Latest(g, k, p, f) => g[f].txn = Content(n, p)
    /\ \A p \in Pages : Absent(g, k, p) => Content(n, p) = Content(base, p)

\* Whatever a crash leaves of the log, a commit mark in it is that of a commit.
Genuine ==
    \A k \in Frames : \A g \in [1 .. k -> AllFrames] :
        Outcome(g, k, log.salt) /\ g[k].commit => \E n \in base + 1 .. Len(commits) : Holds(g, k, n)

\* No commit mark has this salt.
Dead(salt) ==
    \A k \in Frames : \A g \in [1 .. k -> AllFrames] : Outcome(g, k, salt) => ~g[k].commit

LogCommit(f) == Chained(log.frame, f, log.salt) /\ log.frame[f].commit
StableCommit(f) == LogCommit(f) /\ \A j \in 1 .. f : safe.frame[j] = {log.frame[j]}

\* The log, or the database it was begun on, has the n-th commit; it has it synced.
Has(f, n) == \E m \in n .. Len(commits) : commits[m].txn = log.frame[f].txn
Present(n) == n <= base \/ \E f \in Frames : LogCommit(f) /\ Has(f, n)
Stable(n) == n <= base \/ \E f \in Frames : StableCommit(f) /\ Has(f, n)

Versions ==
    /\ \A f \in Frames : log.frame[f] \in safe.frame[f] /\ IsFiniteSet(safe.frame[f])
    /\ \A f \in Frames : \A x \in safe.frame[f] : x.prev <= x.txn /\ x.txn <= txns
    /\ \A f \in Frames : \A x, y \in safe.frame[f] : x.txn = y.txn => x = y
    /\ \A f \in Frames \ {1} : \A x \in safe.frame[f], y \in safe.frame[f - 1] :
          x.txn = y.txn => ~y.commit

Committed ==
    /\ \A i \in 1 .. Len(commits) :
          /\ i <= commits[i].txn /\ commits[i].txn <= txns
          /\ \A j \in 1 .. i - 1 : commits[j].txn < commits[i].txn
    /\ base <= Len(commits)

\* Of the database file: a page is as the log found it, or the log has it.
Paged ==
    \A p \in Pages :
        /\ db[p] \in safe.page[p]
        /\ \A x \in safe.page[p] :
              \/ x = Content(base, p)
              \/ \E f \in Frames : StableCommit(f) /\ ~Absent(log.frame, f, p)

FilesOk == Versions /\ Committed /\ Genuine /\ Paged /\ Stable(safe.at)

\* After a crash: what it had to leave is there, and if not all is there the files are settled.
Lost == ~shm.valid =>
    /\ Present(kept)
    /\ Present(Len(commits)) \/ \A f \in Frames : safe.frame[f] = {log.frame[f]}

(***************************************************************************)
(* With a wal-index.                                                       *)
(***************************************************************************)
Pending == \E h \in Handles : pc[h] \in {"index", "publish"}

Published ==
    /\ shm.hdr.at = Len(commits) \/ (Pending /\ Len(commits) = shm.hdr.at + 1)
    /\ shm.hdr.at >= kept
    /\ Present(Len(commits))
    /\ shm.hdr.mx > 0 =>
          /\ shm.hdr.salt = log.salt /\ LogCommit(shm.hdr.mx)
          /\ \A f \in 1 .. shm.hdr.mx : shm.index[f] = log.frame[f].page
          /\ base < shm.hdr.at /\ commits[shm.hdr.at].txn = log.frame[shm.hdr.mx].txn
    /\ shm.hdr.mx = 0 =>
          IF shm.hdr.salt = log.salt THEN base = shm.hdr.at ELSE Dead(shm.hdr.salt)

\* The database has what is backfilled; when that is all, it has it synced.
DbOk ==
    /\ \A p \in Pages :
          (\A f \in 1 .. shm.hdr.mx : log.frame[f].page = p => f <= shm.nBackfill)
              => db[p] = Content(shm.hdr.at, p)
    /\ shm.hdr.mx = 0 \/ shm.nBackfill = shm.hdr.mx =>
          \A p \in Pages : safe.page[p] = {Content(shm.hdr.at, p)}

\* The transaction has left no trace.
Untouched ==
    /\ todo.left = todo.all
    /\ \A f \in Frames : \A x \in safe.frame[f] : x.txn < txns
    /\ \A i \in 1 .. Len(commits) : commits[i].txn < txns

\* The frames of the transaction are those from lo to hi, one of each page.
Appended(h, lo, hi) ==
    /\ hi <= MaxFrames
    /\ \A f \in Frames : f < lo \/ f > hi => \A x \in safe.frame[f] : x.txn < txns
    /\ \A f \in lo .. hi :
          /\ log.frame[f].txn = txns /\ log.frame[f].salt = log.salt
          /\ log.frame[f].page \in todo.all \ todo.left
          /\ log.frame[f].prev = IF f = 1 THEN 0 ELSE log.frame[f - 1].txn
          /\ log.frame[f].commit <=> pc[h] # "frames" /\ f = hi
          /\ pc[h] = "publish" => shm.index[f] = log.frame[f].page
    /\ \A p \in todo.all \ todo.left : \E f \in lo .. hi : log.frame[f].page = p

Appending(h) == pc[h] \in {"frames", "index", "publish"}
WriterOk(h) ==
    /\ pc[h] = "begin" \/ Appending(h) => slot[h] \in Slots
    /\ pc[h] = "reset" => own[h] = shm.hdr /\ own[h].mx = 0
    /\ writer = h /\ ckpt.by # h =>
          /\ own[h].at = shm.hdr.at
          /\ txns > 0 /\ todo.all # {}
          /\ ~Appending(h) => Untouched
          /\ Appending(h) =>
                /\ own[h].salt = log.salt
                /\ own[h].mx = 0 => base = shm.hdr.at
                /\ \A i \in 1 .. shm.hdr.at : commits[i].txn < txns
                /\ Appended(h, own[h].mx + 1, NextFrame(h) - 1)
                /\ IF pc[h] = "frames" THEN todo.left # {}
                   ELSE /\ todo.left = {}
                        /\ Len(commits) > shm.hdr.at
                        /\ commits[Len(commits)] = [txn |-> txns, pages |-> todo.all]

CopierOk(h) ==
    /\ pc[h] = "slots" =>
          /\ \A f \in ckpt.left : \E p \in Pages : Latest(log.frame, shm.hdr.mx, p, f)
          /\ \A p \in Pages, f \in Frames : Latest(log.frame, shm.hdr.mx, p, f) => f \in ckpt.left
    /\ pc[h] = "copy" =>
          /\ shm.nBackfill < ckpt.upTo /\ StableCommit(shm.hdr.mx)
          /\ Holders(0) = {}
          /\ \A f \in ckpt.left : /\ shm.nBackfill < f /\ f <= ckpt.upTo
                                  /\ \E p \in Pages : Latest(log.frame, shm.hdr.mx, p, f)
          /\ \A p \in Pages, f \in Frames :
                Latest(log.frame, shm.hdr.mx, p, f) /\ shm.nBackfill < f /\ f <= ckpt.upTo =>
                    f \in ckpt.left \/ db[p] = Content(shm.hdr.at, p)

\* What a transaction reads is its snapshot.
SnapOk(h) ==
    IF slot[h] = 0 THEN \A p \in Pages : db[p] = Content(own[h].at, p)
    ELSE /\ \A p \in Pages, f \in Frames :
               Latest(log.frame, own[h].mx, p, f) => log.frame[f].txn = Content(own[h].at, p)
         /\ \A p \in Pages :
               (\A f \in 1 .. own[h].mx : min[h] <= f => log.frame[f].page # p)
                   => db[p] = Content(own[h].at, p)

ReaderOk(h) ==
    /\ own[h].at <= shm.hdr.at
    /\ slot[h] = 0 /\ pc[h] \in {"check0", "read", "restart"} /\ shm.hdr = own[h] =>
          shm.nBackfill = own[h].mx
    /\ pc[h] = "confirm" /\ shm.hdr = own[h] => min[h] <= shm.nBackfill + 1
    /\ InLog(h) => min[h] <= shm.nBackfill + 1
    /\ Reading(h) => slot[h] # NoSlot /\ SnapOk(h)

IndexOk == shm.valid =>
    Published /\ DbOk /\ \A h \in Handles : WriterOk(h) /\ CopierOk(h) /\ ReaderOk(h)

Idle == \A h \in Handles : pc[h] = "idle" => own[h].at = 0

DataInv == TypeOK /\ FilesOk /\ Lost /\ IndexOk /\ Idle

(***************************************************************************)
(* Lemmas about chains.                                                    *)
(***************************************************************************)

\* Along a chain of frames none of which follows a later transaction, transactions rise.
LEMMA ChainRises ==
    ASSUME NEW g, NEW k \in Nat, NEW salt, Chained(g, k, salt),
           \A f \in 1 .. k : g[f].txn \in Nat /\ g[f].prev <= g[f].txn,
           NEW i \in 1 .. k, NEW j \in 1 .. k, i <= j
    PROVE  g[i].txn <= g[j].txn
  <1> SUFFICES ASSUME g[j].txn < g[i].txn PROVE FALSE
    OBVIOUS
  <1> DEFINE S == {m \in i .. k : g[m].txn < g[i].txn}
  <1>1. S \in SUBSET Nat /\ S # {}
    OBVIOUS
  <1>2. Least(S) \in S /\ \A y \in S : Least(S) <= y
    BY <1>1, LeastIs
  <1>3. PICK m \in S : \A y \in S : m <= y
    BY <1>2
  <1>4. m \in 1 .. k /\ i < m /\ m - 1 \in i .. k /\ m - 1 \in 1 .. k /\ m # 1
    BY <1>3
  <1>5. m - 1 \notin S
    BY <1>3, <1>4
  <1>6. g[i].txn <= g[m - 1].txn
    BY <1>4, <1>5
  <1>7. g[m].prev = g[m - 1].txn
    BY <1>4 DEF Chained
  <1> QED
    BY <1>3, <1>4, <1>6, <1>7

\* Two chains that end in the same frame are the same.
LEMMA ChainUnique ==
    ASSUME NEW V, NEW g, NEW l, NEW k \in Nat, NEW salt, Chained(g, k, salt), Chained(l, k, salt),
           \A f \in 1 .. k : g[f] \in V[f] /\ l[f] \in V[f],
           \A f \in 1 .. k : \A x, y \in V[f] : x.txn = y.txn => x = y,
           k > 0 => g[k] = l[k], NEW j \in 1 .. k
    PROVE  g[j] = l[j]
  <1> SUFFICES ASSUME g[j] # l[j] PROVE FALSE
    OBVIOUS
  <1> DEFINE S == {m \in 1 .. k : g[m] # l[m]}
  <1>1. S \in SUBSET (0 .. k) /\ S # {}
    OBVIOUS
  <1>2. Greatest(S) \in S /\ \A y \in S : y <= Greatest(S)
    BY <1>1, GreatestIs
  <1>3. PICK m \in S : \A y \in S : y <= m
    BY <1>2
  <1>4. m \in 1 .. k /\ m < k
    BY <1>3
  <1>5. m + 1 \in 1 .. k /\ m + 1 # 1 /\ m + 1 - 1 = m
    BY <1>4
  <1>6. m + 1 \notin S
    BY <1>3, <1>4
  <1>7. g[m + 1] = l[m + 1]
    BY <1>5, <1>6
  <1>8. g[m + 1].prev = g[m].txn /\ l[m + 1].prev = l[m].txn
    BY <1>5 DEF Chained
  <1>9. g[m].txn = l[m].txn
    BY <1>7, <1>8
  <1> QED
    BY <1>3, <1>4, <1>9

\* A page that has a frame has a last one.
LEMMA LatestExists ==
    ASSUME NEW g, NEW k \in Nat, NEW p, ~Absent(g, k, p)
    PROVE  \E f \in 1 .. k : Latest(g, k, p, f)
  <1> DEFINE S == {f \in 1 .. k : g[f].page = p}
  <1>1. S \in SUBSET (0 .. k) /\ S # {}
    BY DEF Absent
  <1>2. Greatest(S) \in S /\ \A y \in S : y <= Greatest(S)
    BY <1>1, GreatestIs
  <1>3. PICK f \in S : \A y \in S : y <= f
    BY <1>2
  <1>4. \A i \in f + 1 .. k : g[i].page # p
    BY <1>3
  <1> QED
    BY <1>3, <1>4 DEF Latest

\* Chains that agree are chained alike and have the same last frames.
LEMMA ChainSame ==
    ASSUME NEW g, NEW l, NEW k \in Nat, \A f \in 1 .. k : g[f] = l[f]
    PROVE  /\ \A salt : Chained(g, k, salt) <=> Chained(l, k, salt)
           /\ \A p, f : Latest(g, k, p, f) <=> Latest(l, k, p, f)
           /\ \A p : Absent(g, k, p) <=> Absent(l, k, p)
  <1>1. ASSUME NEW salt PROVE Chained(g, k, salt) <=> Chained(l, k, salt)
    <2>1. \A f \in 1 .. k : f # 1 => f - 1 \in 1 .. k
      OBVIOUS
    <2> QED
      BY <2>1 DEF Chained
  <1>2. ASSUME NEW p, NEW f PROVE Latest(g, k, p, f) <=> Latest(l, k, p, f)
    <2>1. f \in 1 .. k => f + 1 .. k \subseteq 1 .. k
      OBVIOUS
    <2> QED
      BY <2>1 DEF Latest
  <1>3. ASSUME NEW p PROVE Absent(g, k, p) <=> Absent(l, k, p)
    BY DEF Absent
  <1> QED
    BY <1>1, <1>2, <1>3

LEMMA ChainShorter ==
    ASSUME NEW g, NEW k \in Nat, NEW salt, Chained(g, k, salt), NEW j \in 0 .. k
    PROVE  Chained(g, j, salt)
  <1>1. 1 .. j \subseteq 1 .. k
    OBVIOUS
  <1> QED
    BY <1>1 DEF Chained

(***************************************************************************)
(* Lemmas about frames and contents.                                       *)
(***************************************************************************)
LEMMA FrameIs ==
    ASSUME NEW x \in Frame
    PROVE  /\ x.page \in Nat /\ x.txn \in 0 .. MaxTxns /\ x.prev \in 0 .. MaxTxns
           /\ x.salt \in Nat /\ x.commit \in BOOLEAN
           /\ x.page # 0 => x.page \in Pages /\ x.txn > 0 /\ x # NoFrame
           /\ x.page = 0 \/ x.txn = 0 => x = NoFrame
  <1>1. CASE x = NoFrame
    BY <1>1 DEF NoFrame
  <1>2. CASE x \in [page : Pages, txn : 1 .. MaxTxns, prev : 0 .. MaxTxns, salt : Nat,
                    commit : BOOLEAN]
    <2>1. x.page \in 1 .. NPages /\ x.txn \in 1 .. MaxTxns /\ x.prev \in 0 .. MaxTxns
          /\ x.salt \in Nat /\ x.commit \in BOOLEAN
      BY <1>2 DEF Pages
    <2>2. x.page # NoFrame.page
      BY <2>1 DEF NoFrame
    <2> QED
      BY <2>1, <2>2 DEF Pages
  <1> QED
    BY <1>1, <1>2 DEF Frame

LEMMA NoFrameIs ==
    /\ NoFrame \in Frame /\ NoFrame.page = 0 /\ NoFrame.txn = 0 /\ NoFrame.prev = 0
    /\ NoFrame.salt = 0 /\ NoFrame.commit = FALSE
  BY DEF Frame, NoFrame

LEMMA FilesAre ==
    ASSUME TypeOK
    PROVE  /\ log = [salt |-> log.salt, frame |-> log.frame] /\ log.salt \in Nat
           /\ log.frame \in [Frames -> Frame]
           /\ safe = [frame |-> safe.frame, page |-> safe.page, at |-> safe.at]
           /\ safe.frame \in [Frames -> SUBSET Frame]
           /\ safe.page \in [Pages -> SUBSET (0 .. Torn)] /\ safe.at \in Nat
           /\ db \in [Pages -> 0 .. Torn]
           /\ txns \in 0 .. MaxTxns
           /\ Len(commits) \in Nat /\ commits \in Seq([txn : 1 .. MaxTxns, pages : SUBSET Pages])
           /\ \A i \in 1 .. Len(commits) : commits[i] \in [txn : 1 .. MaxTxns, pages : SUBSET Pages]
           /\ base \in Nat /\ kept \in Nat
  <1>1. log \in [salt : Nat, frame : [Frames -> Frame]]
    BY DEF TypeOK
  <1>2. safe \in [frame : [Frames -> SUBSET Frame], page : [Pages -> SUBSET (0 .. Torn)],
                  at : 0 .. MaxTxns]
    BY DEF TypeOK
  <1>3. commits \in Seq([txn : 1 .. MaxTxns, pages : SUBSET Pages])
    BY DEF TypeOK
  <1>4. db \in [Pages -> 0 .. Torn] /\ txns \in 0 .. MaxTxns /\ base \in Nat /\ kept \in Nat
    BY DEF TypeOK
  <1>5. /\ log = [salt |-> log.salt, frame |-> log.frame] /\ log.salt \in Nat
        /\ log.frame \in [Frames -> Frame]
    BY <1>1
  <1>6. /\ safe = [frame |-> safe.frame, page |-> safe.page, at |-> safe.at]
        /\ safe.frame \in [Frames -> SUBSET Frame]
        /\ safe.page \in [Pages -> SUBSET (0 .. Torn)] /\ safe.at \in Nat
    BY <1>2
  <1>7. /\ Len(commits) \in Nat
        /\ \A i \in 1 .. Len(commits) : commits[i] \in [txn : 1 .. MaxTxns, pages : SUBSET Pages]
    <2> DEFINE S == [txn : 1 .. MaxTxns, pages : SUBSET Pages]
    <2>1. commits \in Seq(S)
      BY <1>3
    <2> HIDE DEF S
    <2>2. Len(commits) \in Nat /\ \A i \in 1 .. Len(commits) : commits[i] \in S
      BY <2>1
    <2> QED
      BY <2>2 DEF S
  <1> QED
    BY <1>3, <1>4, <1>5, <1>6, <1>7

LEMMA CountsAre ==
    ASSUME TypeOK
    PROVE  base \in Nat /\ kept \in Nat /\ Len(commits) \in Nat /\ txns \in 0 .. MaxTxns /\ txns \in Nat
  BY FilesAre

LEMMA FrameAt ==
    ASSUME TypeOK, NEW f \in Frames
    PROVE  /\ log.frame[f] \in Frame /\ log.frame[f].txn \in Nat /\ log.frame[f].prev \in Nat
           /\ log.frame[f].page \in Nat /\ log.frame[f].commit \in BOOLEAN
           /\ safe.frame[f] \subseteq Frame
  <1>1. log.frame[f] \in Frame /\ safe.frame[f] \subseteq Frame
    BY FilesAre
  <1> QED
    BY <1>1, FrameIs

LEMMA CommitAt ==
    ASSUME TypeOK, NEW i \in 1 .. Len(commits)
    PROVE  /\ commits[i] = [txn |-> commits[i].txn, pages |-> commits[i].pages]
           /\ commits[i].txn \in 1 .. MaxTxns /\ commits[i].txn \in Nat
           /\ commits[i].pages \subseteq Pages
  <1>1. commits[i] \in [txn : 1 .. MaxTxns, pages : SUBSET Pages]
    BY FilesAre
  <1> QED
    BY <1>1

LEMMA ShmIs ==
    ASSUME TypeOK
    PROVE  /\ shm = [valid |-> shm.valid, hdr |-> shm.hdr, index |-> shm.index,
                     nBackfill |-> shm.nBackfill, mark |-> shm.mark]
           /\ shm.valid \in BOOLEAN /\ shm.nBackfill \in 0 .. MaxFrames
           /\ shm.index \in [Frames -> 0 .. NPages] /\ shm.mark \in [Slots -> 0 .. NotUsed]
           /\ shm.hdr \in Hdr /\ shm.hdr.mx \in 0 .. MaxFrames /\ shm.hdr.at \in 0 .. MaxTxns
           /\ shm.hdr.salt \in Nat
           /\ shm.hdr = [mx |-> shm.hdr.mx, salt |-> shm.hdr.salt, at |-> shm.hdr.at]
           /\ \A h \in Handles : /\ own[h] \in Hdr /\ own[h].mx \in 0 .. MaxFrames
                                 /\ own[h].at \in 0 .. MaxTxns /\ own[h].salt \in Nat
                                 /\ min[h] \in 0 .. MaxFrames + 1 /\ mark[h] \in 0 .. MaxFrames
                                 /\ slot[h] \in 0 .. NoSlot /\ pc[h] \in Places
  <1>1. shm \in [valid : BOOLEAN, hdr : Hdr, index : [Frames -> 0 .. NPages],
                 nBackfill : 0 .. MaxFrames, mark : [Slots -> 0 .. NotUsed]]
    BY DEF TypeOK
  <1>2. /\ pc \in [Handles -> Places] /\ own \in [Handles -> Hdr] /\ slot \in [Handles -> 0 .. NoSlot]
        /\ mark \in [Handles -> 0 .. MaxFrames] /\ min \in [Handles -> 0 .. MaxFrames + 1]
    BY DEF TypeOK
  <1>3. \A x \in Hdr : /\ x.mx \in 0 .. MaxFrames /\ x.at \in 0 .. MaxTxns /\ x.salt \in Nat
                       /\ x = [mx |-> x.mx, salt |-> x.salt, at |-> x.at]
    BY DEF Hdr
  <1> QED
    BY <1>1, <1>2, <1>3

LEMMA NumbersAre ==
    ASSUME TypeOK
    PROVE  /\ shm.hdr.at \in Nat /\ shm.hdr.mx \in Nat /\ shm.nBackfill \in Nat /\ Len(commits) \in Nat
           /\ \A h \in Handles : own[h].mx \in Nat /\ own[h].at \in Nat /\ min[h] \in Nat
  <1>1. shm.hdr.at \in Nat /\ shm.hdr.mx \in Nat /\ shm.nBackfill \in Nat
    BY ShmIs
  <1>2. \A h \in Handles : own[h].mx \in Nat /\ own[h].at \in Nat /\ min[h] \in Nat
    BY ShmIs
  <1> QED
    BY <1>1, <1>2, CountsAre

LEMMA SafeIs ==
    ASSUME TypeOK
    PROVE  /\ safe = [frame |-> safe.frame, page |-> safe.page, at |-> safe.at]
           /\ SyncedLog = [frame |-> [f \in Frames |-> {log.frame[f]}], page |-> safe.page,
                           at |-> Len(commits)]
  <1>1. safe = [frame |-> safe.frame, page |-> safe.page, at |-> safe.at]
    BY FilesAre
  <1> DEFINE synced == [f \in Frames |-> {log.frame[f]}]
  <1>2. SyncedLog = [safe EXCEPT !.frame = synced, !.at = Len(commits)]
    BY DEF SyncedLog
  <1> HIDE DEF synced
  <1>3. SyncedLog = [frame |-> synced, page |-> safe.page, at |-> Len(commits)]
    BY <1>1, <1>2
  <1> QED
    BY <1>1, <1>3 DEF synced

\* A page's content after a commit is that of the commit, if it wrote the page.
LEMMA ContentStep ==
    ASSUME TypeOK, NEW n \in 1 .. Len(commits), NEW p
    PROVE  Content(n, p) = IF p \in commits[n].pages THEN commits[n].txn ELSE Content(n - 1, p)
  <1> DEFINE wrote(c) == {i \in 1 .. c : p \in commits[i].pages}
  <1>0. n \in Nat /\ n - 1 \in Nat
    BY FilesAre
  <1>1. CASE p \in commits[n].pages
    <2>1. wrote(n) # {} /\ wrote(n) \in SUBSET (0 .. n) /\ n \in wrote(n)
      BY <1>0, <1>1
    <2>2. Greatest(wrote(n)) \in wrote(n) /\ \A y \in wrote(n) : y <= Greatest(wrote(n))
      BY <1>0, <2>1, GreatestIs
    <2> HIDE DEF wrote
    <2>3. Greatest(wrote(n)) = n
      BY <1>0, <2>1, <2>2, wrote(n) \subseteq 0 .. n
    <2> USE DEF wrote
    <2> QED
      BY <1>1, <2>1, <2>3 DEF Content
  <1>2. CASE p \notin commits[n].pages
    <2>1. wrote(n) = wrote(n - 1)
      BY <1>0, <1>2
    <2> QED
      BY <1>2, <2>1 DEF Content
  <1> QED
    BY <1>1, <1>2

\* The content after c commits depends on no later one.
LEMMA ContentKept ==
    ASSUME NEW c \in Nat, \A i \in 1 .. c : commits'[i] = commits[i], NEW p
    PROVE  Content(c, p)' = Content(c, p)
  <1>1. {i \in 1 .. c : p \in commits'[i].pages} = {i \in 1 .. c : p \in commits[i].pages}
    OBVIOUS
  <1>2. \A i \in {i \in 1 .. c : p \in commits[i].pages} : commits'[i] = commits[i]
    OBVIOUS
  <1>3. {i \in 1 .. c : p \in commits[i].pages} # {} =>
            Greatest({i \in 1 .. c : p \in commits[i].pages})
                \in {i \in 1 .. c : p \in commits[i].pages}
    <2>1. {i \in 1 .. c : p \in commits[i].pages} \in SUBSET (0 .. c)
      OBVIOUS
    <2> QED
      BY <2>1, GreatestIs
  <1> QED
    BY <1>1, <1>2, <1>3 DEF Content

(***************************************************************************)
(* Lemmas about what a crash may leave.                                    *)
(***************************************************************************)
LEMMA OutcomeIs ==
    ASSUME TypeOK, NEW k \in Frames, NEW salt, NEW g, Outcome(g, k, salt)
    PROVE  \A f \in 1 .. k : /\ f \in Frames /\ g[f] \in safe.frame[f] /\ g[f] \in Frame
                             /\ g[f].page # 0 /\ g[f].salt = salt
  <1> SUFFICES ASSUME NEW f \in 1 .. k
               PROVE  /\ f \in Frames /\ g[f] \in safe.frame[f] /\ g[f] \in Frame
                      /\ g[f].page # 0 /\ g[f].salt = salt
    OBVIOUS
  <1>1. f \in Frames
    BY DEF Frames
  <1>2. g[f].page # 0 /\ g[f].salt = salt
    BY DEF Outcome, Chained
  <1>3. g[f] # NoFrame
    BY <1>2, NoFrameIs
  <1>4. g[f] \in safe.frame[f]
    BY <1>3 DEF Outcome, Choice
  <1>5. g[f] \in Frame
    BY <1>1, <1>4, FilesAre
  <1> QED
    BY <1>1, <1>2, <1>4, <1>5

\* The log as it is.
LEMMA LogOutcome ==
    ASSUME TypeOK, Versions, NEW k \in Frames, NEW salt, Chained(log.frame, k, salt)
    PROVE  \E g \in [1 .. k -> AllFrames] :
              Outcome(g, k, salt) /\ \A f \in 1 .. k : g[f] = log.frame[f]
  <1> DEFINE g == [f \in 1 .. k |-> log.frame[f]]
  <1>1. \A f \in 1 .. k : f \in Frames /\ log.frame[f] \in safe.frame[f]
    BY DEF Versions, Frames
  <1>2. g \in [1 .. k -> AllFrames]
    BY <1>1 DEF AllFrames
  <1>3. \A f \in 1 .. k : g[f] = log.frame[f]
    OBVIOUS
  <1> HIDE DEF g
  <1>4. Choice(g, k)
    BY <1>1, <1>3 DEF Choice
  <1>5. Chained(g, k, salt)
    BY <1>3, ChainSame DEF Frames
  <1> QED
    BY <1>2, <1>3, <1>4, <1>5 DEF Outcome

LEMMA HoldsSame ==
    ASSUME NEW k \in Frames, NEW g, NEW l, \A f \in 1 .. k : g[f] = l[f], NEW n, Holds(g, k, n)
    PROVE  Holds(l, k, n)
  <1>1. k \in Nat /\ k \in 1 .. k
    BY DEF Frames
  <1>2. /\ \A p, f : Latest(g, k, p, f) <=> Latest(l, k, p, f)
        /\ \A p : Absent(g, k, p) <=> Absent(l, k, p)
    BY <1>1, ChainSame
  <1>3. \A p, f : Latest(l, k, p, f) => f \in 1 .. k
    BY DEF Latest
  <1> QED
    BY <1>1, <1>2, <1>3 DEF Holds

\* Later commits are those of later transactions.
LEMMA CommitsRise ==
    ASSUME TypeOK, Committed, NEW i \in 1 .. Len(commits), NEW j \in 1 .. Len(commits)
    PROVE  /\ commits[i].txn \in Nat
           /\ commits[i].txn <= commits[j].txn <=> i <= j
           /\ commits[i].txn = commits[j].txn <=> i = j
  <1>1. commits[i].txn \in Nat /\ commits[j].txn \in Nat
    BY CommitAt
  <1>2. i < j => commits[i].txn < commits[j].txn
    BY DEF Committed
  <1>3. j < i => commits[j].txn < commits[i].txn
    BY DEF Committed
  <1> QED
    BY <1>1, <1>2, <1>3

\* A commit mark in the log is that of a commit the log has.
LEMMA CommitOf ==
    ASSUME TypeOK, Versions, Genuine, NEW f \in Frames, LogCommit(f)
    PROVE  \E n \in base + 1 .. Len(commits) : Holds(log.frame, f, n)
  <1>1. PICK g \in [1 .. f -> AllFrames] :
           Outcome(g, f, log.salt) /\ \A i \in 1 .. f : g[i] = log.frame[i]
    BY LogOutcome DEF LogCommit
  <1>2. f \in 1 .. f
    BY DEF Frames
  <1>3. g[f].commit
    BY <1>1, <1>2 DEF LogCommit
  <1>4. PICK n \in base + 1 .. Len(commits) : Holds(g, f, n)
    BY <1>1, <1>3 DEF Genuine
  <1> QED
    BY <1>1, <1>4, HoldsSame

LEMMA CommitIs ==
    ASSUME TypeOK, Versions, Committed, Genuine, NEW f \in Frames, LogCommit(f),
           NEW n \in 1 .. Len(commits), commits[n].txn = log.frame[f].txn
    PROVE  n > base /\ Holds(log.frame, f, n)
  <1>1. PICK m \in base + 1 .. Len(commits) : Holds(log.frame, f, m)
    BY CommitOf
  <1>2. m \in 1 .. Len(commits)
    BY CountsAre
  <1>3. commits[m].txn = commits[n].txn
    BY <1>1 DEF Holds
  <1>4. m = n
    BY <1>2, <1>3, CommitsRise
  <1> QED
    BY <1>1, <1>4, CountsAre

LEMMA LogRises ==
    ASSUME TypeOK, Versions, NEW k \in Frames, NEW salt, Chained(log.frame, k, salt),
           NEW i \in 1 .. k, NEW j \in 1 .. k, i <= j
    PROVE  log.frame[i].txn <= log.frame[j].txn
  <1>1. \A f \in 1 .. k : f \in Frames
    BY DEF Frames
  <1>2. \A f \in 1 .. k : log.frame[f].txn \in Nat /\ log.frame[f].prev <= log.frame[f].txn
    BY <1>1, FrameIs, FilesAre DEF Versions
  <1> QED
    BY <1>2, ChainRises DEF Frames

\* Behind the last commit the log has no commit mark; if it has no commit, none at all.
LEMMA LogEnds ==
    ASSUME TypeOK, Versions, Committed, Genuine, NEW f \in Frames, LogCommit(f)
    PROVE  /\ base < Len(commits)
           /\ \A m \in Frames : LogCommit(m) /\ commits[Len(commits)].txn = log.frame[m].txn => f <= m
  <1>1. PICK n \in base + 1 .. Len(commits) : Holds(log.frame, f, n)
    BY CommitOf
  <1>2. n \in 1 .. Len(commits) /\ base < Len(commits) /\ Len(commits) \in 1 .. Len(commits)
    BY FilesAre
  <1>3. SUFFICES ASSUME NEW m \in Frames, LogCommit(m), m < f,
                        commits[Len(commits)].txn = log.frame[m].txn
                 PROVE  FALSE
    BY <1>2 DEF Frames
  <1>4. m \in 1 .. f /\ m + 1 \in 1 .. f /\ f \in 1 .. f /\ m + 1 \in Frames \ {1} /\ m + 1 - 1 = m
    BY <1>3 DEF Frames
  <1>5. Chained(log.frame, f, log.salt)
    BY DEF LogCommit
  <1>6. log.frame[m].txn <= log.frame[m + 1].txn /\ log.frame[m + 1].txn <= log.frame[f].txn
    <2>1. m <= m + 1 /\ m + 1 <= f
      BY <1>4
    <2> QED
      BY <1>4, <1>5, <2>1, LogRises
  <1>7. log.frame[f].txn = commits[n].txn
    BY <1>1 DEF Holds
  <1>8. commits[n].txn <= commits[Len(commits)].txn
    BY <1>2, CommitsRise
  <1>9. log.frame[m].txn \in Nat /\ log.frame[m + 1].txn \in Nat /\ log.frame[f].txn \in Nat
    BY <1>4, FrameAt
  <1>10. log.frame[m + 1].txn = log.frame[m].txn
    BY <1>3, <1>6, <1>7, <1>8, <1>9
  <1>11. ~log.frame[m].commit
    BY <1>4, <1>10 DEF Versions
  <1> QED
    BY <1>3, <1>11 DEF LogCommit

(***************************************************************************)
(* A salt that is fresh.                                                   *)
(***************************************************************************)
LEMMA ImageFinite ==
    ASSUME NEW S, IsFiniteSet(S), NEW fn
    PROVE  IsFiniteSet({fn[x] : x \in S})
  <1> DEFINE T == {fn[x] : x \in S}
             f == [x \in S |-> fn[x]]
  <1>1. f \in [S -> T] /\ \A t \in T : \E x \in S : f[x] = t
    OBVIOUS
  <1>2. f \in Surjection(S, T)
    BY <1>1 DEF Surjection
  <1> QED
    BY <1>2, FS_Surjection

LEMMA FreshIs ==
    ASSUME TypeOK, Versions
    PROVE  /\ Fresh \in Nat /\ Fresh > 0 /\ Fresh # shm.hdr.salt /\ Fresh # log.salt
           /\ \A h \in Handles : Fresh # own[h].salt
           /\ \A f \in Frames : \A x \in safe.frame[f] : Fresh # x.salt
  <1> DEFINE owns == {own[h].salt : h \in Handles}
             of(f) == {x.salt : x \in safe.frame[f] \cup {log.frame[f]}}
             sets == {of(f) : f \in Frames}
             used == {0, shm.hdr.salt, log.salt} \cup owns \cup UNION sets
             free == (1 .. Cardinality(used)) \ (used \ {0})
  <1>1. IsFiniteSet(owns)
    <2>1. PICK fn : fn = [h \in Handles |-> own[h].salt]
      OBVIOUS
    <2>2. IsFiniteSet({fn[x] : x \in Handles})
      BY FiniteAssumption, ImageFinite
    <2>3. owns = {fn[x] : x \in Handles}
      BY <2>1
    <2> QED
      BY <2>2, <2>3
  <1>2. \A f \in Frames : IsFiniteSet(of(f))
    <2> SUFFICES ASSUME NEW f \in Frames PROVE IsFiniteSet(of(f))
      OBVIOUS
    <2> DEFINE S == safe.frame[f] \cup {log.frame[f]}
    <2>1. IsFiniteSet(S)
      BY FS_AddElement DEF Versions
    <2>2. PICK fn : fn = [x \in S |-> x.salt]
      OBVIOUS
    <2>3. IsFiniteSet({fn[y] : y \in S})
      BY <2>1, ImageFinite
    <2>4. of(f) = {fn[y] : y \in S}
      BY <2>2
    <2> QED
      BY <2>3, <2>4
  <1>3. IsFiniteSet(sets)
    <2>1. IsFiniteSet(Frames)
      BY FS_Interval DEF Frames
    <2>2. PICK fn : fn = [f \in Frames |-> of(f)]
      OBVIOUS
    <2>3. IsFiniteSet({fn[x] : x \in Frames})
      BY <2>1, ImageFinite
    <2>4. sets = {fn[x] : x \in Frames}
      BY <2>2
    <2> QED
      BY <2>3, <2>4
  <1>4. IsFiniteSet(UNION sets)
    <2>1. \A T \in sets : IsFiniteSet(T)
      BY <1>2
    <2> HIDE DEF sets
    <2> QED
      BY <1>3, <2>1, FS_UNION
  <1>5. IsFiniteSet({0, shm.hdr.salt, log.salt})
    <2>1. IsFiniteSet({0} \cup {shm.hdr.salt})
      BY FS_AddElement, FS_Singleton
    <2>2. IsFiniteSet(({0} \cup {shm.hdr.salt}) \cup {log.salt})
      BY <2>1, FS_AddElement
    <2>3. {0, shm.hdr.salt, log.salt} = ({0} \cup {shm.hdr.salt}) \cup {log.salt}
      OBVIOUS
    <2> QED
      BY <2>2, <2>3
  <1>6. IsFiniteSet(used)
    <2> HIDE DEF owns, sets
    <2>1. IsFiniteSet({0, shm.hdr.salt, log.salt} \cup owns)
      BY <1>1, <1>5, FS_Union
    <2> QED
      BY <1>4, <2>1, FS_Union
  <1>7. Fresh = Least(free)
    BY DEF Fresh
  <1>8. 0 \in used /\ shm.hdr.salt \in used /\ log.salt \in used /\ owns \subseteq used
        /\ UNION sets \subseteq used
    OBVIOUS
  <1>9. \A h \in Handles : own[h].salt \in used
    BY <1>8
  <1>10. \A f \in Frames : \A x \in safe.frame[f] : x.salt \in used
    <2> SUFFICES ASSUME NEW f \in Frames, NEW x \in safe.frame[f] PROVE x.salt \in UNION sets
      BY <1>8
    <2>1. x.salt \in of(f)
      OBVIOUS
    <2> QED
      BY <2>1
  <1> HIDE DEF used
  <1>11. Cardinality(used) \in Nat
    BY <1>6, FS_CardinalityType
  <1>12. IsFiniteSet(used \ {0}) /\ Cardinality(used \ {0}) = Cardinality(used) - 1
    BY <1>6, <1>8, FS_RemoveElement
  <1>13. free # {}
    <2> SUFFICES ASSUME 1 .. Cardinality(used) \subseteq used \ {0} PROVE FALSE
      OBVIOUS
    <2>1. Cardinality(1 .. Cardinality(used)) <= Cardinality(used \ {0})
      BY <1>12, FS_Subset
    <2>2. Cardinality(1 .. Cardinality(used)) = Cardinality(used)
      BY <1>11, FS_Interval
    <2> QED
      BY <1>11, <1>12, <2>1, <2>2
  <1>14. free \in SUBSET Nat
    OBVIOUS
  <1>15. Least(free) \in free
    BY <1>13, <1>14, LeastIs
  <1>16. Fresh \in 1 .. Cardinality(used) /\ Fresh \notin used
    BY <1>7, <1>15, <1>8
  <1>17. Fresh \in Nat /\ Fresh > 0
    BY <1>11, <1>16
  <1> QED
    BY <1>8, <1>9, <1>10, <1>16, <1>17

(***************************************************************************)
(* What stays when the things it speaks of stay.                           *)
(***************************************************************************)
LEMMA FilesKept ==
    ASSUME TypeOK, FilesOk, UNCHANGED <<log, db, safe, commits, base>>,
           txns' \in Nat, txns <= txns'
    PROVE  FilesOk'
  <1>1. Versions'
    <2>1. \A f \in Frames : \A x \in safe.frame[f] : x.txn \in Nat
      BY FrameAt, FrameIs
    <2> QED
      BY <2>1, CountsAre DEF FilesOk, Versions
  <1>2. Committed'
    <2>1. \A i \in 1 .. Len(commits) : commits[i].txn \in Nat
      BY CommitAt
    <2>2. txns \in Nat
      BY CountsAre
    <2> QED
      BY <2>1, <2>2 DEF FilesOk, Committed
  <1>3. Genuine'
    <2>1. AllFrames' = AllFrames
      BY DEF AllFrames
    <2>2. \A g, k : Outcome(g, k, log.salt)' <=> Outcome(g, k, log.salt)
      BY <2>1 DEF Outcome, Choice
    <2>3. \A g, k, n : Holds(g, k, n)' <=> Holds(g, k, n)
      BY DEF Holds, Content
    <2> QED
      BY <2>1, <2>2, <2>3 DEF FilesOk, Genuine
  <1>4. Paged'
    BY DEF FilesOk, Paged, StableCommit, LogCommit, Content
  <1>5. Stable(safe.at)'
    BY DEF FilesOk, Stable, StableCommit, LogCommit, Has
  <1> QED
    BY <1>1, <1>2, <1>3, <1>4, <1>5 DEF FilesOk

\* The transaction of h reads what it read.
LEMMA SnapKept ==
    ASSUME TypeOK, NEW h \in Handles, SnapOk(h),
           own'[h].mx = own[h].mx, own'[h].at = own[h].at, slot'[h] = slot[h], min'[h] = min[h],
           slot[h] = 0 \/ \A f \in 1 .. own[h].mx : log.frame'[f] = log.frame[f],
           own[h].at <= Len(commits), \A i \in 1 .. own[h].at : commits'[i] = commits[i],
           slot[h] = 0 => UNCHANGED db,
           \A p \in Pages :
              db'[p] = db[p] \/ \E f \in 1 .. own[h].mx : min[h] <= f /\ log.frame[f].page = p
    PROVE  SnapOk(h)'
  <1>1. own[h].mx \in Nat /\ own[h].at \in Nat /\ min[h] \in Nat
    BY ShmIs
  <1>2. PICK c \in Nat : c = own[h].at
    BY <1>1
  <1>3. \A p : Content(c, p)' = Content(c, p)
    BY <1>2, ContentKept
  <1>4. \A p : Content(own[h].at, p)' = Content(own[h].at, p)
    BY <1>2, <1>3
  <1>5. CASE slot[h] = 0
    BY <1>4, <1>5 DEF SnapOk
  <1>6. CASE slot[h] # 0
    <2>0. PICK k \in Nat : k = own[h].mx
      BY <1>1
    <2>1. \A p, f : Latest(log'.frame, k, p, f) <=> Latest(log.frame, k, p, f)
      <3>1. \A f \in 1 .. k : log'.frame[f] = log.frame[f]
        BY <1>6, <2>0
      <3> QED
        BY <3>1, ChainSame
    <2>2. \A p, f : Latest(log.frame, own[h].mx, p, f) => f \in 1 .. own[h].mx
      BY DEF Latest
    <2>3. own'[h].mx = k /\ \A f \in 1 .. own[h].mx : log.frame'[f] = log.frame[f]
      BY <1>6, <2>0
    <2>4. \A p \in Pages, f \in Frames :
             Latest(log.frame, own[h].mx, p, f)' => log'.frame[f].txn = Content(own[h].at, p)'
      BY <1>4, <1>6, <2>0, <2>1, <2>2, <2>3 DEF SnapOk
    <2>5. ASSUME NEW p \in Pages,
                 \A f \in 1 .. own'[h].mx : min'[h] <= f => log'.frame[f].page # p
          PROVE  db'[p] = Content(own[h].at, p)'
      <3>1. \A f \in 1 .. own[h].mx : min[h] <= f => log.frame[f].page # p
        BY <2>0, <2>3, <2>5
      <3> QED
        BY <1>4, <1>6, <3>1 DEF SnapOk
    <2> QED
      BY <1>6, <2>4, <2>5 DEF SnapOk
  <1> QED
    BY <1>5, <1>6

LEMMA DbKept ==
    ASSUME TypeOK, DbOk, shm'.hdr = shm.hdr, shm'.nBackfill = shm.nBackfill,
           \A f \in 1 .. shm.hdr.mx : log.frame'[f] = log.frame[f],
           shm.hdr.at <= Len(commits), \A i \in 1 .. shm.hdr.at : commits'[i] = commits[i],
           UNCHANGED <<db, safe.page>>
    PROVE  DbOk'
  <1>1. PICK c \in Nat : c = shm.hdr.at
    BY ShmIs
  <1>2. \A p : Content(c, p)' = Content(c, p)
    BY <1>1, ContentKept
  <1>3. \A p : Content(shm.hdr.at, p)' = Content(shm.hdr.at, p)
    BY <1>1, <1>2
  <1>4. \A p \in Pages :
          (\A f \in 1 .. shm'.hdr.mx : log'.frame[f].page = p => f <= shm'.nBackfill)
              => db'[p] = Content(shm.hdr.at, p)'
    BY <1>3 DEF DbOk
  <1>5. shm'.hdr.mx = 0 \/ shm'.nBackfill = shm'.hdr.mx =>
          \A p \in Pages : safe'.page[p] = {Content(shm.hdr.at, p)'}
    BY <1>3 DEF DbOk
  <1> QED
    BY <1>4, <1>5 DEF DbOk

\* No crash can leave what it could not leave before.
LEMMA OutcomeKept ==
    ASSUME NEW k \in Frames, NEW salt, NEW g, Outcome(g, k, salt)',
           \A f \in 1 .. k : g[f] \in safe'.frame[f] => g[f] \in safe.frame[f] \cup {NoFrame}
    PROVE  Outcome(g, k, salt) /\ g \in [1 .. k -> AllFrames]
  <1>1. g = [f \in 1 .. k |-> g[f]] /\ Choice(g, k)' /\ Chained(g, k, salt)
    BY DEF Outcome
  <1>2. \A f \in 1 .. k : f \in Frames
    BY DEF Frames
  <1>3. \A f \in 1 .. k : g[f] \in safe.frame[f] \cup {NoFrame}
    BY <1>1 DEF Choice
  <1>4. \A f \in 1 .. k : g[f] \in AllFrames
    <2>1. NoFrame \in AllFrames
      BY DEF AllFrames
    <2>2. ASSUME NEW f \in Frames, NEW x \in safe.frame[f] PROVE x \in AllFrames
      BY DEF AllFrames
    <2> QED
      BY <1>2, <1>3, <2>1, <2>2
  <1>5. g \in [1 .. k -> AllFrames]
    BY <1>1, <1>4
  <1> QED
    BY <1>1, <1>3, <1>5 DEF Outcome, Choice

\* A salt stays without a commit mark if no frame that is new has it.
LEMMA DeadKept ==
    ASSUME NEW salt, Dead(salt),
           \A f \in Frames : \A x \in safe'.frame[f] :
              x \in safe.frame[f] \cup {NoFrame} \/ x.salt # salt
    PROVE  Dead(salt)'
  <1> SUFFICES ASSUME NEW k \in Frames, NEW g, Outcome(g, k, salt)'
               PROVE  ~g[k].commit
    BY DEF Dead
  <1>1. \A f \in 1 .. k : f \in Frames /\ g[f].salt = salt
    BY DEF Outcome, Chained, Frames
  <1>2. \A f \in 1 .. k : g[f] \in safe'.frame[f] => g[f] \in safe.frame[f] \cup {NoFrame}
    BY <1>1
  <1>3. Outcome(g, k, salt) /\ g \in [1 .. k -> AllFrames]
    BY <1>2, OutcomeKept
  <1> QED
    BY <1>3 DEF Dead

\* With the log and the header as they are.
LEMMA PublishedKept ==
    ASSUME Published, UNCHANGED <<log, commits, base, kept>>, shm'.hdr = shm.hdr,
           \A f \in Frames : safe'.frame[f] \subseteq safe.frame[f],
           \A f \in 1 .. shm.hdr.mx : shm'.index[f] = shm.index[f], Pending => Pending'
    PROVE  Published'
  <1>1. \A n : Present(n)' <=> Present(n)
    BY DEF Present, LogCommit, Has
  <1>2. \A f : LogCommit(f)' <=> LogCommit(f)
    BY DEF LogCommit
  <1>3. \A s : Dead(s) => Dead(s)'
    BY DeadKept
  <1>4. Present(Len(commits))'
    BY <1>1 DEF Published
  <1>5. LogCommit(shm.hdr.mx)' <=> LogCommit(shm.hdr.mx)
    BY <1>2
  <1>6. Dead(shm.hdr.salt) => Dead(shm.hdr.salt)'
    BY <1>3
  <1> QED
    BY <1>4, <1>5, <1>6 DEF Published

\* What the writer relies on, while another handle moves.
LEMMA WriterKept ==
    ASSUME NEW h \in Handles, WriterOk(h), UNCHANGED <<log, safe, commits, base, txns, todo>>,
           pc'[h] = pc[h], own'[h] = own[h], slot'[h] = slot[h], shm'.hdr = shm.hdr,
           shm'.index = shm.index, writer' = writer, ckpt'.by = h <=> ckpt.by = h
    PROVE  WriterOk(h)'
  <1>1. NextFrame(h)' = NextFrame(h)
    BY DEF NextFrame
  <1>2. \A lo, hi : Appended(h, lo, hi)' <=> Appended(h, lo, hi)
    BY DEF Appended
  <1>3. Appended(h, own[h].mx + 1, NextFrame(h) - 1)' <=> Appended(h, own[h].mx + 1, NextFrame(h) - 1)
    BY <1>1, <1>2
  <1>4. Untouched' <=> Untouched
    BY DEF Untouched
  <1>5. Appending(h)' <=> Appending(h)
    BY DEF Appending
  <1> QED
    BY <1>3, <1>4, <1>5 DEF WriterOk

\* What a checkpoint relies on, while another handle moves.
LEMMA CopierKept ==
    ASSUME NEW h \in Handles, CopierOk(h), UNCHANGED <<log, db, safe, commits, ckpt>>,
           pc'[h] = pc[h], shm'.hdr = shm.hdr, shm'.nBackfill = shm.nBackfill,
           pc[h] = "copy" => Holders(0)' \subseteq Holders(0)
    PROVE  CopierOk(h)'
  <1>1. StableCommit(shm.hdr.mx)' <=> StableCommit(shm.hdr.mx)
    BY DEF StableCommit, LogCommit
  <1>2. \A p : Content(shm.hdr.at, p)' = Content(shm.hdr.at, p)
    BY DEF Content
  <1>3. \A p, f : Latest(log.frame, shm.hdr.mx, p, f)' <=> Latest(log.frame, shm.hdr.mx, p, f)
    OBVIOUS
  <1> QED
    BY <1>1, <1>2, <1>3 DEF CopierOk

\* What a reader relies on, while another handle moves.
LEMMA ReaderKept ==
    ASSUME TypeOK, NEW h \in Handles, ReaderOk(h), UNCHANGED <<log.frame, db, commits>>,
           pc'[h] = pc[h], own'[h] = own[h], slot'[h] = slot[h], min'[h] = min[h],
           shm'.hdr = shm.hdr, shm'.nBackfill = shm.nBackfill
    PROVE  ReaderOk(h)'
  <1>1. SnapOk(h) => SnapOk(h)'
    <2>1. \A p : Content(own[h].at, p)' = Content(own[h].at, p)
      BY DEF Content
    <2>2. CASE slot[h] = 0
      BY <2>1, <2>2 DEF SnapOk
    <2>3. CASE slot[h] # 0
      <3>1. SnapOk(h) =>
               \A p \in Pages, f \in Frames :
                  Latest(log.frame, own[h].mx, p, f)' => log'.frame[f].txn = Content(own[h].at, p)'
        BY <2>1, <2>3 DEF SnapOk
      <3>2. SnapOk(h) =>
               \A p \in Pages :
                  (\A f \in 1 .. own'[h].mx : min'[h] <= f => log'.frame[f].page # p)
                      => db'[p] = Content(own[h].at, p)'
        BY <2>1, <2>3 DEF SnapOk
      <3> QED
        BY <2>3, <3>1, <3>2 DEF SnapOk
    <2> QED
      BY <2>2, <2>3
  <1>2. (Reading(h)' <=> Reading(h)) /\ (InLog(h)' <=> InLog(h))
    BY DEF InLog, Reading
  <1> QED
    BY <1>1, <1>2 DEF ReaderOk

LEMMA AtIs ==
    ASSUME TypeOK, Published
    PROVE  /\ shm.hdr.at \in Nat /\ shm.hdr.at <= Len(commits)
           /\ ~Pending => shm.hdr.at = Len(commits)
           /\ Len(commits) # shm.hdr.at => Len(commits) = shm.hdr.at + 1
           /\ shm.hdr.mx > 0 => shm.hdr.at \in 1 .. Len(commits)
  BY ShmIs, CountsAre DEF Published

(***************************************************************************)
(* The type of the state, piece by piece.                                  *)
(***************************************************************************)
TypeShm == shm \in [valid : BOOLEAN, hdr : Hdr, index : [Frames -> 0 .. NPages],
                    nBackfill : 0 .. MaxFrames, mark : [Slots -> 0 .. NotUsed]]
TypeLog == log \in [salt : Nat, frame : [Frames -> Frame]]
TypeDb == db \in [Pages -> 0 .. Torn]
TypeSafe == safe \in [frame : [Frames -> SUBSET Frame], page : [Pages -> SUBSET (0 .. Torn)],
                      at : 0 .. MaxTxns]
TypeOwn == own \in [Handles -> Hdr]
TypeMark == mark \in [Handles -> 0 .. MaxFrames]
TypeMin == min \in [Handles -> 0 .. MaxFrames + 1]
TypeCkpt ==
    ckpt \in [by : Handles \cup {Nobody}, mode : {"PASSIVE", "FULL", "RESTART", "TRUNCATE"},
              next : 0 .. NSlots + 1, upTo : 0 .. MaxFrames, left : SUBSET Frames]
TypeTxns == txns \in 0 .. MaxTxns
TypeCommits == commits \in Seq([txn : 1 .. MaxTxns, pages : SUBSET Pages])
TypeCounts == base \in 0 .. MaxTxns /\ kept \in 0 .. MaxTxns /\ crashes \in 0 .. MaxCrashes

TypeParts ==
    /\ TypeShm /\ TypeLog /\ TypeDb /\ TypeSafe /\ TypeOwn /\ TypeMark /\ TypeMin
    /\ TypeCkpt /\ TypeTxns /\ TypeCommits /\ TypeCounts

LEMMA TypeIs == TypeOK => TypeParts
  BY DEF TypeOK, TypeParts, TypeShm, TypeLog, TypeDb, TypeSafe, TypeOwn, TypeMark, TypeMin, TypeCkpt,
         TypeTxns, TypeCommits, TypeCounts

LEMMA TypeOf == ASSUME IInv, TypeParts PROVE TypeOK
  <1>1. /\ pc \in [Handles -> Places] /\ slot \in [Handles -> 0 .. NoSlot]
        /\ writer \in Handles \cup {Nobody} /\ todo \in [all : SUBSET Pages, left : SUBSET Pages]
    BY DEF IInv, Forms, HandleForms, SharedForms
  <1> QED
    BY <1>1 DEF TypeOK, TypeParts, TypeShm, TypeLog, TypeDb, TypeSafe, TypeOwn, TypeMark, TypeMin,
                TypeCkpt, TypeTxns, TypeCommits, TypeCounts

LEMMA TypeKept ==
    ASSUME TypeOK, UNCHANGED <<files, commits, base, kept, crashes>>, TypeShm', TypeTxns'
    PROVE  TypeShm' /\ TypeLog' /\ TypeDb' /\ TypeSafe' /\ TypeTxns' /\ TypeCommits' /\ TypeCounts'
  BY TypeIs DEF files, TypeParts, TypeLog, TypeDb, TypeSafe, TypeTxns, TypeCommits, TypeCounts

LEMMA SomeTypes ==
    /\ [mx |-> 0, salt |-> 0, at |-> 0] \in Hdr
    /\ 0 \in 0 .. MaxFrames /\ 0 \in 0 .. MaxFrames + 1
  BY DEF Hdr

\* A handle leaves.
LEMMA LeaveTyped ==
    ASSUME TypeOK, NEW h \in Handles, Leave(h)
    PROVE  /\ TypeOwn' /\ TypeMark' /\ TypeMin'
           /\ own'[h].at = 0 /\ min'[h] = 0 /\ \A g \in Handles \ {h} : min'[g] = min[g]
  BY TypeIs, SomeTypes DEF Leave, TypeParts, TypeOwn, TypeMark, TypeMin

(***************************************************************************)
(* Steps of a handle that change neither the files nor what is published.  *)
(***************************************************************************)
OtherMins(h) == \A g \in Handles \ {h} : min'[g] = min[g]

\* Another handle that holds a lock afterwards holds it with all that belongs to it.
LeavesLocks(h) ==
    \A g \in Handles \ {h} :
        /\ writer' = g => UNCHANGED <<writer, todo, txns>> /\ shm'.index = shm.index
        /\ ckpt'.by = g => UNCHANGED ckpt
        /\ ckpt'.by = g <=> ckpt.by = g

LEMMA QuietMoves ==
    ASSUME IInv, IInv', DataInv, NEW h \in Handles, shm.valid, shm'.valid, Others(h), OtherMins(h),
           LeavesLocks(h),
           UNCHANGED <<files, commits, base, kept, crashes>>, txns <= txns',
           shm'.hdr = shm.hdr, shm'.nBackfill = shm.nBackfill,
           \A f \in 1 .. shm.hdr.mx : shm'.index[f] = shm.index[f],
           Pending => Pending',
           slot'[h] = 0 /\ pc'[h] # "lock" => (slot[h] = 0 /\ pc[h] # "lock") \/ ~Copying,
           TypeShm', TypeOwn', TypeMark', TypeMin', TypeCkpt', TypeTxns',
           WriterOk(h)', CopierOk(h)', ReaderOk(h)', pc'[h] = "idle" => own'[h].at = 0
    PROVE  DataInv'
  <1>0. /\ TypeOK /\ FilesOk /\ Published /\ DbOk /\ Idle
        /\ \A g \in Handles : WriterOk(g) /\ CopierOk(g) /\ ReaderOk(g)
        /\ UNCHANGED <<log, db, safe>>
    BY DEF DataInv, IndexOk, files
  <1>1. TypeOK'
    <2>1. TypeParts'
      BY <1>0, TypeKept DEF TypeParts
    <2>2. (IInv /\ TypeParts => TypeOK)'
      BY TypeOf, PTL
    <2> QED
      BY <2>1, <2>2
  <1>2. FilesOk'
    <2>1. txns' \in Nat
      BY DEF TypeTxns
    <2> QED
      BY <1>0, <2>1, FilesKept
  <1>3. Published'
    BY <1>0, PublishedKept
  <1>4. DbOk'
    <2>1. shm.hdr.at <= Len(commits) /\ UNCHANGED safe.page /\ UNCHANGED log.frame
      BY <1>0, AtIs
    <2> QED
      BY <1>0, <2>1, DbKept
  <1>5. ASSUME NEW g \in Handles \ {h}
        PROVE  WriterOk(g)' /\ CopierOk(g)' /\ ReaderOk(g)' /\ (pc'[g] = "idle" => own'[g].at = 0)
    <2>1. /\ pc'[g] = pc[g] /\ own'[g] = own[g] /\ slot'[g] = slot[g] /\ min'[g] = min[g]
          /\ Writing(g)' /\ Backfilling(g)'
      BY DEF Others, OtherMins, IInv, Safe
    <2>2. WriterOk(g)'
      <3>1. CASE writer' = g
        BY <1>0, <2>1, <3>1, WriterKept DEF LeavesLocks
      <3>2. CASE writer' # g
        BY <2>1, <3>2 DEF Writing, WriterOk, Appending, Writes
      <3> QED
        BY <3>1, <3>2
    <2>3. CopierOk(g)'
      <3>1. CASE ckpt'.by = g
        <4>1. UNCHANGED ckpt
          BY <3>1 DEF LeavesLocks
        <4>2. ASSUME pc[g] = "copy" PROVE Holders(0)' \subseteq Holders(0)
          <5>1. Copying
            BY <4>2 DEF Copying
          <5>2. Holders(0)' = {k \in Handles : slot'[k] = 0 /\ pc'[k] # "lock"}
            BY DEF Holders
          <5> QED
            BY <5>1, <5>2 DEF Holders, Others
        <4> QED
          BY <1>0, <2>1, <4>1, <4>2, CopierKept
      <3>2. CASE ckpt'.by # g
        BY <2>1, <3>2 DEF Backfilling, CopierOk, Copies
      <3> QED
        BY <3>1, <3>2
    <2>4. ReaderOk(g)'
      BY <1>0, <2>1, ReaderKept
    <2>5. pc'[g] = "idle" => own'[g].at = 0
      BY <1>0, <2>1 DEF Idle
    <2> QED
      BY <2>2, <2>3, <2>4, <2>5
  <1>6. IndexOk'
    BY <1>3, <1>4, <1>5 DEF IndexOk
  <1>7. Idle'
    BY <1>5 DEF Idle
  <1> QED
    BY <1>1, <1>2, <1>6, <1>7 DEF DataInv, Lost

LEMMA PendingKept ==
    ASSUME NEW h \in Handles, Others(h),
           pc[h] \in {"index", "publish"} => pc'[h] \in {"index", "publish"}
    PROVE  Pending => Pending'
  BY DEF Pending, Others

\* Of what is shared, at most a mark changes.
MarksOnly ==
    \/ UNCHANGED shm
    \/ \E i \in Slots, m \in 0 .. NotUsed : shm' = [shm EXCEPT !.mark[i] = m]

LEMMA MarksOnlyIs ==
    ASSUME TypeOK, MarksOnly
    PROVE  /\ TypeShm' /\ shm'.hdr = shm.hdr /\ shm'.nBackfill = shm.nBackfill
           /\ shm'.index = shm.index /\ shm'.valid = shm.valid
  <1>1. TypeShm
    BY TypeIs DEF TypeParts
  <1>2. CASE UNCHANGED shm
    BY <1>1, <1>2 DEF TypeShm
  <1>3. ASSUME NEW i \in Slots, NEW m \in 0 .. NotUsed, shm' = [shm EXCEPT !.mark[i] = m]
        PROVE  /\ TypeShm' /\ shm'.hdr = shm.hdr /\ shm'.nBackfill = shm.nBackfill
               /\ shm'.index = shm.index /\ shm'.valid = shm.valid
    <2>1. shm'.mark = [shm.mark EXCEPT ![i] = m]
      BY <1>1, <1>3 DEF TypeShm
    <2>2. shm'.mark \in [Slots -> 0 .. NotUsed]
      BY <1>1, <2>1 DEF TypeShm
    <2>3. /\ shm' = [shm EXCEPT !.mark = shm'.mark]
      BY <1>1, <1>3, <2>1 DEF TypeShm
    <2> QED
      BY <1>1, <2>2, <2>3 DEF TypeShm
  <1> QED
    BY <1>2, <1>3 DEF MarksOnly

LEMMA ReadMoves ==
    ASSUME IInv, IInv', DataInv, NEW h \in Handles, shm.valid, MarksOnly,
           Others(h), OtherMins(h),
           UNCHANGED <<files, writer, todo, ckpt, txns, history>>,
           pc[h] \notin {"index", "publish"}, pc'[h] \notin {"slots", "copy"},
           slot'[h] = 0 /\ pc'[h] # "lock" => (slot[h] = 0 /\ pc[h] # "lock") \/ ~Copying,
           TypeOwn', TypeMark', TypeMin', WriterOk(h)', ReaderOk(h)',
           pc'[h] = "idle" => own'[h].at = 0
    PROVE  DataInv'
  <1>1. TypeOK /\ UNCHANGED <<commits, base, kept, crashes>>
    BY DEF DataInv, history
  <1>2. /\ TypeShm' /\ shm'.hdr = shm.hdr /\ shm'.nBackfill = shm.nBackfill
        /\ shm'.index = shm.index /\ shm'.valid = shm.valid
    BY <1>1, MarksOnlyIs
  <1>3. TypeCkpt' /\ TypeTxns' /\ txns <= txns'
    BY <1>1, TypeIs DEF TypeParts, TypeCkpt, TypeTxns
  <1>4. LeavesLocks(h)
    BY <1>2 DEF LeavesLocks
  <1>5. CopierOk(h)'
    BY DEF CopierOk
  <1>6. Pending => Pending'
    BY PendingKept
  <1> QED
    BY <1>1, <1>2, <1>3, <1>4, <1>5, <1>6, QuietMoves

LEMMA OwnTyped ==
    ASSUME TypeOK, NEW h \in Handles, NEW x \in Hdr, own' = [own EXCEPT ![h] = x]
    PROVE  TypeOwn' /\ own'[h] = x
  BY TypeIs DEF TypeParts, TypeOwn

LEMMA SameTyped ==
    ASSUME TypeOK
    PROVE  /\ UNCHANGED own => TypeOwn'
           /\ UNCHANGED mark => TypeMark'
           /\ \A h \in Handles : UNCHANGED min => TypeMin' /\ OtherMins(h) /\ min'[h] = min[h]
           /\ UNCHANGED shm => TypeShm'
           /\ UNCHANGED ckpt => TypeCkpt'
           /\ UNCHANGED txns => TypeTxns' /\ txns <= txns'
  <1>1. TypeParts
    BY TypeIs
  <1> QED
    BY <1>1 DEF TypeParts, TypeOwn, TypeMark, TypeMin, TypeShm, TypeCkpt, TypeTxns, OtherMins

LEMMA WriterWaits ==
    ASSUME NEW h \in Handles, WriterOk(h), ckpt.by # h, ~Appending(h),
           pc'[h] \in Starts \cup {"restart"}, own'[h] = own[h], shm'.hdr = shm.hdr,
           UNCHANGED <<log, safe, commits, base, txns, todo, writer>>
    PROVE  WriterOk(h)'
  BY DEF WriterOk, Appending, Untouched, Starts

\* Who has no lock owes nothing.
LEMMA NoWriter ==
    ASSUME IInv', NEW h \in Handles, writer' # h
    PROVE  WriterOk(h)'
  BY DEF IInv, Safe, Writing, WriterOk, Appending, Writes

LEMMA IdleReader ==
    ASSUME NEW h \in Handles, pc'[h] \in {"idle", "hdr", "choose", "lock", "ckptWrite", "ckptHdr", "iterator", "slots",
                                         "copy", "drain", "reset"}, own'[h].at <= shm'.hdr.at
    PROVE  ReaderOk(h)'
  BY DEF ReaderOk, InLog, Reading

LEMMA ReadHdrData == ASSUME IInv, IInv', DataInv, NEW h \in Handles, ReadHdr(h) PROVE DataInv'
  <1>1. /\ pc[h] = "idle" /\ shm.valid /\ own' = [own EXCEPT ![h] = shm.hdr] /\ Goto(h, "hdr")
        /\ UNCHANGED <<shm, files, slot, mark, min, writer, todo, ckpt, txns, history>>
    BY DEF ReadHdr
  <1>2. TypeOK /\ shm.hdr \in Hdr /\ shm.hdr.at \in Nat
    BY ShmIs DEF DataInv
  <1>3. "hdr" \in Places /\ IsHdr(shm.hdr)
    BY DEF Places, IInv, Forms, SharedForms
  <1>4. Others(h) /\ pc'[h] = "hdr" /\ slot'[h] = slot[h] /\ own'[h] = shm.hdr
    BY <1>1, <1>3, GoesWith
  <1>5. TypeOwn' /\ TypeMark' /\ TypeMin' /\ OtherMins(h)
    BY <1>1, <1>2, OwnTyped, SameTyped
  <1>6. writer' # h
    BY <1>1, HasLock
  <1>7. WriterOk(h)' /\ ReaderOk(h)'
    BY <1>1, <1>2, <1>4, <1>6, NoWriter, IdleReader
  <1> QED
    BY <1>1, <1>4, <1>5, <1>7, ReadMoves DEF MarksOnly

LEMMA DataIs ==
    ASSUME DataInv
    PROVE  /\ TypeOK /\ FilesOk /\ Lost /\ Idle
           /\ shm.valid => /\ Published /\ DbOk
                           /\ \A h \in Handles : WriterOk(h) /\ CopierOk(h) /\ ReaderOk(h)
  BY DEF DataInv, IndexOk

LEMMA LeaveData ==
    ASSUME IInv, IInv', DataInv, NEW h \in Handles, shm.valid, Leave(h), writer # h,
           pc[h] \notin {"index", "publish"},
           UNCHANGED <<shm, files, writer, todo, ckpt, txns, history>>
    PROVE  DataInv'
  <1>1. TypeOK /\ shm.hdr.at \in Nat
    BY ShmIs DEF DataInv
  <1>2. Others(h) /\ pc'[h] = "idle" /\ slot'[h] = NoSlot /\ NoSlot # 0
    BY LeaveMoves
  <1>3. /\ TypeOwn' /\ TypeMark' /\ TypeMin' /\ own'[h].at = 0 /\ OtherMins(h)
    BY <1>1, LeaveTyped DEF OtherMins
  <1>4. WriterOk(h)' /\ ReaderOk(h)'
    BY <1>1, <1>2, <1>3, NoWriter, IdleReader
  <1> QED
    BY <1>2, <1>3, <1>4, ReadMoves DEF MarksOnly

\* A handle moves on before it reads.
LEMMA StartsData ==
    ASSUME IInv, IInv', DataInv, NEW h \in Handles, shm.valid, ckpt.by # h, ~Appending(h),
           MarksOnly, Others(h), UNCHANGED <<own, min>>,
           UNCHANGED <<files, writer, todo, ckpt, txns, history>>, TypeMark',
           pc'[h] \in {"hdr", "choose", "lock"},
           slot'[h] = 0 /\ pc'[h] # "lock" => slot[h] = 0 /\ pc[h] # "lock"
    PROVE  DataInv'
  <1>1. /\ TypeOK /\ WriterOk(h) /\ ReaderOk(h)
    BY DataIs
  <1>2. shm'.hdr = shm.hdr
    BY <1>1, MarksOnlyIs
  <1>3. TypeOwn' /\ TypeMin' /\ OtherMins(h)
    BY <1>1, SameTyped
  <1>4. UNCHANGED <<log, safe, commits, base, txns, todo, writer>>
    BY DEF files, history
  <1>5. WriterOk(h)'
    BY <1>1, <1>2, <1>4, WriterWaits DEF Starts
  <1>6. ReaderOk(h)'
    BY <1>1, <1>2, IdleReader DEF ReaderOk
  <1> QED
    BY <1>3, <1>5, <1>6, ReadMoves DEF Appending

\* A handle moves on with another slot.
LEMMA SlotGoes ==
    ASSUME IInv, NEW h \in Handles, NEW l \in Places, NEW i \in 0 .. NoSlot, Goto(h, l),
           slot' = [slot EXCEPT ![h] = i], UNCHANGED <<own, mark>>
    PROVE  Others(h) /\ pc'[h] = l /\ slot'[h] = i /\ own'[h] = own[h]
  <1>1. pc \in [Handles -> Places] /\ slot \in [Handles -> 0 .. NoSlot]
    BY DEF IInv, Forms, HandleForms
  <1>2. pc'[h] = l /\ \A g \in Handles \ {h} : pc'[g] = pc[g]
    BY <1>1 DEF Goto
  <1>3. slot'[h] = i /\ \A g \in Handles \ {h} : slot'[g] = slot[g]
    BY <1>1
  <1> QED
    BY <1>2, <1>3 DEF Others

LEMMA RetryData ==
    ASSUME IInv, IInv', DataInv, NEW h \in Handles, Retry(h),
           pc[h] \in {"check0", "choose", "lock", "confirm"},
           UNCHANGED <<shm, files, writer, todo, ckpt, txns, history>>
    PROVE  DataInv'
  <1>0. shm.valid /\ ckpt.by # h
    BY HasLock DEF Copies
  <1>1. CASE writer # h
    BY <1>0, <1>1, LeaveData DEF Retry
  <1>2. CASE writer = h
    <2>1. Goto(h, "hdr") /\ slot' = [slot EXCEPT ![h] = NoSlot] /\ UNCHANGED <<own, mark, min>>
      BY <1>2 DEF Retry
    <2>2. "hdr" \in Places /\ NoSlot \in 0 .. NoSlot /\ NoSlot # 0
      BY DEF Places
    <2>3. Others(h) /\ pc'[h] = "hdr" /\ slot'[h] = NoSlot
      BY <2>1, <2>2, SlotGoes
    <2>4. TypeMark'
      BY <2>1, DataIs, SameTyped
    <2> QED
      BY <1>0, <2>1, <2>2, <2>3, <2>4, StartsData DEF MarksOnly, Appending
  <1> QED
    BY <1>1, <1>2

LEMMA LockZeroData == ASSUME IInv, IInv', DataInv, NEW h \in Handles, LockZero(h) PROVE DataInv'
  <1>1. /\ pc[h] = "hdr" /\ MayIgnoreLog(h) /\ ~Copying
        /\ slot' = [slot EXCEPT ![h] = 0] /\ Goto(h, "check0")
        /\ UNCHANGED <<shm, files, own, mark, min, writer, todo, ckpt, txns, history>>
    BY DEF LockZero
  <1>2. shm.valid /\ writer # h /\ shm.nBackfill = own[h].mx
    BY <1>1, HasLock DEF MayIgnoreLog
  <1>3. "check0" \in Places /\ 0 \in 0 .. NoSlot
    BY DEF Places
  <1>4. Others(h) /\ pc'[h] = "check0" /\ slot'[h] = 0 /\ own'[h] = own[h]
    BY <1>1, <1>3, SlotGoes
  <1>5. TypeOwn' /\ TypeMark' /\ TypeMin' /\ OtherMins(h)
    BY <1>1, DataIs, SameTyped
  <1>6. WriterOk(h)'
    BY <1>1, <1>2, NoWriter
  <1>7. ReaderOk(h)
    BY <1>2, DataIs
  <1>8. ReaderOk(h)'
    BY <1>1, <1>2, <1>4, <1>7 DEF ReaderOk, InLog, Reading
  <1> QED
    BY <1>1, <1>2, <1>4, <1>5, <1>6, <1>8, ReadMoves DEF MarksOnly

LEMMA UseLogData == ASSUME IInv, IInv', DataInv, NEW h \in Handles, UseLog(h) PROVE DataInv'
  <1>1. /\ pc[h] = "hdr" /\ Goto(h, "choose")
        /\ UNCHANGED <<shm, files, own, slot, mark, min, writer, todo, ckpt, txns, history>>
    BY DEF UseLog
  <1>2. shm.valid /\ ckpt.by # h
    BY <1>1, HasLock DEF Copies
  <1>3. "choose" \in Places
    BY DEF Places
  <1>4. Others(h) /\ pc'[h] = "choose"
    BY <1>1, <1>3, GoesOn
  <1>5. TypeMark'
    BY <1>1, DataIs, SameTyped
  <1> QED
    BY <1>1, <1>2, <1>4, <1>5, StartsData DEF MarksOnly, Appending

(***************************************************************************)
(* A transaction begins.                                                   *)
(***************************************************************************)

\* The published part of the log is what the commits up to the published one make.
LEMMA PublishedHolds ==
    ASSUME DataInv, shm.valid, shm.hdr.mx > 0
    PROVE  Holds(log.frame, shm.hdr.mx, shm.hdr.at)
  <1>1. TypeOK /\ Versions /\ Committed /\ Genuine /\ Published
    BY DataIs DEF FilesOk
  <1>2. shm.hdr.mx \in Frames
    BY <1>1, ShmIs DEF Frames
  <1>3. shm.hdr.at \in 1 .. Len(commits)
    BY <1>1, AtIs
  <1> QED
    BY <1>1, <1>2, <1>3, CommitIs DEF Published

\* Who has the published header and min may read.
LEMMA SnapNow ==
    ASSUME DataInv, shm.valid, NEW h \in Handles, own[h] = shm.hdr,
           IF slot[h] = 0 THEN shm.nBackfill = own[h].mx ELSE min[h] <= shm.nBackfill + 1
    PROVE  SnapOk(h)
  <1>1. TypeOK /\ DbOk
    BY DataIs
  <1>2. shm.hdr.mx \in 0 .. MaxFrames /\ shm.nBackfill \in Nat /\ min[h] \in Nat
    BY <1>1, ShmIs
  <1>3. CASE slot[h] = 0
    BY <1>1, <1>2, <1>3 DEF DbOk, SnapOk
  <1>4. CASE slot[h] # 0
    <2>1. ASSUME NEW p \in Pages, NEW f \in Frames, Latest(log.frame, own[h].mx, p, f)
          PROVE  log.frame[f].txn = Content(own[h].at, p)
      <3>1. shm.hdr.mx > 0
        BY <1>2, <2>1 DEF Latest
      <3> QED
        BY <2>1, <3>1, PublishedHolds DEF Holds
    <2>2. ASSUME NEW p \in Pages, \A f \in 1 .. own[h].mx : min[h] <= f => log.frame[f].page # p
          PROVE  db[p] = Content(own[h].at, p)
      <3>1. \A f \in 1 .. shm.hdr.mx : log.frame[f].page = p => f <= shm.nBackfill
        BY <1>2, <1>4, <2>2
      <3> QED
        BY <1>1, <3>1 DEF DbOk
    <2> QED
      BY <1>4, <2>1, <2>2 DEF SnapOk
  <1> QED
    BY <1>3, <1>4

LEMMA SnapStays ==
    ASSUME NEW h \in Handles, SnapOk(h), UNCHANGED <<own, slot, min, log, db, commits>>
    PROVE  SnapOk(h)'
  <1>1. \A p : Content(own[h].at, p)' = Content(own[h].at, p)
    BY DEF Content
  <1> QED
    BY <1>1 DEF SnapOk

LEMMA CheckZeroData == ASSUME IInv, IInv', DataInv, NEW h \in Handles, CheckZero(h) PROVE DataInv'
  <1>1. pc[h] = "check0" /\ UNCHANGED <<shm, files, writer, todo, ckpt, txns, history>>
    BY DEF CheckZero
  <1>2. CASE ~StillCurrent(h)
    BY <1>1, <1>2, RetryData DEF CheckZero
  <1>3. CASE StillCurrent(h)
    <2>1. Goto(h, "read") /\ UNCHANGED <<own, slot, mark, min>> /\ own[h] = shm.hdr
      BY <1>3 DEF CheckZero, StillCurrent
    <2>2. shm.valid /\ writer # h /\ slot[h] = 0
      BY <1>1, HasLock DEF IInv, Safe, Protected
    <2>3. "read" \in Places
      BY DEF Places
    <2>4. Others(h) /\ pc'[h] = "read"
      BY <2>1, <2>3, GoesOn
    <2>5. TypeOwn' /\ TypeMark' /\ TypeMin' /\ OtherMins(h)
      BY <2>1, DataIs, SameTyped
    <2>6. WriterOk(h)'
      BY <1>1, <2>2, NoWriter
    <2>7. ReaderOk(h)
      BY <2>2, DataIs
    <2>8. shm.nBackfill = own[h].mx
      BY <1>1, <2>1, <2>2, <2>7 DEF ReaderOk
    <2>9. SnapOk(h)
      BY <2>1, <2>2, <2>8, SnapNow
    <2>10. UNCHANGED <<log, db, commits>>
      BY <1>1 DEF files, history
    <2>11. SnapOk(h)'
      BY <2>1, <2>9, <2>10, SnapStays
    <2>12. ReaderOk(h)'
      BY <1>1, <2>1, <2>2, <2>4, <2>7, <2>8, <2>11 DEF ReaderOk, InLog, Reading
    <2> QED
      BY <1>1, <2>1, <2>2, <2>4, <2>5, <2>6, <2>12, ReadMoves DEF MarksOnly
  <1> QED
    BY <1>2, <1>3

LEMMA EndReadData == ASSUME IInv, IInv', DataInv, NEW h \in Handles, EndRead(h) PROVE DataInv'
  <1>1. /\ pc[h] = "read" /\ Leave(h)
        /\ UNCHANGED <<shm, files, writer, todo, ckpt, txns, history>>
    BY DEF EndRead
  <1>2. shm.valid /\ writer # h
    BY <1>1, HasLock
  <1> QED
    BY <1>1, <1>2, LeaveData

LEMMA LockSlotData == ASSUME IInv, IInv', DataInv, NEW h \in Handles, LockSlot(h) PROVE DataInv'
  <1>1. pc[h] = "lock" /\ UNCHANGED <<shm, files, writer, todo, ckpt, txns, history>>
    BY DEF LockSlot
  <1>2. CASE Retry(h)
    BY <1>1, <1>2, RetryData
  <1>3. CASE ~Retry(h)
    <2>1. /\ Goto(h, "confirm") /\ UNCHANGED <<own, slot, mark>>
          /\ min' = [min EXCEPT ![h] = shm.nBackfill + 1]
      BY <1>3 DEF LockSlot
    <2>2. shm.valid /\ ckpt.by # h /\ slot[h] \in Slots
      BY <1>1, HasLock DEF IInv, Safe, Protected, Copies
    <2>3. "confirm" \in Places
      BY DEF Places
    <2>4. Others(h) /\ pc'[h] = "confirm"
      BY <2>1, <2>3, GoesOn
    <2>5. /\ TypeOK /\ TypeMin /\ shm.nBackfill \in 0 .. MaxFrames /\ WriterOk(h) /\ ReaderOk(h)
      BY <2>2, DataIs, TypeIs, ShmIs DEF TypeParts
    <2>6. TypeMin' /\ OtherMins(h) /\ min'[h] = shm.nBackfill + 1
      BY <2>1, <2>5 DEF TypeMin, OtherMins
    <2>7. TypeOwn' /\ TypeMark'
      BY <2>1, <2>5, SameTyped
    <2>8. UNCHANGED <<log, safe, commits, base>> /\ shm'.hdr = shm.hdr
      BY <1>1 DEF files, history
    <2>9. WriterOk(h)'
      BY <1>1, <2>1, <2>2, <2>4, <2>5, <2>8, WriterWaits DEF Appending, Starts
    <2>10. ReaderOk(h)'
      BY <1>1, <2>1, <2>2, <2>4, <2>5, <2>6 DEF ReaderOk, InLog, Reading
    <2> QED
      BY <1>1, <2>1, <2>2, <2>4, <2>6, <2>7, <2>9, <2>10, ReadMoves DEF MarksOnly
  <1> QED
    BY <1>2, <1>3

\* The number of the next frame.
LEMMA NextFrameAt ==
    ASSUME TypeOK, IInv, NEW h \in Handles
    PROVE  /\ NextFrame(h) \in Nat /\ own[h].mx < NextFrame(h) /\ own[h].mx \in Nat
           /\ todo.left = todo.all => NextFrame(h) = own[h].mx + 1
           /\ todo.left \subseteq todo.all /\ todo.all \subseteq Pages
  <1>1. todo.all \in SUBSET Pages /\ todo.left \in SUBSET todo.all
    BY DEF IInv, Forms, SharedForms
  <1>2. IsFiniteSet(Pages)
    BY FS_Interval DEF Pages
  <1>3. IsFiniteSet(todo.all) /\ IsFiniteSet(todo.left)
    BY <1>1, <1>2, FS_Subset
  <1>4. /\ Cardinality(todo.all) \in Nat /\ Cardinality(todo.left) \in Nat
        /\ Cardinality(todo.left) <= Cardinality(todo.all)
    BY <1>1, <1>3, FS_Subset, FS_CardinalityType
  <1>5. own[h].mx \in Nat
    BY ShmIs
  <1> QED
    BY <1>1, <1>4, <1>5 DEF NextFrame

\* A transaction goes on to write, with a header when the log is empty.
LEMMA FirstWrites ==
    ASSUME IInv, DataInv, shm.valid, NEW h \in Handles, writer = h, ckpt.by # h,
           ~Appending(h), slot[h] \in Slots, own[h] = shm.hdr,
           UNCHANGED <<shm, log, safe, commits, base, txns, todo, writer, ckpt, own, slot>>,
           pc'[h] = FirstWrite(h)
    PROVE  WriterOk(h)'
  <1>1. TypeOK /\ WriterOk(h) /\ Published
    BY DataIs
  <1>2. Untouched /\ own[h].at = shm.hdr.at /\ txns > 0 /\ todo.all # {}
    BY <1>1 DEF WriterOk
  <1>3. CASE own[h].mx = 0
    <2>1. pc'[h] = "begin"
      BY <1>3 DEF FirstWrite
    <2>2. Untouched'
      BY <1>2 DEF Untouched
    <2> QED
      BY <1>2, <2>1, <2>2 DEF WriterOk, Appending
  <1>4. CASE own[h].mx # 0
    <2>1. pc'[h] = "frames"
      BY <1>4 DEF FirstWrite
    <2>2. /\ NextFrame(h) = own[h].mx + 1 /\ own[h].mx \in 0 .. MaxFrames /\ own[h].mx \in Nat
          /\ todo.left = todo.all
      BY <1>1, <1>2, NextFrameAt, ShmIs DEF Untouched
    <2>3. own[h].salt = log.salt
      BY <1>1, <1>4, <2>2 DEF Published
    <2>4. \A i \in 1 .. shm.hdr.at : commits[i].txn < txns
      BY <1>1, <1>2, AtIs DEF Untouched
    <2>5. NextFrame(h)' = own[h].mx + 1
      BY <2>2 DEF NextFrame
    <2>6. own[h].mx + 1 .. own[h].mx = {} /\ own[h].mx + 1 - 1 = own[h].mx
      BY <2>2
    <2>7. Appended(h, own[h].mx + 1, own[h].mx)'
      BY <1>2, <2>2, <2>6 DEF Appended, Untouched
    <2>8. Appended(h, own[h].mx + 1, NextFrame(h) - 1)'
      <3>1. NextFrame(h)' - 1 = own'[h].mx
        BY <2>2, <2>5
      <3> QED
        BY <2>7, <3>1
    <2> QED
      BY <1>2, <1>4, <2>1, <2>2, <2>3, <2>4, <2>8 DEF WriterOk, Appending
  <1> QED
    BY <1>3, <1>4

LEMMA ConfirmData == ASSUME IInv, IInv', DataInv, NEW h \in Handles, Confirm(h) PROVE DataInv'
  <1>1. pc[h] = "confirm" /\ UNCHANGED <<shm, files, writer, todo, ckpt, txns, history>>
    BY DEF Confirm
  <1>2. CASE Retry(h)
    BY <1>1, <1>2, RetryData
  <1>3. CASE ~Retry(h)
    <2> DEFINE l == IF writer = h THEN FirstWrite(h) ELSE "read"
    <2>1. Goto(h, l) /\ UNCHANGED <<own, slot, mark, min>> /\ own[h] = shm.hdr
      BY <1>3 DEF Confirm, StillCurrent
    <2>2. shm.valid /\ ckpt.by # h /\ slot[h] \in Slots
      BY <1>1, HasLock DEF IInv, Safe, Protected, Copies
    <2>3. l \in Places
      BY DEF Places, FirstWrite
    <2>4. l \in {"begin", "frames", "read"} /\ (writer = h => l = FirstWrite(h))
      BY DEF FirstWrite
    <2> HIDE DEF l
    <2>5. Others(h) /\ pc'[h] = l
      BY <2>1, <2>3, GoesOn
    <2>6. TypeOwn' /\ TypeMark' /\ TypeMin' /\ OtherMins(h)
      BY <2>1, DataIs, SameTyped
    <2>7. ReaderOk(h) /\ slot[h] # 0 /\ slot[h] # NoSlot
      BY <2>2, DataIs
    <2>8. UNCHANGED <<log, db, safe, commits, base>>
      BY <1>1 DEF files, history
    <2>9. WriterOk(h)'
      <3>1. CASE writer = h
        BY <1>1, <2>1, <2>2, <2>4, <2>5, <2>8, <3>1, FirstWrites DEF Appending
      <3>2. CASE writer # h
        BY <1>1, <3>2, NoWriter
      <3> QED
        BY <3>1, <3>2
    <2>10. min[h] <= shm.nBackfill + 1
      BY <1>1, <2>1, <2>7 DEF ReaderOk
    <2>11. SnapOk(h)
      BY <2>1, <2>2, <2>7, <2>10, SnapNow
    <2>12. SnapOk(h)'
      BY <2>1, <2>8, <2>11, SnapStays
    <2>13. ReaderOk(h)'
      BY <1>1, <2>1, <2>4, <2>5, <2>7, <2>10, <2>12 DEF ReaderOk
    <2> QED
      BY <1>1, <2>1, <2>2, <2>4, <2>5, <2>6, <2>7, <2>9, <2>13, ReadMoves DEF MarksOnly
  <1> QED
    BY <1>2, <1>3

LEMMA ChooseSlotData == ASSUME IInv, IInv', DataInv, NEW h \in Handles, ChooseSlot(h) PROVE DataInv'
  <1> DEFINE mx == own[h].mx
             low == {i \in Slots : shm.mark[i] <= mx}
             best == Greatest({i \in low : \A j \in low : shm.mark[j] <= shm.mark[i]})
             free == {i \in Slots : SlotFree(i)}
             take(i, m) == /\ mark' = [mark EXCEPT ![h] = m]
                           /\ slot' = [slot EXCEPT ![h] = i]
                           /\ Goto(h, "lock") /\ UNCHANGED <<own, min>>
  <1>1. pc[h] = "choose" /\ UNCHANGED <<files, writer, todo, ckpt, txns, history>>
    BY DEF ChooseSlot
  <1>2. \/ free # {} /\ take(Least(free), mx) /\ shm' = [shm EXCEPT !.mark[Least(free)] = mx]
        \/ low # {} /\ take(best, shm.mark[best]) /\ UNCHANGED shm
        \/ Retry(h) /\ UNCHANGED shm
    BY DEF ChooseSlot
  <1>3. CASE Retry(h) /\ UNCHANGED shm
    BY <1>1, <1>3, RetryData
  <1>4. ASSUME NEW i, NEW m, take(i, m), MarksOnly PROVE DataInv'
    <2>1. shm.valid /\ ckpt.by # h
      BY <1>1, HasLock DEF Copies
    <2>2. /\ pc \in [Handles -> Places] /\ slot \in [Handles -> 0 .. NoSlot] /\ mark \in [Handles -> Nat]
          /\ mark' \in [Handles -> Nat]
      BY DEF IInv, Forms, HandleForms
    <2>3. Others(h) /\ pc'[h] = "lock"
      BY <1>4, <2>2 DEF Others, Goto
    <2>4. mark'[h] <= own[h].mx /\ own[h].mx \in 0 .. MaxFrames /\ TypeMark
      BY <1>4, <2>3, DataIs, ShmIs, TypeIs DEF IInv, Safe, Protected, TypeParts
    <2>5. TypeMark'
      <3>1. \A g \in Handles : mark'[g] \in 0 .. MaxFrames
        BY <2>2, <2>3, <2>4 DEF Others, TypeMark
      <3> QED
        BY <2>2, <3>1 DEF TypeMark
    <2> QED
      BY <1>1, <1>4, <2>1, <2>3, <2>5, StartsData DEF Appending
  <1>5. CASE low # {} /\ take(best, shm.mark[best]) /\ UNCHANGED shm
    BY <1>4, <1>5 DEF MarksOnly
  <1>6. CASE free # {} /\ take(Least(free), mx) /\ shm' = [shm EXCEPT !.mark[Least(free)] = mx]
    <2>1. Least(free) \in Slots
      <3>1. free \in SUBSET Nat /\ free \subseteq Slots
        OBVIOUS
      <3> HIDE DEF free
      <3> QED
        BY <1>6, <3>1, LeastIs
    <2>2. mx \in 0 .. NotUsed
      BY DataIs, ShmIs DEF NotUsed
    <2>3. MarksOnly
      BY <1>6, <2>1, <2>2 DEF MarksOnly
    <2> QED
      BY <1>4, <1>6, <2>3
  <1> QED
    BY <1>2, <1>3, <1>5, <1>6

LEMMA ReadData == ASSUME IInv, IInv', DataInv, NEW h \in Handles, Read(h) PROVE DataInv'
  BY ReadHdrData, LockZeroData, CheckZeroData, UseLogData, ChooseSlotData, LockSlotData, ConfirmData,
     EndReadData DEF Read

(***************************************************************************)
(* The writer, short of the log.                                           *)
(***************************************************************************)
LEMMA BeginWriteData == ASSUME IInv, IInv', DataInv, NEW h \in Handles, BeginWrite(h) PROVE DataInv'
  <1>1. /\ pc[h] = "read" /\ txns < MaxTxns /\ own[h] = shm.hdr /\ writer' = h /\ txns' = txns + 1
        /\ Goto(h, "restart") /\ UNCHANGED <<shm, files, own, slot, mark, min, ckpt, history>>
    BY DEF BeginWrite, StillCurrent
  <1>2. PICK S \in (SUBSET Pages) \ {{}} : todo' = [all |-> S, left |-> S]
    BY DEF BeginWrite
  <1>3. shm.valid /\ ckpt.by # h
    BY <1>1, HasLock DEF Copies
  <1>4. "restart" \in Places
    BY DEF Places
  <1>5. Others(h) /\ pc'[h] = "restart"
    BY <1>1, <1>4, GoesOn
  <1>6. /\ TypeOK /\ FilesOk /\ ReaderOk(h) /\ txns \in Nat /\ TypeTxns
    BY <1>3, DataIs, CountsAre, TypeIs DEF TypeParts
  <1>7. TypeShm' /\ TypeOwn' /\ TypeMark' /\ TypeMin' /\ TypeCkpt' /\ OtherMins(h)
    BY <1>1, <1>6, SameTyped
  <1>8. TypeTxns' /\ txns <= txns'
    BY <1>1, <1>6 DEF TypeTxns
  <1>9. UNCHANGED <<log, db, safe, commits, base, kept, crashes>>
    BY <1>1 DEF files, history
  <1>10. Untouched'
    <2>1. ASSUME NEW f \in Frames, NEW x \in safe.frame[f] PROVE x.txn < txns + 1
      <3>1. x.txn <= txns
        BY <1>6 DEF FilesOk, Versions
      <3>2. x.txn \in Nat
        BY <1>6, FrameAt, FrameIs
      <3> QED
        BY <1>6, <3>1, <3>2
    <2>2. ASSUME NEW i \in 1 .. Len(commits) PROVE commits[i].txn < txns + 1
      <3>1. commits[i].txn <= txns
        BY <1>6 DEF FilesOk, Committed
      <3>2. commits[i].txn \in Nat
        BY <1>6, CommitAt
      <3> QED
        BY <1>6, <3>1, <3>2
    <2> QED
      BY <1>1, <1>2, <1>9, <2>1, <2>2 DEF Untouched
  <1>11. WriterOk(h)'
    BY <1>1, <1>2, <1>5, <1>6, <1>10 DEF WriterOk, Appending
  <1>12. SnapOk(h)'
    BY <1>1, <1>6, <1>9, SnapStays DEF ReaderOk, Reading
  <1>13. ReaderOk(h)'
    BY <1>1, <1>5, <1>6, <1>12 DEF ReaderOk, InLog, Reading
  <1>14. LeavesLocks(h)
    BY <1>1, <1>3 DEF LeavesLocks
  <1>15. CopierOk(h)' /\ (Pending => Pending')
    BY <1>1, <1>5, PendingKept DEF CopierOk
  <1> QED
    BY <1>1, <1>3, <1>5, <1>7, <1>8, <1>9, <1>11, <1>13, <1>14, <1>15, QuietMoves

LEMMA RestartLogGoesData ==
    ASSUME IInv, IInv', DataInv, NEW h \in Handles, RestartLog(h), ~NewHdr(h)
    PROVE  DataInv'
  <1>1. /\ pc[h] = "restart"
        /\ UNCHANGED <<files, mark, min, writer, todo, ckpt, txns, history>>
    BY DEF RestartLog
  <1>2. shm.valid /\ ckpt.by # h /\ writer = h
    BY <1>1, HasLock DEF IInv, Safe, Writing, Writes, Copies
  <1>3. UNCHANGED <<log, db, safe, commits, base, txns, todo, writer, ckpt>>
    BY <1>1 DEF files, history
  <1>4. CASE slot[h] # 0 /\ Goto(h, FirstWrite(h)) /\ UNCHANGED <<own, slot, shm>>
    <2>1. own[h] = shm.hdr /\ ReaderOk(h)
      BY <1>1, <1>2, DataIs DEF IInv, Safe, Writing, Copies
    <2>2. slot[h] \in Slots
      <3>1. slot[h] \in 0 .. NoSlot /\ slot[h] # NoSlot
        BY <1>1, <2>1, DataIs, ShmIs DEF ReaderOk, Reading
      <3> QED
        BY <1>4, <3>1
    <2>3. FirstWrite(h) \in Places /\ FirstWrite(h) \in {"begin", "frames"}
      BY DEF FirstWrite, Places
    <2>4. Others(h) /\ pc'[h] = FirstWrite(h)
      BY <1>1, <1>4, <2>3, GoesOn
    <2>5. WriterOk(h)'
      BY <1>1, <1>2, <1>3, <1>4, <2>1, <2>2, <2>4, FirstWrites DEF Appending
    <2>6. TypeOwn' /\ TypeMark' /\ TypeMin' /\ OtherMins(h)
      BY <1>1, <1>4, DataIs, SameTyped
    <2>7. SnapOk(h)'
      BY <1>1, <1>3, <1>4, <2>1, SnapStays DEF ReaderOk, Reading
    <2>8. ReaderOk(h)'
      BY <1>1, <1>4, <2>1, <2>3, <2>4, <2>7 DEF ReaderOk, InLog, Reading
    <2> QED
      BY <1>1, <1>2, <1>4, <2>3, <2>4, <2>5, <2>6, <2>8, ReadMoves DEF MarksOnly
  <1>5. CASE Goto(h, "hdr") /\ slot' = [slot EXCEPT ![h] = NoSlot] /\ UNCHANGED <<own, shm>>
    <2>1. "hdr" \in Places /\ NoSlot \in 0 .. NoSlot /\ NoSlot # 0
      BY DEF Places
    <2>2. Others(h) /\ pc'[h] = "hdr" /\ slot'[h] = NoSlot
      BY <1>1, <1>5, <2>1, SlotGoes
    <2>3. TypeMark'
      BY <1>1, DataIs, SameTyped
    <2> QED
      BY <1>1, <1>2, <1>5, <2>1, <2>2, <2>3, StartsData DEF MarksOnly, Appending
  <1> QED
    BY <1>4, <1>5 DEF RestartLog

LEMMA IndexFramesData == ASSUME IInv, IInv', DataInv, NEW h \in Handles, IndexFrames(h) PROVE DataInv'
  <1> DEFINE index == [f \in Frames |-> IF f <= own[h].mx THEN shm.index[f]
                                        ELSE IF f < NextFrame(h) THEN log.frame[f].page ELSE 0]
  <1>1. /\ pc[h] = "index" /\ shm' = [shm EXCEPT !.index = index] /\ Goto(h, "publish")
        /\ UNCHANGED <<files, own, slot, mark, min, writer, todo, ckpt, txns, history>>
    BY DEF IndexFrames
  <1>2. shm.valid /\ ckpt.by # h /\ writer = h
    BY <1>1, HasLock DEF IInv, Safe, Writing, Writes, Copies
  <1>3. "publish" \in Places
    BY DEF Places
  <1>4. Others(h) /\ pc'[h] = "publish"
    BY <1>1, <1>3, GoesOn
  <1>5. TypeOK /\ WriterOk(h) /\ ReaderOk(h) /\ TypeShm
    BY <1>2, DataIs, TypeIs DEF TypeParts
  <1>6. /\ NextFrame(h) \in Nat /\ own[h].mx < NextFrame(h) /\ own[h].mx \in Nat
    BY <1>5, NextFrameAt
  <1>7. index \in [Frames -> 0 .. NPages]
    <2>1. ASSUME NEW f \in Frames PROVE log.frame[f].page \in 0 .. NPages
      <3>1. log.frame[f].page \in Pages \cup {0}
        BY <1>5, FrameAt, FrameIs
      <3> QED
        BY <3>1 DEF Pages
    <2>2. ASSUME NEW f \in Frames PROVE shm.index[f] \in 0 .. NPages
      BY <1>5 DEF TypeShm
    <2> QED
      BY <2>1, <2>2
  <1> HIDE DEF index
  <1>8. /\ TypeShm' /\ shm'.hdr = shm.hdr /\ shm'.nBackfill = shm.nBackfill /\ shm'.index = index
        /\ shm'.valid = shm.valid
    BY <1>1, <1>5, <1>7 DEF TypeShm
  <1>9. shm.hdr.mx = own[h].mx /\ own[h].mx <= MaxFrames
    BY <1>1, <1>2, <1>5, ShmIs DEF IInv, Safe, Writing
  <1>10. \A f \in 1 .. shm.hdr.mx : shm'.index[f] = shm.index[f]
    BY <1>6, <1>8, <1>9 DEF index, Frames
  <1>11. UNCHANGED <<log, db, safe, commits, base, kept, crashes>>
    BY <1>1 DEF files, history
  <1>12. TypeOwn' /\ TypeMark' /\ TypeMin' /\ TypeCkpt' /\ OtherMins(h) /\ TypeTxns' /\ txns <= txns'
    BY <1>1, <1>5, SameTyped
  <1>13. WriterOk(h)'
    <2> DEFINE lo == own[h].mx + 1
               hi == NextFrame(h) - 1
    <2>1. Appended(h, lo, hi)
      BY <1>1, <1>2, <1>5 DEF WriterOk, Appending
    <2>2. NextFrame(h)' = NextFrame(h) /\ own'[h] = own[h]
      BY <1>1 DEF NextFrame
    <2>3. \A f \in lo .. hi : shm'.index[f] = log.frame[f].page
      BY <1>6, <1>8, <2>1 DEF index, Frames, Appended
    <2>4. PICK a, b : a = lo /\ b = hi
      OBVIOUS
    <2>5. Appended(h, a, b)'
      BY <1>1, <1>4, <1>11, <2>1, <2>3, <2>4 DEF Appended
    <2>6. Appended(h, own[h].mx + 1, NextFrame(h) - 1)'
      BY <2>2, <2>4, <2>5
    <2> QED
      BY <1>1, <1>2, <1>4, <1>5, <1>8, <1>11, <2>2, <2>6 DEF WriterOk, Appending
  <1>14. ReaderOk(h)'
    <2>1. SnapOk(h)'
      BY <1>1, <1>5, <1>11, SnapStays DEF ReaderOk, Reading
    <2> QED
      BY <1>1, <1>4, <1>5, <1>8, <2>1 DEF ReaderOk, InLog, Reading
  <1>15. LeavesLocks(h)
    BY <1>1, <1>2 DEF LeavesLocks
  <1>16. CopierOk(h)' /\ (Pending => Pending')
    BY <1>1, <1>4, PendingKept DEF CopierOk
  <1> QED
    BY <1>1, <1>2, <1>4, <1>8, <1>10, <1>11, <1>12, <1>13, <1>14, <1>15, <1>16, QuietMoves

(***************************************************************************)
(* The checkpoint, short of copying.                                       *)
(***************************************************************************)
LEMMA CkptTyped ==
    ASSUME IInv', ckpt'.next <= NSlots + 1, ckpt'.upTo <= MaxFrames, ckpt'.left \subseteq Frames
    PROVE  TypeCkpt'
  <1>1. ckpt' \in [by : Handles \cup {Nobody}, mode : {"PASSIVE", "FULL", "RESTART", "TRUNCATE"},
                   next : Nat, upTo : Nat, left : {ckpt'.left}]
    BY DEF IInv, Forms, SharedForms
  <1>2. ckpt'.next \in 0 .. NSlots + 1 /\ ckpt'.upTo \in 0 .. MaxFrames
    BY <1>1
  <1> QED
    BY <1>1, <1>2 DEF TypeCkpt

LEMMA CkptIs ==
    ASSUME TypeOK
    PROVE  /\ ckpt.next \in 0 .. NSlots + 1 /\ ckpt.upTo \in 0 .. MaxFrames /\ ckpt.left \subseteq Frames
           /\ ckpt = [by |-> ckpt.by, mode |-> ckpt.mode, next |-> ckpt.next, upTo |-> ckpt.upTo,
                      left |-> ckpt.left]
  <1>1. TypeCkpt
    BY TypeIs DEF TypeParts
  <1> QED
    BY <1>1 DEF TypeCkpt

\* A checkpoint goes on; of what is shared, at most a mark changes.
LEMMA CkptMoves ==
    ASSUME IInv, IInv', DataInv, NEW h \in Handles, shm.valid, MarksOnly,
           pc[h] \notin {"index", "publish"},
           pc'[h] \in Copies \cup {"ckptWrite"}, ckpt'.by = h, ckpt.by \in {h, Nobody},
           writer' = writer \/ writer' = h,
           Others(h), OtherMins(h), UNCHANGED <<files, slot, todo, txns, history>>,
           slot[h] = 0 => pc[h] # "lock",
           TypeOwn', TypeMark', TypeMin', TypeCkpt', CopierOk(h)',
           own'[h].at <= shm.hdr.at
    PROVE  DataInv'
  <1>1. TypeOK /\ UNCHANGED <<commits, base, kept, crashes>>
    BY DEF DataInv, history
  <1>2. /\ TypeShm' /\ shm'.hdr = shm.hdr /\ shm'.nBackfill = shm.nBackfill
        /\ shm'.index = shm.index /\ shm'.valid = shm.valid
    BY <1>1, MarksOnlyIs
  <1>3. TypeTxns' /\ txns <= txns'
    BY <1>1, SameTyped
  <1>4. LeavesLocks(h)
    BY <1>2 DEF LeavesLocks
  <1>5. WriterOk(h)'
    BY DEF WriterOk, Copies, Appending
  <1>6. ReaderOk(h)'
    BY <1>2, IdleReader DEF Copies
  <1>7. Pending => Pending'
    BY PendingKept
  <1>8. pc'[h] # "idle"
    BY DEF Copies
  <1> QED
    BY <1>1, <1>2, <1>3, <1>4, <1>5, <1>6, <1>7, <1>8, QuietMoves

LEMMA CheckpointData ==
    ASSUME IInv, IInv', DataInv, NEW h \in Handles, NEW mode, Checkpoint(h, mode)
    PROVE  DataInv'
  <1> DEFINE l == IF mode = "PASSIVE" THEN "ckptHdr" ELSE "ckptWrite"
  <1>1. /\ pc[h] = "idle" /\ shm.valid /\ ckpt.by = Nobody /\ Goto(h, l)
        /\ ckpt' = [NoCkpt EXCEPT !.by = h, !.mode = mode]
        /\ UNCHANGED <<shm, files, own, slot, mark, min, writer, todo, txns, history>>
    BY DEF Checkpoint
  <1>2. l \in Places /\ l \in Copies \cup {"ckptWrite"} /\ l \notin {"slots", "copy"}
    BY DEF Places, Copies
  <1> HIDE DEF l
  <1>3. Others(h) /\ pc'[h] = l
    BY <1>1, <1>2, GoesOn
  <1>4. ckpt'.by = h /\ ckpt'.next = 0 /\ ckpt'.upTo = 0 /\ ckpt'.left = {}
    BY <1>1 DEF NoCkpt
  <1>5. TypeCkpt'
    BY <1>4, CkptTyped
  <1>6. TypeOwn' /\ TypeMark' /\ TypeMin' /\ OtherMins(h) /\ ReaderOk(h)
    BY <1>1, DataIs, SameTyped
  <1>7. CopierOk(h)'
    BY <1>2, <1>3 DEF CopierOk
  <1>8. own'[h].at <= shm.hdr.at
    BY <1>1, <1>6 DEF ReaderOk
  <1> QED
    BY <1>1, <1>2, <1>3, <1>4, <1>5, <1>6, <1>7, <1>8, CkptMoves DEF MarksOnly

LEMMA LockWriteData == ASSUME IInv, IInv', DataInv, NEW h \in Handles, LockWrite(h) PROVE DataInv'
  <1>1. /\ pc[h] = "ckptWrite" /\ writer' = h /\ Goto(h, "ckptHdr")
        /\ UNCHANGED <<shm, files, own, slot, mark, min, todo, ckpt, txns, history>>
    BY DEF LockWrite
  <1>2. "ckptHdr" \in Places /\ "ckptHdr" \in Copies
    BY DEF Places, Copies
  <1>3. Others(h) /\ pc'[h] = "ckptHdr"
    BY <1>1, <1>2, GoesOn
  <1>4. shm.valid /\ ckpt.by = h
    BY <1>1, HasLock DEF IInv, Safe, Backfilling
  <1>5. /\ TypeOwn' /\ TypeMark' /\ TypeMin' /\ TypeCkpt' /\ OtherMins(h) /\ ReaderOk(h)
    BY <1>1, <1>4, DataIs, SameTyped
  <1>6. CopierOk(h)'
    BY <1>3 DEF CopierOk
  <1>7. own'[h].at <= shm.hdr.at
    BY <1>1, <1>5 DEF ReaderOk
  <1> QED
    BY <1>1, <1>2, <1>3, <1>4, <1>5, <1>6, <1>7, CkptMoves DEF MarksOnly

LEMMA ReadCkptHdrData == ASSUME IInv, IInv', DataInv, NEW h \in Handles, ReadCkptHdr(h) PROVE DataInv'
  <1>1. /\ pc[h] = "ckptHdr" /\ own' = [own EXCEPT ![h] = shm.hdr] /\ Goto(h, "iterator")
        /\ UNCHANGED <<shm, files, slot, mark, min, writer, todo, ckpt, txns, history>>
    BY DEF ReadCkptHdr
  <1>2. "iterator" \in Places /\ "iterator" \in Copies /\ IsHdr(shm.hdr)
    BY DEF Places, Copies, IInv, Forms, SharedForms
  <1>3. Others(h) /\ pc'[h] = "iterator" /\ own'[h] = shm.hdr
    BY <1>1, <1>2, GoesWith
  <1>4. shm.valid /\ ckpt.by = h
    BY <1>1, HasLock DEF IInv, Safe, Backfilling, Copies
  <1>5. TypeOK /\ shm.hdr \in Hdr /\ shm.hdr.at \in Nat
    BY DataIs, ShmIs
  <1>6. /\ TypeOwn' /\ TypeMark' /\ TypeMin' /\ TypeCkpt' /\ OtherMins(h)
    BY <1>1, <1>5, OwnTyped, SameTyped
  <1>7. CopierOk(h)'
    BY <1>3 DEF CopierOk
  <1>8. own'[h].at <= shm.hdr.at
    BY <1>3, <1>5
  <1> QED
    BY <1>1, <1>2, <1>3, <1>4, <1>6, <1>7, <1>8, CkptMoves DEF MarksOnly

\* The last published frame of a page, found through the wal-index.
LEMMA FindsLatest ==
    ASSUME DataInv, shm.valid, NEW p \in Pages
    PROVE  /\ FindFrame(p, 1, shm.hdr.mx) # 0 =>
                 Latest(log.frame, shm.hdr.mx, p, FindFrame(p, 1, shm.hdr.mx))
           /\ \A f \in Frames : Latest(log.frame, shm.hdr.mx, p, f) => f = FindFrame(p, 1, shm.hdr.mx)
  <1> DEFINE mx == shm.hdr.mx
             found == {f \in Frames : 1 <= f /\ f <= mx /\ shm.index[f] = p}
  <1>1. TypeOK /\ Published
    BY DataIs
  <1>2. mx \in 0 .. MaxFrames
    BY <1>1, ShmIs
  <1>3. \A f \in 1 .. mx : shm.index[f] = log.frame[f].page
    BY <1>1, <1>2 DEF Published
  <1>4. found = {f \in 1 .. mx : log.frame[f].page = p}
    BY <1>2, <1>3 DEF Frames
  <1>5. FindFrame(p, 1, mx) = IF found = {} THEN 0 ELSE Greatest(found)
    BY DEF FindFrame
  <1>6. found # {} => Greatest(found) \in found /\ \A y \in found : y <= Greatest(found)
    <2> SUFFICES ASSUME found # {}
                 PROVE  Greatest(found) \in found /\ \A y \in found : y <= Greatest(found)
      OBVIOUS
    <2>1. mx \in Nat
      BY <1>2
    <2>2. found \in SUBSET (0 .. mx)
      BY <1>4
    <2> HIDE DEF found, mx
    <2> QED
      BY <2>1, <2>2, GreatestIs
  <1>7. PICK G : G = Greatest(found)
    OBVIOUS
  <1> HIDE DEF found, mx
  <1>8. found # {} => Latest(log.frame, mx, p, G)
    <2> SUFFICES ASSUME found # {} PROVE Latest(log.frame, mx, p, G)
      OBVIOUS
    <2>1. G \in found /\ \A y \in found : y <= G
      BY <1>6, <1>7
    <2>2. G \in 1 .. mx /\ log.frame[G].page = p
      BY <1>4, <2>1
    <2>3. ASSUME NEW i \in G + 1 .. mx PROVE log.frame[i].page # p
      <3>1. i \in 1 .. mx /\ ~(i <= G)
        BY <1>2, <2>2
      <3> QED
        BY <1>4, <2>1, <3>1
    <2> QED
      BY <2>2, <2>3 DEF Latest
  <1>9. ASSUME NEW f \in Frames, Latest(log.frame, mx, p, f) PROVE found # {} /\ f = G
    <2>1. f \in found
      BY <1>4, <1>9 DEF Latest
    <2>2. G \in found /\ f <= G
      BY <1>6, <1>7, <2>1
    <2>3. G \in 1 .. mx /\ log.frame[G].page = p
      BY <1>4, <2>2
    <2>4. G \notin f + 1 .. mx
      BY <1>9, <2>3 DEF Latest
    <2> QED
      BY <1>2, <2>1, <2>2, <2>3, <2>4 DEF Frames
  <1>10. FindFrame(p, 1, mx) # 0 => found # {} /\ FindFrame(p, 1, mx) = G
    BY <1>5, <1>7
  <1>11. found # {} => FindFrame(p, 1, mx) = G
    BY <1>5, <1>7
  <1> QED
    BY <1>8, <1>9, <1>10, <1>11 DEF mx

LEMMA BuildIteratorData == ASSUME IInv, IInv', DataInv, NEW h \in Handles, BuildIterator(h) PROVE DataInv'
  <1> DEFINE mx == own[h].mx
             work == shm.nBackfill < mx
             l == IF work THEN "slots" ELSE "drain"
             left == {FindFrame(p, 1, mx) : p \in Pages} \ {0}
  <1>1. /\ pc[h] = "iterator" /\ Goto(h, l)
        /\ ckpt' = IF ~work THEN ckpt ELSE [ckpt EXCEPT !.next = 1, !.upTo = mx, !.left = left]
        /\ UNCHANGED <<shm, files, own, slot, mark, min, writer, todo, txns, history>>
    BY DEF BuildIterator
  <1>2. l \in Places /\ l \in Copies /\ (l = "slots" <=> work) /\ l # "copy"
    BY DEF Places, Copies
  <1> HIDE DEF l
  <1>3. Others(h) /\ pc'[h] = l
    BY <1>1, <1>2, GoesOn
  <1>4. shm.valid /\ ckpt.by = h /\ own[h] = shm.hdr
    BY <1>1, HasLock DEF IInv, Safe, Backfilling, Copies
  <1>5. /\ TypeOK /\ TypeCkpt /\ TypeOwn' /\ TypeMark' /\ TypeMin' /\ OtherMins(h) /\ ReaderOk(h)
        /\ mx \in 0 .. MaxFrames
    BY <1>1, <1>4, DataIs, SameTyped, TypeIs, ShmIs DEF TypeParts
  <1>6. /\ \A f \in left : \E p \in Pages : Latest(log.frame, shm.hdr.mx, p, f)
        /\ \A p \in Pages, f \in Frames : Latest(log.frame, shm.hdr.mx, p, f) => f \in left
    <2>1. ASSUME NEW p \in Pages, NEW f \in Frames, Latest(log.frame, shm.hdr.mx, p, f)
          PROVE  f \in left
      <3>1. f = FindFrame(p, 1, mx) /\ f # 0
        BY <1>4, <2>1, FindsLatest DEF Frames
      <3> QED
        BY <3>1
    <2> QED
      BY <1>4, <2>1, FindsLatest
  <1>7. left \subseteq Frames
    BY <1>4, <1>5, <1>6 DEF Latest, Frames
  <1> HIDE DEF left
  <1>8. ckpt'.by = h /\ TypeCkpt'
    <2>1. CASE work
      <3>1. ckpt' = [ckpt EXCEPT !.next = 1, !.upTo = mx, !.left = left]
        BY <1>1, <2>1
      <3>2. ckpt'.by = h /\ ckpt'.next = 1 /\ ckpt'.upTo = mx /\ ckpt'.left = left
        BY <1>4, <1>5, <3>1 DEF TypeCkpt
      <3> QED
        BY <1>5, <1>7, <3>2, CkptTyped
    <2>2. CASE ~work
      BY <1>1, <1>4, <1>5, <2>2 DEF TypeCkpt
    <2> QED
      BY <2>1, <2>2
  <1>9. CopierOk(h)'
    <2>1. CASE work
      <3>1. ckpt'.left = left
        BY <1>1, <1>5, <2>1 DEF TypeCkpt
      <3>2. UNCHANGED <<shm, log>>
        BY <1>1 DEF files
      <3> QED
        BY <1>2, <1>3, <1>6, <3>1, <3>2 DEF CopierOk
    <2>2. CASE ~work
      BY <1>2, <1>3, <2>2 DEF CopierOk
    <2> QED
      BY <2>1, <2>2
  <1>10. own'[h].at <= shm.hdr.at
    BY <1>1, <1>5 DEF ReaderOk
  <1> QED
    BY <1>1, <1>2, <1>3, <1>4, <1>5, <1>8, <1>9, <1>10, CkptMoves DEF MarksOnly

LEMMA PassSlotData == ASSUME IInv, IInv', DataInv, NEW h \in Handles, PassSlot(h) PROVE DataInv'
  <1>1. /\ pc[h] = "slots" /\ ckpt.next <= NSlots /\ Goto(h, "slots")
        /\ UNCHANGED <<files, own, slot, mark, min, writer, todo, txns, history>>
    BY DEF PassSlot
  <1>2. "slots" \in Places /\ "slots" \in Copies
    BY DEF Places, Copies
  <1>3. Others(h) /\ pc'[h] = "slots"
    BY <1>1, <1>2, GoesOn
  <1>4. shm.valid /\ ckpt.by = h /\ ckpt.next > 0
    BY <1>1, HasLock DEF IInv, Safe, Backfilling, Copies
  <1>5. /\ TypeOK /\ TypeCkpt /\ TypeOwn' /\ TypeMark' /\ TypeMin' /\ OtherMins(h) /\ ReaderOk(h)
        /\ CopierOk(h)
    BY <1>1, <1>4, DataIs, SameTyped, TypeIs DEF TypeParts
  <1>6. ckpt.next \in Slots /\ ckpt.upTo \in 0 .. MaxFrames
    BY <1>1, <1>4, <1>5 DEF TypeCkpt
  <1>7. MarksOnly
    <2>1. (IF ckpt.next = 1 THEN ckpt.upTo ELSE NotUsed) \in 0 .. NotUsed
      BY <1>6 DEF NotUsed
    <2> QED
      BY <1>6, <2>1 DEF PassSlot, MarksOnly
  <1>8. \/ ckpt' = [ckpt EXCEPT !.next = ckpt.next + 1]
        \/ ckpt' = [ckpt EXCEPT !.next = ckpt.next + 1, !.upTo = shm.mark[ckpt.next]]
           /\ shm.mark[ckpt.next] < ckpt.upTo
    BY DEF PassSlot
  <1>9. /\ ckpt'.by = h /\ ckpt'.next = ckpt.next + 1 /\ ckpt'.left = ckpt.left
        /\ ckpt'.upTo \in 0 .. MaxFrames
    <2>1. shm.mark[ckpt.next] \in Nat
      BY <1>5, <1>6, ShmIs
    <2>2. CASE ckpt' = [ckpt EXCEPT !.next = ckpt.next + 1]
      BY <1>4, <1>5, <1>6, <2>2 DEF TypeCkpt
    <2>3. CASE /\ ckpt' = [ckpt EXCEPT !.next = ckpt.next + 1, !.upTo = shm.mark[ckpt.next]]
               /\ shm.mark[ckpt.next] < ckpt.upTo
      <3>1. /\ ckpt'.by = h /\ ckpt'.next = ckpt.next + 1 /\ ckpt'.left = ckpt.left
            /\ ckpt'.upTo = shm.mark[ckpt.next]
        BY <1>4, <1>5, <2>3 DEF TypeCkpt
      <3> QED
        BY <1>6, <2>1, <2>3, <3>1
    <2> QED
      BY <1>8, <2>2, <2>3
  <1>10. TypeCkpt'
    <2>1. ckpt'.left \subseteq Frames /\ ckpt'.next <= NSlots + 1 /\ ckpt'.upTo <= MaxFrames
      BY <1>5, <1>6, <1>9 DEF TypeCkpt
    <2> QED
      BY <2>1, CkptTyped
  <1>11. CopierOk(h)'
    <2>1. shm'.hdr = shm.hdr /\ UNCHANGED log
      BY <1>1, <1>5, <1>7, MarksOnlyIs DEF files
    <2> QED
      BY <1>1, <1>3, <1>5, <1>9, <2>1 DEF CopierOk
  <1>12. own'[h].at <= shm.hdr.at
    BY <1>1, <1>5 DEF ReaderOk
  <1> QED
    BY <1>1, <1>2, <1>3, <1>4, <1>5, <1>7, <1>9, <1>10, <1>11, <1>12, CkptMoves

(***************************************************************************)
(* The checkpoint copies.                                                  *)
(***************************************************************************)

\* Nobody else has a lock that matters to the log.
LEMMA CopierAlone ==
    ASSUME IInv, NEW h \in Handles, ckpt.by = h, pc[h] \in Copies
    PROVE  shm.valid /\ (\A g \in Handles \ {h} : writer # g) /\ ~Pending
  <1>1. shm.valid
    BY HasLock
  <1>2. \A g \in Handles \ {h} : writer # g
    BY NoCopier
  <1>3. \A g \in Handles : pc[g] \in {"index", "publish"} => writer = g
    BY DEF IInv, Safe, Writing, Writes
  <1>4. pc[h] \notin {"index", "publish"}
    BY DEF Copies
  <1> QED
    BY <1>1, <1>2, <1>3, <1>4 DEF Pending

\* A checkpoint takes a step: what is left to show is what the files and the readers are owed.
LEMMA CopyMoves ==
    ASSUME IInv, IInv', DataInv, NEW h \in Handles, ckpt.by = h, pc[h] \in Copies,
           Others(h), shm'.valid, writer' \in {writer, Nobody}, ckpt'.by \in {h, Nobody},
           TypeParts', FilesOk', Published', DbOk', CopierOk(h)',
           \A g \in Handles \ {h} : ReaderOk(g)',
           (pc'[h] \in Copies /\ ckpt'.by = h) \/ (pc'[h] = "idle" /\ own'[h].at = 0),
           own'[h].at <= shm'.hdr.at
    PROVE  DataInv'
  <1>1. TypeOK'
    <2>1. (IInv /\ TypeParts => TypeOK)'
      BY TypeOf, PTL
    <2> QED
      BY <2>1
  <1>2. \A g \in Handles \ {h} : writer' # g /\ ckpt'.by # g
    BY CopierAlone
  <1>3. \A g \in Handles \ {h} : WriterOk(g)'
    BY <1>2, NoWriter
  <1>4. \A g \in Handles \ {h} : CopierOk(g)'
    BY <1>2 DEF IInv, Safe, Backfilling, CopierOk, Copies
  <1>5. WriterOk(h)'
    <2>1. CASE pc'[h] \in Copies /\ ckpt'.by = h
      BY <2>1 DEF WriterOk, Copies, Appending
    <2>2. CASE pc'[h] = "idle"
      <3>1. writer' # h
        BY <2>2 DEF IInv, Safe, Writing, Writes, Starts, Copies
      <3> QED
        BY <3>1, NoWriter
    <2> QED
      BY <2>1, <2>2
  <1>6. ReaderOk(h)'
    BY IdleReader DEF Copies
  <1>7. IndexOk'
    BY <1>3, <1>4, <1>5, <1>6 DEF IndexOk
  <1>8. Idle'
    <2>1. \A g \in Handles \ {h} : pc'[g] = "idle" => own'[g].at = 0
      BY DataIs DEF Idle, Others
    <2> QED
      BY <2>1 DEF Idle, Copies
  <1> QED
    BY <1>1, <1>7, <1>8 DEF DataInv, Lost

\* While the frames of the log stay, the files may lose what a crash could leave of them.
LEMMA FilesSettle ==
    ASSUME TypeOK, FilesOk, UNCHANGED <<log, commits, base, txns>>,
           \A f \in Frames : /\ log.frame[f] \in safe'.frame[f]
                             /\ safe'.frame[f] \subseteq safe.frame[f],
           \A p \in Pages :
              /\ db'[p] \in safe'.page[p]
              /\ \A x \in safe'.page[p] :
                    x \in safe.page[p] \/ \E f \in Frames : StableCommit(f) /\ ~Absent(log.frame, f, p),
           Stable(safe.at)'
    PROVE  FilesOk'
  <1>1. Versions'
    <2>1. \A f \in Frames : log'.frame[f] \in safe'.frame[f] /\ IsFiniteSet(safe'.frame[f])
      BY FS_Subset DEF FilesOk, Versions
    <2>2. \A f \in Frames : \A x \in safe'.frame[f] : x.prev <= x.txn /\ x.txn <= txns'
      BY DEF FilesOk, Versions
    <2>3. \A f \in Frames : \A x, y \in safe'.frame[f] : x.txn = y.txn => x = y
      BY DEF FilesOk, Versions
    <2>4. \A f \in Frames \ {1} : \A x \in safe'.frame[f], y \in safe'.frame[f - 1] :
              x.txn = y.txn => ~y.commit
      <3>1. \A f \in Frames \ {1} : f - 1 \in Frames
        BY DEF Frames
      <3> QED
        BY <3>1 DEF FilesOk, Versions
    <2> QED
      BY <2>1, <2>2, <2>3, <2>4 DEF Versions
  <1>2. Committed'
    BY DEF FilesOk, Committed
  <1>3. Genuine'
    <2> SUFFICES ASSUME NEW k \in Frames, NEW g, Outcome(g, k, log.salt)', g[k].commit
                 PROVE  \E n \in base + 1 .. Len(commits) : Holds(g, k, n)'
      BY DEF Genuine
    <2>1. \A f \in 1 .. k : f \in Frames
      BY DEF Frames
    <2>2. PICK s : s = log.salt
      OBVIOUS
    <2>3. Outcome(g, k, s)'
      BY <2>2 DEF Outcome
    <2>4. Outcome(g, k, s) /\ g \in [1 .. k -> AllFrames]
      BY <2>1, <2>3, OutcomeKept
    <2>5. PICK n \in base + 1 .. Len(commits) : Holds(g, k, n)
      BY <2>2, <2>4 DEF FilesOk, Genuine
    <2>6. \A m : Holds(g, k, m)' <=> Holds(g, k, m)
      BY DEF Holds, Content
    <2>7. Holds(g, k, n)'
      BY <2>5, <2>6
    <2> QED
      BY <2>7
  <1>4. \A f \in Frames : StableCommit(f) => StableCommit(f)'
    <2> SUFFICES ASSUME NEW f \in Frames, StableCommit(f) PROVE StableCommit(f)'
      OBVIOUS
    <2>1. \A j \in 1 .. f : safe'.frame[j] = {log.frame[j]}
      <3>1. \A j \in 1 .. f : j \in Frames
        BY DEF Frames
      <3> QED
        BY <3>1 DEF StableCommit
    <2> QED
      BY <2>1 DEF StableCommit, LogCommit
  <1>5. Paged'
    <2> SUFFICES ASSUME NEW p \in Pages, NEW x \in safe'.page[p]
                 PROVE  \/ x = Content(base, p)'
                        \/ \E f \in Frames : StableCommit(f)' /\ ~Absent(log'.frame, f, p)
      BY DEF Paged
    <2>1. Content(base, p)' = Content(base, p)
      BY DEF Content
    <2>2. x = Content(base, p) \/ \E f \in Frames : StableCommit(f) /\ ~Absent(log.frame, f, p)
      BY DEF FilesOk, Paged
    <2> QED
      BY <1>4, <2>1, <2>2
  <1> QED
    BY <1>1, <1>2, <1>3, <1>5 DEF FilesOk

\* What stays of the invariant when the log does, and the header.
LEMMA ReadersKept ==
    ASSUME IInv, DataInv, NEW h \in Handles, shm.valid, Others(h), OtherMins(h),
           UNCHANGED <<log, db, commits>>, shm'.hdr = shm.hdr, shm'.nBackfill = shm.nBackfill
    PROVE  \A g \in Handles \ {h} : ReaderOk(g)'
  <1> SUFFICES ASSUME NEW g \in Handles \ {h} PROVE ReaderOk(g)'
    OBVIOUS
  <1>1. TypeOK /\ ReaderOk(g)
    BY DataIs
  <1>2. pc'[g] = pc[g] /\ own'[g] = own[g] /\ slot'[g] = slot[g] /\ min'[g] = min[g]
    BY DEF Others, OtherMins
  <1> QED
    BY <1>1, <1>2, ReaderKept

\* The published commits are all of them, and the published part of the log ends in the last.
LEMMA AllPresent ==
    ASSUME DataInv, shm.valid, ~Pending
    PROVE  shm.hdr.at = Len(commits) /\ Present(Len(commits))
  BY DataIs, AtIs DEF Published

\* The log is synced: it and the database it was begun on have all commits.
LEMMA SyncStable ==
    ASSUME TypeOK, Present(Len(commits)), safe' = SyncedLog, UNCHANGED <<log, commits, base>>
    PROVE  Stable(safe.at)'
  <1>1. safe'.at = Len(commits) /\ \A f \in Frames : safe'.frame[f] = {log.frame[f]}
    BY FilesAre DEF SyncedLog
  <1>2. ASSUME NEW f \in Frames, LogCommit(f) PROVE StableCommit(f)'
    <2>1. \A j \in 1 .. f : j \in Frames
      BY DEF Frames
    <2> QED
      BY <1>1, <1>2, <2>1 DEF StableCommit, LogCommit
  <1> QED
    BY <1>1, <1>2 DEF Stable, Present, Has

LEMMA StartCopyData == ASSUME IInv, IInv', DataInv, NEW h \in Handles, StartCopy(h) PROVE DataInv'
  <1>1. /\ pc[h] = "slots" /\ ckpt.next > NSlots
        /\ UNCHANGED <<shm, log, db, own, slot, mark, min, writer, todo, txns, history>>
    BY DEF StartCopy
  <1>2. shm.valid /\ ckpt.by = h /\ own[h] = shm.hdr /\ ckpt.upTo <= shm.hdr.mx
    BY <1>1, HasLock DEF IInv, Safe, Backfilling, Copies
  <1>3. /\ TypeOK /\ TypeCkpt /\ TypeOwn' /\ TypeMark' /\ TypeMin' /\ OtherMins(h) /\ ReaderOk(h)
        /\ CopierOk(h) /\ FilesOk /\ Published /\ DbOk /\ TypeShm' /\ TypeTxns'
    BY <1>1, <1>2, DataIs, SameTyped, TypeIs DEF TypeParts
  <1>4. own'[h].at <= shm.hdr.at
    BY <1>1, <1>3 DEF ReaderOk
  <1>5. CASE Goto(h, "drain") /\ ckpt' = [ckpt EXCEPT !.left = {}] /\ UNCHANGED safe
    <2>1. "drain" \in Places /\ "drain" \in Copies
      BY DEF Places, Copies
    <2>2. Others(h) /\ pc'[h] = "drain"
      BY <1>1, <1>5, <2>1, GoesOn
    <2>3. ckpt'.by = h /\ TypeCkpt'
      BY <1>2, <1>3, <1>5 DEF TypeCkpt
    <2>4. CopierOk(h)'
      BY <2>2 DEF CopierOk
    <2>5. UNCHANGED files
      BY <1>1, <1>5 DEF files
    <2> QED
      BY <1>1, <1>2, <1>3, <1>4, <2>1, <2>2, <2>3, <2>4, <2>5, CkptMoves DEF MarksOnly
  <1>6. CASE /\ shm.nBackfill < ckpt.upTo /\ Holders(0) = {} /\ safe' = SyncedLog
             /\ ckpt' = [ckpt EXCEPT !.left = {f \in @ : shm.nBackfill < f /\ f <= ckpt.upTo}]
             /\ Goto(h, "copy")
    <2>1. "copy" \in Places /\ "copy" \in Copies
      BY DEF Places, Copies
    <2>2. Others(h) /\ pc'[h] = "copy"
      BY <1>1, <1>6, <2>1, GoesOn
    <2>3. /\ ckpt'.by = h /\ ckpt'.upTo = ckpt.upTo /\ TypeCkpt'
          /\ ckpt'.left = {f \in ckpt.left : shm.nBackfill < f /\ f <= ckpt.upTo}
      BY <1>2, <1>3, <1>6 DEF TypeCkpt
    <2>4. ~Pending
      BY <1>1, <1>2, CopierAlone DEF Copies
    <2>5. shm.hdr.at = Len(commits) /\ Present(Len(commits))
      BY <1>2, <2>4, AllPresent
    <2>6. UNCHANGED <<log, db, commits, base, kept, crashes, txns>>
      BY <1>1 DEF history
    <2>7. /\ \A f \in Frames : safe'.frame[f] = {log.frame[f]}
          /\ safe'.page = safe.page /\ safe'.at = Len(commits)
      BY <1>3, <1>6, FilesAre DEF SyncedLog
    <2>8. FilesOk'
      <3>1. Stable(safe.at)'
        BY <1>3, <1>6, <2>5, <2>6, SyncStable
      <3>2. \A f \in Frames : /\ log.frame[f] \in safe'.frame[f]
                              /\ safe'.frame[f] \subseteq safe.frame[f]
        BY <1>3, <2>7 DEF FilesOk, Versions
      <3>3. \A p \in Pages : db'[p] \in safe'.page[p]
        BY <1>3, <2>6, <2>7 DEF FilesOk, Paged
      <3> QED
        BY <1>3, <2>6, <2>7, <3>1, <3>2, <3>3, FilesSettle
    <2>9. TypeParts'
      <3>1. TypeLog' /\ TypeDb' /\ TypeCommits' /\ TypeCounts'
        BY <1>3, <2>6, TypeIs DEF TypeParts, TypeLog, TypeDb, TypeCommits, TypeCounts
      <3>2. TypeSafe'
        <4>1. SyncedLog = [frame |-> [f \in Frames |-> {log.frame[f]}], page |-> safe.page,
                           at |-> Len(commits)]
          BY <1>3, SafeIs
        <4>2. shm.hdr.at \in 0 .. MaxTxns
          BY <1>3, ShmIs
        <4>3. [f \in Frames |-> {log.frame[f]}] \in [Frames -> SUBSET Frame]
          BY <1>3, FrameAt
        <4>4. safe.page \in [Pages -> SUBSET (0 .. Torn)]
          BY <1>3, FilesAre
        <4> QED
          BY <1>6, <2>5, <4>1, <4>2, <4>3, <4>4 DEF TypeSafe
      <3> QED
        BY <1>3, <2>3, <3>1, <3>2 DEF TypeParts
    <2>10. Published'
      <3>1. \A f \in Frames : safe'.frame[f] \subseteq safe.frame[f]
        BY <1>3, <2>7 DEF FilesOk, Versions
      <3>2. Pending => Pending'
        BY <2>4
      <3> QED
        BY <1>1, <1>3, <2>6, <3>1, <3>2, PublishedKept
    <2>11. DbOk'
      <3>1. shm.hdr.at <= Len(commits)
        BY <1>3, AtIs
      <3> QED
        BY <1>1, <1>3, <2>6, <2>7, <3>1, DbKept
    <2>12. CopierOk(h)'
      <3>1. Holders(0)' = {}
        <4>1. Holders(0)' = {g \in Handles : slot'[g] = 0 /\ pc'[g] # "lock"}
          BY DEF Holders
        <4>2. \A g \in Handles : slot[g] # 0 \/ pc[g] = "lock"
          BY <1>6 DEF Holders
        <4> QED
          BY <1>1, <2>2, <4>1, <4>2 DEF Others
      <3>2. StableCommit(shm.hdr.mx)'
        <4>1. shm.hdr.mx \in 0 .. MaxFrames /\ shm.nBackfill \in Nat /\ ckpt.upTo \in Nat
          BY <1>3, ShmIs, CkptIs
        <4>2. shm.hdr.mx > 0
          BY <1>2, <1>6, <4>1
        <4>3. LogCommit(shm.hdr.mx)
          BY <1>3, <4>2 DEF Published
        <4>4. \A j \in 1 .. shm.hdr.mx : j \in Frames
          BY <4>1 DEF Frames
        <4> QED
          BY <1>1, <2>6, <2>7, <4>3, <4>4 DEF StableCommit, LogCommit
      <3>3. \A p, f : Latest(log.frame, shm.hdr.mx, p, f)' <=> Latest(log.frame, shm.hdr.mx, p, f)
        BY <1>1
      <3> QED
        BY <1>1, <1>3, <1>6, <2>2, <2>3, <3>1, <3>2, <3>3 DEF CopierOk
    <2>13. \A g \in Handles \ {h} : ReaderOk(g)'
      BY <1>1, <1>2, <1>3, <2>2, <2>6, ReadersKept
    <2>14. pc[h] \in Copies /\ shm'.valid /\ writer' = writer /\ own'[h].at <= shm'.hdr.at
      BY <1>1, <1>2, <1>4 DEF Copies
    <2>15. pc'[h] \in Copies /\ ckpt'.by \in {h, Nobody}
      BY <2>1, <2>2, <2>3
    <2> QED
      BY <1>2, <2>2, <2>3, <2>8, <2>9, <2>10, <2>11, <2>12, <2>13, <2>14, <2>15, CopyMoves
  <1> QED
    BY <1>5, <1>6 DEF StartCopy

\* A page on its way into the database is the last published frame of it, not yet copied,
\* and no reader of the database alone looks at it.
LEMMA NextCopyIs ==
    ASSUME IInv, DataInv, NEW h \in Handles, pc[h] = "copy", ckpt.left # {}
    PROVE  /\ NextCopy \in ckpt.left /\ NextCopy \in 1 .. shm.hdr.mx /\ NextCopy \in Frames
           /\ shm.index[NextCopy] = log.frame[NextCopy].page /\ shm.index[NextCopy] \in Pages
           /\ shm.nBackfill < NextCopy /\ NextCopy <= ckpt.upTo
           /\ Latest(log.frame, shm.hdr.mx, shm.index[NextCopy], NextCopy)
  <1>1. shm.valid
    BY HasLock
  <1>2. TypeOK /\ Published /\ CopierOk(h)
    BY <1>1, DataIs
  <1>3. \A f \in ckpt.left : /\ shm.nBackfill < f /\ f <= ckpt.upTo
                             /\ \E p \in Pages : Latest(log.frame, shm.hdr.mx, p, f)
    BY <1>2 DEF CopierOk
  <1>4. ckpt.left \subseteq Frames /\ shm.hdr.mx \in 0 .. MaxFrames
    BY <1>2, CkptIs, ShmIs
  <1>5. NextCopy \in ckpt.left
    <2> DEFINE S == {shm.index[g] : g \in ckpt.left}
    <2>1. S \in SUBSET Nat /\ S # {}
      BY <1>2, <1>4, ShmIs
    <2>2. Least(S) \in S /\ \A y \in S : Least(S) <= y
      BY <2>1, LeastIs
    <2>3. PICK f \in ckpt.left : Least(S) = shm.index[f]
      BY <2>2
    <2>4. \A g \in ckpt.left : shm.index[f] <= shm.index[g]
      BY <2>2, <2>3
    <2> QED
      BY <2>4 DEF NextCopy
  <1> HIDE DEF NextCopy
  <1>6. PICK p \in Pages : Latest(log.frame, shm.hdr.mx, p, NextCopy)
    BY <1>3, <1>5
  <1>7. NextCopy \in 1 .. shm.hdr.mx /\ log.frame[NextCopy].page = p
    BY <1>6 DEF Latest
  <1>8. shm.index[NextCopy] = p
    BY <1>2, <1>4, <1>7 DEF Published
  <1> QED
    BY <1>3, <1>4, <1>5, <1>6, <1>7, <1>8

\* Pages that no reader takes from the database are written.
LEMMA CopyKeeps ==
    ASSUME IInv, DataInv, NEW h \in Handles, pc[h] = "copy", ckpt.left # {}, NEW x \in 0 .. Torn,
           Written(shm.index[NextCopy], x), Others(h), OtherMins(h),
           UNCHANGED <<log, commits, base, kept, txns, shm>>
    PROVE  /\ TypeDb' /\ TypeSafe' /\ FilesOk' /\ Published' /\ DbOk'
           /\ \A g \in Handles \ {h} : ReaderOk(g)'
           /\ \A q \in Pages : db'[q] = IF q = shm.index[NextCopy] THEN x ELSE db[q]
           /\ safe'.frame = safe.frame /\ safe'.at = safe.at
  <1> DEFINE f == NextCopy
             p == shm.index[f]
  <1>1. /\ f \in ckpt.left /\ f \in 1 .. shm.hdr.mx /\ f \in Frames
        /\ p = log.frame[f].page /\ p \in Pages
        /\ shm.nBackfill < f /\ f <= ckpt.upTo
        /\ Latest(log.frame, shm.hdr.mx, p, f)
    BY NextCopyIs
  <1> HIDE DEF f, p
  <1>2. shm.valid /\ ckpt.by = h /\ ~Pending /\ ckpt.upTo <= shm.hdr.mx
    BY CopierAlone DEF IInv, Safe, Backfilling, Copies
  <1>3. TypeOK /\ FilesOk /\ Published /\ DbOk /\ CopierOk(h) /\ TypeDb /\ TypeSafe
    BY <1>2, DataIs, TypeIs DEF TypeParts
  <1>4. /\ shm.hdr.mx \in 0 .. MaxFrames /\ shm.nBackfill \in Nat /\ ckpt.upTo \in Nat
        /\ Torn \in Nat
    BY <1>3, ShmIs, CkptIs DEF Torn
  <1>5. /\ StableCommit(shm.hdr.mx) /\ Holders(0) = {} /\ shm.hdr.mx \in Frames
        /\ shm.nBackfill < ckpt.upTo
    BY <1>1, <1>3, <1>4 DEF CopierOk, Frames
  <1>6. /\ db' = [db EXCEPT ![p] = x]
        /\ safe' = [safe EXCEPT !.page[p] = @ \cup {x, Torn}]
    BY DEF Written, p, f
  <1>7. /\ TypeDb' /\ \A q \in Pages : db'[q] = IF q = p THEN x ELSE db[q]
    BY <1>1, <1>3, <1>6 DEF TypeDb
  <1>8. /\ safe'.frame = safe.frame /\ safe'.at = safe.at
        /\ safe'.page = [safe.page EXCEPT ![p] = @ \cup {x, Torn}]
        /\ safe' = [safe EXCEPT !.page = safe'.page]
    BY <1>3, <1>6 DEF TypeSafe
  <1>9. /\ safe'.page \in [Pages -> SUBSET (0 .. Torn)]
        /\ \A q \in Pages : safe'.page[q] = IF q = p THEN safe.page[q] \cup {x, Torn} ELSE safe.page[q]
    <2>1. safe.page \in [Pages -> SUBSET (0 .. Torn)]
      BY <1>3 DEF TypeSafe
    <2>2. \A q \in Pages : safe'.page[q] = IF q = p THEN safe.page[q] \cup {x, Torn} ELSE safe.page[q]
      BY <1>8, <2>1
    <2>3. ASSUME NEW q \in Pages PROVE safe'.page[q] \in SUBSET (0 .. Torn)
      <3>1. safe.page[q] \subseteq 0 .. Torn /\ {x, Torn} \subseteq 0 .. Torn
        BY <1>4, <2>1
      <3> QED
        BY <2>2, <3>1
    <2>4. safe'.page = [q \in Pages |-> safe'.page[q]]
      BY <1>8, <2>1
    <2> QED
      BY <2>2, <2>3, <2>4
  <1>10. TypeSafe'
    BY <1>3, <1>8, <1>9 DEF TypeSafe
  <1>11. ~Absent(log.frame, shm.hdr.mx, p)
    BY <1>1 DEF Absent
  <1>12. FilesOk'
    <2>1. \A q \in Pages :
              /\ db'[q] \in safe'.page[q]
              /\ \A y \in safe'.page[q] :
                    y \in safe.page[q]
                    \/ \E j \in Frames : StableCommit(j) /\ ~Absent(log.frame, j, q)
      BY <1>3, <1>5, <1>7, <1>9, <1>11 DEF FilesOk, Paged
    <2>2. \A j \in Frames : /\ log.frame[j] \in safe'.frame[j]
                            /\ safe'.frame[j] \subseteq safe.frame[j]
      BY <1>3, <1>8 DEF FilesOk, Versions
    <2>3. Stable(safe.at)'
      BY <1>3, <1>8 DEF FilesOk, Stable, StableCommit, LogCommit, Has
    <2> QED
      BY <1>3, <2>1, <2>2, <2>3, FilesSettle
  <1>13. Published'
    <2>1. (Pending => Pending') /\ \A j \in Frames : safe'.frame[j] \subseteq safe.frame[j]
      BY <1>2, <1>8
    <2> QED
      BY <1>3, <2>1, PublishedKept
  <1>15. DbOk'
    <2>1. ASSUME NEW q \in Pages,
                 \A j \in 1 .. shm.hdr.mx : log.frame[j].page = q => j <= shm.nBackfill
          PROVE  db'[q] = Content(shm.hdr.at, q)
      <3>1. q # p
        BY <1>1, <1>4, <2>1
      <3> QED
        BY <1>3, <1>7, <2>1, <3>1 DEF DbOk
    <2>2. shm.hdr.mx # 0 /\ shm.nBackfill # shm.hdr.mx
      BY <1>2, <1>4, <1>5
    <2>3. \A q : Content(shm.hdr.at, q)' = Content(shm.hdr.at, q)
      BY DEF Content
    <2> QED
      BY <2>1, <2>2, <2>3 DEF DbOk
  <1>16. ASSUME NEW g \in Handles \ {h} PROVE ReaderOk(g)'
    <2>1. pc'[g] = pc[g] /\ own'[g] = own[g] /\ slot'[g] = slot[g] /\ min'[g] = min[g]
      BY DEF Others, OtherMins
    <2>2. ReaderOk(g) /\ (Reading(g)' <=> Reading(g)) /\ (InLog(g)' <=> InLog(g))
      BY <1>2, <2>1, DataIs DEF InLog, Reading
    <2>3. ASSUME Reading(g) PROVE SnapOk(g)'
      <3>1. slot[g] # 0
        BY <1>5, <2>3 DEF Holders, Reading
      <3>2. slot[g] \in Slots /\ SnapOk(g) /\ own[g].at <= shm.hdr.at
        <4>1. slot[g] \in 0 .. NoSlot /\ slot[g] # NoSlot
          BY <1>3, <2>2, <2>3, ShmIs DEF ReaderOk
        <4> QED
          BY <2>2, <2>3, <3>1, <4>1 DEF ReaderOk
      <3>3. InLog(g)
        BY <2>3, <3>2 DEF InLog
      <3>4. ckpt.upTo <= own[g].mx /\ min[g] <= shm.nBackfill + 1
        BY <2>2, <3>3 DEF IInv, Safe, Protected, Spared, ReaderOk
      <3>5. own[g].mx \in Nat /\ own[g].at \in Nat /\ min[g] \in Nat /\ shm.hdr.at \in Nat
            /\ Len(commits) \in Nat
        BY <1>3, NumbersAre
      <3>6. f \in 1 .. own[g].mx /\ min[g] <= f
        <4>1. f \in Nat /\ 1 <= f
          BY <1>1, <1>4
        <4> QED
          BY <1>1, <1>4, <3>4, <3>5, <4>1
      <3>7. \A q \in Pages :
               db'[q] = db[q] \/ \E j \in 1 .. own[g].mx : min[g] <= j /\ log.frame[j].page = q
        BY <1>1, <1>7, <3>6
      <3>8. own[g].at <= Len(commits)
        BY <1>3, <3>2, <3>5, AtIs
      <3> QED
        BY <1>3, <2>1, <3>1, <3>2, <3>7, <3>8, SnapKept
    <2> QED
      BY <2>1, <2>2, <2>3 DEF ReaderOk
  <1> QED
    BY <1>7, <1>8, <1>10, <1>12, <1>13, <1>15, <1>16 DEF p, f

LEMMA CkptLeft ==
    ASSUME TypeOK, NEW S \in SUBSET Frames, ckpt' = [ckpt EXCEPT !.left = S]
    PROVE  TypeCkpt' /\ ckpt'.by = ckpt.by /\ ckpt'.upTo = ckpt.upTo /\ ckpt'.left = S
  BY TypeIs DEF TypeParts, TypeCkpt

LEMMA CopyPageData == ASSUME IInv, IInv', DataInv, NEW h \in Handles, CopyPage(h) PROVE DataInv'
  <1> DEFINE f == NextCopy
             p == shm.index[f]
             x == log.frame[f].txn
  <1>1. /\ pc[h] = "copy" /\ ckpt.left # {}
        /\ UNCHANGED <<shm, log, pc, own, slot, mark, min, writer, todo, txns, commits, base, kept,
                       crashes>>
    BY DEF CopyPage, handles, history
  <1>2. /\ f \in ckpt.left /\ f \in Frames /\ p \in Pages /\ f \in 1 .. shm.hdr.mx
        /\ p = log.frame[f].page
        /\ Latest(log.frame, shm.hdr.mx, p, f)
    BY <1>1, NextCopyIs
  <1>3. Written(p, x) /\ ckpt' = [ckpt EXCEPT !.left = ckpt.left \ {f}]
    <2>1. p # 0
      BY <1>2 DEF Pages
    <2> QED
      BY <2>1 DEF CopyPage
  <1>4. shm.valid /\ ckpt.by = h /\ ckpt.upTo <= shm.hdr.mx
    BY <1>1, HasLock DEF IInv, Safe, Backfilling, Copies
  <1>5. /\ TypeOK /\ TypeOwn' /\ TypeMark' /\ TypeMin' /\ OtherMins(h) /\ ReaderOk(h)
        /\ CopierOk(h) /\ TypeShm' /\ TypeTxns' /\ TypeParts
    BY <1>1, <1>4, DataIs, SameTyped, TypeIs
  <1>6. x \in 0 .. Torn
    <2>1. log.frame[f] \in Frame
      BY <1>2, <1>5, FrameAt
    <2> QED
      BY <2>1, FrameIs DEF Torn
  <1>7. Others(h)
    BY <1>1 DEF Others
  <1>8. /\ TypeDb' /\ TypeSafe' /\ FilesOk' /\ Published' /\ DbOk'
        /\ \A g \in Handles \ {h} : ReaderOk(g)'
        /\ \A q \in Pages : db'[q] = IF q = p THEN x ELSE db[q]
        /\ safe'.frame = safe.frame
    BY <1>1, <1>3, <1>5, <1>6, <1>7, CopyKeeps
  <1>9. /\ TypeCkpt' /\ ckpt'.by = h /\ ckpt'.upTo = ckpt.upTo /\ ckpt'.left = ckpt.left \ {f}
    <2>1. ckpt.left \ {f} \in SUBSET Frames
      BY <1>5, CkptIs
    <2> QED
      BY <1>3, <1>4, <1>5, <2>1, CkptLeft
  <1> HIDE DEF f
  <1>10. TypeParts'
    <2>1. TypeLog' /\ TypeCommits' /\ TypeCounts'
      BY <1>1, <1>5 DEF TypeParts, TypeLog, TypeCommits, TypeCounts
    <2> QED
      BY <1>5, <1>8, <1>9, <2>1 DEF TypeParts
  <1>11. CopierOk(h)'
    <2>1. \A q : Content(shm.hdr.at, q)' = Content(shm.hdr.at, q)
      BY <1>1 DEF Content
    <2>2. StableCommit(shm.hdr.mx)'
      BY <1>1, <1>5, <1>8 DEF CopierOk, StableCommit, LogCommit
    <2>3. Holders(0)' = {}
      BY <1>1, <1>5 DEF CopierOk, Holders
    <2>4. ASSUME NEW q \in Pages, NEW j \in Frames, Latest(log.frame, shm.hdr.mx, q, j),
                 shm.nBackfill < j, j <= ckpt.upTo, j \notin ckpt.left \ {f}
          PROVE  db'[q] = Content(shm.hdr.at, q)
      <3>1. CASE j = f
        <4>1. q = p
          BY <1>2, <2>4, <3>1 DEF Latest
        <4>2. shm.hdr.mx \in 0 .. MaxFrames /\ shm.hdr.mx > 0
          BY <1>2, <1>5, ShmIs
        <4>3. Holds(log.frame, shm.hdr.mx, shm.hdr.at)
          BY <1>4, <4>2, PublishedHolds
        <4>4. log.frame[f].txn = Content(shm.hdr.at, p)
          BY <1>2, <4>3 DEF Holds
        <4> QED
          BY <1>2, <1>8, <4>1, <4>4
      <3>2. CASE j # f
        <4>1. j \notin ckpt.left
          BY <2>4, <3>2
        <4>2. db[q] = Content(shm.hdr.at, q)
          BY <1>1, <1>5, <2>4, <4>1 DEF CopierOk
        <4>3. q # p
          <5> SUFFICES ASSUME q = p PROVE FALSE
            OBVIOUS
          <5>1. j \in 1 .. shm.hdr.mx /\ f \in 1 .. shm.hdr.mx /\ shm.hdr.mx \in Nat
            BY <1>2, <1>5, <2>4, NumbersAre DEF Latest
          <5>2. j < f \/ f < j
            BY <3>2, <5>1
          <5>3. CASE j < f
            <6>1. f \in j + 1 .. shm.hdr.mx
              BY <5>1, <5>3
            <6> QED
              BY <1>2, <2>4, <6>1 DEF Latest
          <5>4. CASE f < j
            <6>1. j \in f + 1 .. shm.hdr.mx
              BY <5>1, <5>4
            <6> QED
              BY <1>2, <2>4, <6>1 DEF Latest
          <5> QED
            BY <5>2, <5>3, <5>4
        <4> QED
          BY <1>8, <4>2, <4>3
      <3> QED
        BY <3>1, <3>2
    <2>5. /\ shm.nBackfill < ckpt.upTo
          /\ \A j \in ckpt.left \ {f} : /\ shm.nBackfill < j /\ j <= ckpt.upTo
                                        /\ \E q \in Pages : Latest(log.frame, shm.hdr.mx, q, j)
      BY <1>1, <1>5 DEF CopierOk
    <2> QED
      BY <1>1, <1>9, <2>1, <2>2, <2>3, <2>4, <2>5 DEF CopierOk
  <1>12. /\ pc[h] \in Copies /\ pc'[h] \in Copies /\ shm'.valid /\ writer' = writer
         /\ own'[h].at <= shm'.hdr.at /\ ckpt'.by \in {h, Nobody}
    BY <1>1, <1>4, <1>5, <1>9 DEF Copies, ReaderOk
  <1> QED
    BY <1>4, <1>7, <1>8, <1>9, <1>10, <1>11, <1>12, CopyMoves

\* A checkpoint ends.
LEMMA EndsData ==
    ASSUME IInv, IInv', DataInv, NEW h \in Handles, pc[h] \in Copies, EndCheckpoint(h),
           UNCHANGED <<shm, log, todo, txns, history>>,
           TypeDb', TypeSafe', FilesOk', Published', DbOk',
           \A g \in Handles \ {h} : ReaderOk(g)'
    PROVE  DataInv'
  <1>1. /\ Leave(h) /\ ckpt' = NoCkpt /\ writer' \in {writer, Nobody}
    BY DEF EndCheckpoint
  <1>2. ckpt.by = h /\ shm.valid /\ TypeOK /\ TypeParts
    BY HasLock, DataIs, TypeIs DEF IInv, Safe, Backfilling
  <1>3. Others(h) /\ pc'[h] = "idle"
    BY <1>1, LeaveMoves
  <1>4. TypeOwn' /\ TypeMark' /\ TypeMin' /\ own'[h].at = 0
    BY <1>1, <1>2, LeaveTyped
  <1>5. ckpt'.by = Nobody /\ ckpt'.next = 0 /\ ckpt'.upTo = 0 /\ ckpt'.left = {}
    BY <1>1 DEF NoCkpt
  <1>6. TypeCkpt'
    BY <1>5, CkptTyped
  <1>7. TypeParts'
    <2>1. UNCHANGED <<commits, base, kept, crashes>>
      BY DEF history
    <2> QED
      BY <1>2, <1>4, <1>6, <2>1 DEF TypeParts, TypeShm, TypeLog, TypeTxns, TypeCommits, TypeCounts
  <1>8. CopierOk(h)'
    BY <1>3 DEF CopierOk
  <1>9. own'[h].at <= shm'.hdr.at
    BY <1>2, <1>4, NumbersAre
  <1> QED
    BY <1>1, <1>2, <1>3, <1>4, <1>5, <1>7, <1>8, <1>9, CopyMoves

\* It ends; the files are as they were.
LEMMA QuietEndData ==
    ASSUME IInv, IInv', DataInv, NEW h \in Handles, pc[h] \in Copies, EndCheckpoint(h),
           UNCHANGED <<shm, files, todo, txns, history>>
    PROVE  DataInv'
  <1>1. shm.valid /\ ckpt.by = h
    BY HasLock DEF IInv, Safe, Backfilling
  <1>2. TypeOK /\ FilesOk /\ Published /\ DbOk
    BY <1>1, DataIs
  <1>3. UNCHANGED <<log, db, safe, commits, base, kept, crashes>>
    BY DEF files, history
  <1>4. TypeDb' /\ TypeSafe'
    BY <1>2, <1>3, TypeIs DEF TypeParts, TypeDb, TypeSafe
  <1>5. FilesOk'
    BY <1>2, <1>3, CountsAre, FilesKept
  <1>6. Published'
    BY <1>1, <1>2, <1>3, CopierAlone, PublishedKept
  <1>7. DbOk'
    BY <1>2, <1>3, AtIs, DbKept
  <1>8. \A g \in Handles \ {h} : ReaderOk(g)'
    <2>1. Others(h) /\ OtherMins(h)
      BY <1>2, LeaveMoves, LeaveTyped DEF EndCheckpoint, OtherMins
    <2> QED
      BY <1>1, <1>3, <2>1, ReadersKept
  <1> QED
    BY <1>3, <1>4, <1>5, <1>6, <1>7, <1>8, EndsData

LEMMA CopyFailsData == ASSUME IInv, IInv', DataInv, NEW h \in Handles, CopyFails(h) PROVE DataInv'
  <1>1. /\ pc[h] = "copy" /\ EndCheckpoint(h) /\ UNCHANGED <<shm, log, todo, txns, history>>
        /\ pc[h] \in Copies
    BY DEF CopyFails, Copies
  <1>2. CASE UNCHANGED <<db, safe>>
    BY <1>1, <1>2, QuietEndData DEF files
  <1>3. CASE ckpt.left # {} /\ Written(shm.index[NextCopy], Torn)
    <2>1. Others(h) /\ OtherMins(h)
      BY <1>1, DataIs, LeaveMoves, LeaveTyped DEF EndCheckpoint, OtherMins
    <2>2. Torn \in 0 .. Torn
      BY DEF Torn
    <2>3. UNCHANGED <<log, commits, base, kept, txns, shm>>
      BY <1>1 DEF history
    <2>4. /\ TypeDb' /\ TypeSafe' /\ FilesOk' /\ Published' /\ DbOk'
          /\ \A g \in Handles \ {h} : ReaderOk(g)'
      BY <1>1, <1>3, <2>1, <2>2, <2>3, CopyKeeps
    <2> QED
      BY <1>1, <2>4, EndsData
  <1> QED
    BY <1>2, <1>3 DEF CopyFails

LEMMA EndCopyData == ASSUME IInv, IInv', DataInv, NEW h \in Handles, EndCopy(h) PROVE DataInv'
  <1>1. /\ pc[h] = "copy" /\ ckpt.left = {} /\ Goto(h, "drain")
        /\ shm' = [shm EXCEPT !.nBackfill = ckpt.upTo]
        /\ UNCHANGED <<log, db, own, slot, mark, min, writer, todo, ckpt, txns, commits, base, kept,
                       crashes>>
    BY DEF EndCopy, history
  <1>2. "drain" \in Places /\ "drain" \in Copies /\ "copy" \in Copies
    BY DEF Places, Copies
  <1>3. Others(h) /\ pc'[h] = "drain"
    BY <1>1, <1>2, GoesOn
  <1>4. shm.valid /\ ckpt.by = h /\ ckpt.upTo <= shm.hdr.mx /\ ~Pending
    BY <1>1, <1>2, CopierAlone DEF IInv, Safe, Backfilling
  <1>5. /\ TypeOK /\ FilesOk /\ Published /\ DbOk /\ CopierOk(h) /\ ReaderOk(h) /\ TypeParts
        /\ TypeOwn' /\ TypeMark' /\ TypeMin' /\ OtherMins(h) /\ TypeCkpt' /\ TypeTxns'
    BY <1>1, <1>4, DataIs, TypeIs, SameTyped
  <1>6. ckpt.upTo \in 0 .. MaxFrames /\ shm.hdr.mx \in Nat /\ shm.nBackfill \in Nat
    BY <1>5, CkptIs, NumbersAre
  <1>7. /\ TypeShm' /\ shm'.hdr = shm.hdr /\ shm'.index = shm.index /\ shm'.valid = shm.valid
        /\ shm'.nBackfill = ckpt.upTo
    BY <1>1, <1>5, <1>6 DEF TypeParts, TypeShm
  <1>8. /\ safe'.frame = safe.frame /\ safe'.at = safe.at
        /\ IF ckpt.upTo = shm.hdr.mx THEN safe'.page = [p \in Pages |-> {db[p]}]
           ELSE safe'.page = safe.page
        /\ safe' = [frame |-> safe'.frame, page |-> safe'.page, at |-> safe'.at]
    <2>1. PICK fr, pa, at : safe = [frame |-> fr, page |-> pa, at |-> at]
      BY <1>5, SafeIs
    <2>2. CASE ckpt.upTo = shm.hdr.mx
      <3>1. safe' = [safe EXCEPT !.page = [p \in Pages |-> {db[p]}]]
        BY <2>2 DEF EndCopy
      <3>2. PICK pages : pages = [p \in Pages |-> {db[p]}]
        OBVIOUS
      <3> QED
        BY <2>1, <2>2, <3>1, <3>2
    <2>3. CASE ckpt.upTo # shm.hdr.mx
      <3>1. safe' = safe
        BY <2>3 DEF EndCopy
      <3> QED
        BY <2>1, <2>3, <3>1
    <2> QED
      BY <2>2, <2>3
  <1>9. /\ TypeSafe' /\ \A p \in Pages : db[p] \in safe'.page[p] /\ safe'.page[p] \subseteq safe.page[p]
    <2>1. \A p \in Pages : db[p] \in safe.page[p] /\ db[p] \in 0 .. Torn
      BY <1>5 DEF FilesOk, Paged, TypeParts, TypeDb
    <2>2. safe'.page \in [Pages -> SUBSET (0 .. Torn)]
      BY <1>5, <1>8, <2>1 DEF TypeParts, TypeSafe
    <2>3. safe.frame \in [Frames -> SUBSET Frame] /\ safe.at \in 0 .. MaxTxns
      BY <1>5 DEF TypeParts, TypeSafe
    <2> QED
      BY <1>8, <2>1, <2>2, <2>3 DEF TypeSafe
  <1>10. FilesOk'
    <2>1. Stable(safe.at)'
      BY <1>1, <1>5, <1>8 DEF FilesOk, Stable, StableCommit, LogCommit, Has
    <2>2. \A f \in Frames : /\ log.frame[f] \in safe'.frame[f]
                            /\ safe'.frame[f] \subseteq safe.frame[f]
      BY <1>5, <1>8 DEF FilesOk, Versions
    <2> QED
      BY <1>1, <1>5, <1>9, <2>1, <2>2, FilesSettle
  <1>11. Published'
    BY <1>1, <1>4, <1>5, <1>7, <1>8, PublishedKept
  <1>12. \A p \in Pages :
            (\A f \in 1 .. shm.hdr.mx : log.frame[f].page = p => f <= ckpt.upTo)
                => db[p] = Content(shm.hdr.at, p)
    <2> SUFFICES ASSUME NEW p \in Pages,
                        \A f \in 1 .. shm.hdr.mx : log.frame[f].page = p => f <= ckpt.upTo
                 PROVE  db[p] = Content(shm.hdr.at, p)
      OBVIOUS
    <2>1. CASE \A f \in 1 .. shm.hdr.mx : log.frame[f].page = p => f <= shm.nBackfill
      BY <1>5, <2>1 DEF DbOk
    <2>2. ASSUME NEW j \in 1 .. shm.hdr.mx, log.frame[j].page = p, ~(j <= shm.nBackfill)
          PROVE  db[p] = Content(shm.hdr.at, p)
      <3>1. ~Absent(log.frame, shm.hdr.mx, p)
        BY <2>2 DEF Absent
      <3>2. PICK f \in 1 .. shm.hdr.mx : Latest(log.frame, shm.hdr.mx, p, f)
        BY <1>6, <3>1, LatestExists
      <3>3. j <= f
        <4> SUFFICES ASSUME f < j PROVE FALSE
          BY <1>6
        <4>1. j \in f + 1 .. shm.hdr.mx
          BY <1>6
        <4> QED
          BY <2>2, <3>2, <4>1 DEF Latest
      <3>4. shm.nBackfill < f /\ f <= ckpt.upTo /\ f \in Frames
        <4>1. f <= ckpt.upTo
          BY <3>2 DEF Latest
        <4> QED
          BY <1>6, <2>2, <3>3, <4>1 DEF Frames
      <3> QED
        BY <1>1, <1>5, <3>2, <3>4 DEF CopierOk
    <2> QED
      BY <2>1, <2>2
  <1>13. DbOk'
    <2>1. \A p : Content(shm.hdr.at, p)' = Content(shm.hdr.at, p)
      BY <1>1, <1>7 DEF Content
    <2>2. \A p \in Pages :
            (\A f \in 1 .. shm'.hdr.mx : log'.frame[f].page = p => f <= shm'.nBackfill)
                => db'[p] = Content(shm.hdr.at, p)'
      BY <1>1, <1>7, <1>12, <2>1
    <2>3. shm.nBackfill < ckpt.upTo
      BY <1>1, <1>5 DEF CopierOk
    <2>4. ASSUME shm'.hdr.mx = 0 \/ shm'.nBackfill = shm'.hdr.mx, NEW p \in Pages
          PROVE  safe'.page[p] = {Content(shm.hdr.at, p)'}
      <3>1. ckpt.upTo = shm.hdr.mx
        BY <1>4, <1>6, <1>7, <2>3, <2>4
      <3>2. safe'.page[p] = {db[p]}
        BY <1>8, <3>1
      <3>3. db[p] = Content(shm.hdr.at, p)
        BY <1>6, <1>12, <3>1
      <3> QED
        BY <2>1, <3>2, <3>3
    <2> QED
      BY <2>2, <2>4 DEF DbOk
  <1>14. ASSUME NEW g \in Handles \ {h} PROVE ReaderOk(g)'
    <2>1. /\ pc'[g] = pc[g] /\ own'[g] = own[g] /\ slot'[g] = slot[g] /\ min'[g] = min[g]
      BY <1>3, <1>5 DEF Others, OtherMins
    <2>2. ReaderOk(g) /\ (Reading(g)' <=> Reading(g)) /\ (InLog(g)' <=> InLog(g))
      BY <1>4, <2>1, DataIs DEF InLog, Reading
    <2>3. slot[g] = 0 => pc[g] = "lock"
      BY <1>1, <1>5 DEF CopierOk, Holders
    <2>4. shm.nBackfill < ckpt.upTo /\ min[g] \in Nat
      BY <1>1, <1>5, NumbersAre DEF CopierOk
    <2>5. min[g] <= shm.nBackfill + 1 => min[g] <= shm'.nBackfill + 1
      BY <1>6, <1>7, <2>4
    <2>6. SnapOk(g) => SnapOk(g)'
      <3>1. \A p : Content(own[g].at, p)' = Content(own[g].at, p)
        BY <1>1, <2>1 DEF Content
      <3>2. own[g].mx \in Nat
        BY <1>5, NumbersAre
      <3> QED
        BY <1>1, <2>1, <3>1 DEF SnapOk
    <2> QED
      BY <1>7, <2>1, <2>2, <2>3, <2>5, <2>6 DEF ReaderOk
  <1>15. CopierOk(h)'
    BY <1>3 DEF CopierOk
  <1>16. TypeParts'
    <2>1. TypeLog' /\ TypeDb' /\ TypeCommits' /\ TypeCounts'
      BY <1>1, <1>5 DEF TypeParts, TypeLog, TypeDb, TypeCommits, TypeCounts
    <2> QED
      BY <1>5, <1>7, <1>9, <2>1 DEF TypeParts
  <1>17. /\ pc[h] \in Copies /\ pc'[h] \in Copies /\ shm'.valid /\ writer' = writer /\ ckpt'.by = h
         /\ own'[h].at <= shm'.hdr.at
    BY <1>1, <1>2, <1>3, <1>4, <1>5, <1>7 DEF ReaderOk
  <1> QED
    BY <1>3, <1>4, <1>10, <1>11, <1>13, <1>14, <1>15, <1>16, <1>17, CopyMoves

(***************************************************************************)
(* The log is begun anew.                                                  *)
(***************************************************************************)

\* No commit mark has a fresh salt.
LEMMA FreshDead == ASSUME TypeOK, Versions PROVE Dead(Fresh)
  <1> SUFFICES ASSUME NEW k \in Frames, NEW g, Outcome(g, k, Fresh) PROVE FALSE
    BY DEF Dead
  <1>1. PICK s : s = Fresh
    OBVIOUS
  <1>2. k \in 1 .. k
    BY DEF Frames
  <1>3. g[k] \in safe.frame[k] /\ g[k].salt = Fresh
    BY <1>1, <1>2, OutcomeIs
  <1> QED
    BY <1>3, FreshIs

\* Who is not alone with the slots has let go of the log.
LEMMA NewHdrData ==
    ASSUME IInv, IInv', DataInv, NEW h \in Handles, writer = h, pc[h] \in {"restart", "drain"},
           own[h] = shm.hdr, NewHdr(h), MarkedFree(h),
           shm.nBackfill = shm.hdr.mx,
           UNCHANGED <<files, slot, mark, min, writer, todo, ckpt, txns, history>>
    PROVE  DataInv'
  <1>0. PICK hdr : hdr = [own[h] EXCEPT !.mx = 0, !.salt = Fresh]
    OBVIOUS
  <1>1. /\ own' = [own EXCEPT ![h] = hdr] /\ shm' = [shm EXCEPT !.hdr = hdr] /\ Goto(h, "reset")
        /\ UNCHANGED <<log, db, safe, commits, base, kept, crashes>>
    BY <1>0 DEF NewHdr, files, history
  <1>2. shm.valid
    BY HasLock
  <1>3. /\ TypeOK /\ FilesOk /\ Versions /\ Published /\ DbOk /\ WriterOk(h) /\ ReaderOk(h) /\ TypeParts
        /\ TypeMark' /\ TypeMin' /\ OtherMins(h) /\ TypeCkpt' /\ TypeTxns'
    BY <1>1, <1>2, DataIs, TypeIs, SameTyped DEF FilesOk
  <1>4. /\ Fresh \in Nat /\ Fresh # log.salt /\ \A g \in Handles : Fresh # own[g].salt
        /\ \A f \in Frames : \A x \in safe.frame[f] : Fresh # x.salt
    BY <1>3, FreshIs
  <1>5. hdr \in Hdr /\ IsHdr(hdr) /\ hdr.mx = 0 /\ hdr.salt = Fresh /\ hdr.at = shm.hdr.at
    <2>1. own[h] = [mx |-> own[h].mx, salt |-> own[h].salt, at |-> own[h].at]
          /\ own[h].at \in 0 .. MaxTxns
      BY <1>3, ShmIs
    <2>2. PICK a, b, c : own[h] = [mx |-> a, salt |-> b, at |-> c] /\ c = own[h].at
      BY <2>1
    <2>3. PICK s : s = Fresh
      OBVIOUS
    <2>4. hdr = [[mx |-> a, salt |-> b, at |-> c] EXCEPT !.mx = 0, !.salt = s]
      BY <1>0, <2>2, <2>3
    <2>5. hdr = [mx |-> 0, salt |-> s, at |-> c]
      BY <2>4
    <2> QED
      BY <1>4, <2>1, <2>2, <2>3, <2>5 DEF Hdr, IsHdr
  <1>6. "reset" \in Places
    BY DEF Places
  <1>7. Others(h) /\ pc'[h] = "reset" /\ own'[h] = hdr
    <2>1. pc \in [Handles -> Places] /\ own = [g \in Handles |-> own[g]]
      BY DEF IInv, Forms, HandleForms
    <2>2. pc'[h] = "reset" /\ \A g \in Handles \ {h} : pc'[g] = pc[g]
      BY <1>1, <2>1 DEF Goto
    <2>3. own'[h] = hdr /\ \A g \in Handles \ {h} : own'[g] = own[g]
      BY <1>1, <2>1
    <2> QED
      BY <2>2, <2>3 DEF Others
  <1>8. TypeOwn'
    BY <1>1, <1>3, <1>5, OwnTyped
  <1>9. /\ TypeShm' /\ shm'.hdr = hdr /\ shm'.index = shm.index /\ shm'.valid = shm.valid
        /\ shm'.nBackfill = shm.nBackfill
    BY <1>1, <1>3, <1>5 DEF TypeParts, TypeShm
  <1>10. TypeOK'
    <2>1. TypeLog' /\ TypeDb' /\ TypeSafe' /\ TypeCommits' /\ TypeCounts'
      BY <1>1, <1>3 DEF TypeParts, TypeLog, TypeDb, TypeSafe, TypeCommits, TypeCounts
    <2>2. TypeParts'
      BY <1>3, <1>8, <1>9, <2>1 DEF TypeParts
    <2>3. (IInv /\ TypeParts => TypeOK)'
      BY TypeOf, PTL
    <2> QED
      BY <2>2, <2>3
  <1>11. FilesOk'
    BY <1>1, <1>3, CountsAre, FilesKept
  <1>12. Dead(Fresh)
    BY <1>3, FreshDead
  <1>13. Published'
    <2>1. PICK s : s = Fresh
      OBVIOUS
    <2>2. Dead(s)'
      BY <1>1, <1>12, <2>1, DeadKept
    <2>3. Dead(shm.hdr.salt)'
      BY <1>5, <1>9, <2>1, <2>2
    <2>4. Present(Len(commits))'
      BY <1>1, <1>3 DEF Published, Present, LogCommit, Has
    <2>5. Pending => Pending'
      BY <1>7, PendingKept
    <2> QED
      BY <1>1, <1>3, <1>4, <1>5, <1>9, <2>3, <2>4, <2>5 DEF Published
  <1>14. \A p \in Pages : safe.page[p] = {Content(shm.hdr.at, p)} /\ db[p] = Content(shm.hdr.at, p)
    BY <1>3 DEF DbOk, FilesOk, Paged
  <1>15. DbOk'
    <2>0. shm'.hdr.at = shm.hdr.at
      BY <1>5, <1>9
    <2>1. \A c, p : Content(c, p)' = Content(c, p)
      BY <1>1 DEF Content
    <2>2. PICK c : c = shm.hdr.at /\ c = shm'.hdr.at
      BY <2>0
    <2>3. \A p \in Pages : safe'.page[p] = {Content(c, p)'} /\ db'[p] = Content(c, p)'
      BY <1>1, <1>14, <2>1, <2>2
    <2> QED
      BY <2>2, <2>3 DEF DbOk
  <1>16. WriterOk(h)'
    <2>1. ckpt.by # h => Untouched /\ txns > 0 /\ todo.all # {}
      BY <1>3 DEF WriterOk, Appending
    <2>2. Untouched => Untouched'
      BY <1>1 DEF Untouched
    <2> QED
      BY <1>5, <1>7, <1>9, <2>1, <2>2 DEF WriterOk, Appending
  <1>17. ReaderOk(h)'
    BY <1>3, <1>5, <1>7, <1>9, NumbersAre DEF ReaderOk, InLog, Reading
  <1>18. ASSUME NEW g \in Handles \ {h}
         PROVE  WriterOk(g)' /\ CopierOk(g)' /\ ReaderOk(g)' /\ (pc'[g] = "idle" => own'[g].at = 0)
    <2>1. /\ pc'[g] = pc[g] /\ own'[g] = own[g] /\ slot'[g] = slot[g] /\ min'[g] = min[g]
      BY <1>3, <1>7 DEF Others, OtherMins
    <2>2. WriterOk(g)'
      BY NoWriter
    <2>3. pc[g] \notin Copies
      <3>1. CASE ckpt.by = h
        BY <3>1 DEF IInv, Safe, Backfilling
      <3>2. CASE ckpt.by # h
        BY <3>2, NoCopier
      <3> QED
        BY <3>1, <3>2
    <2>4. CopierOk(g)'
      BY <2>1, <2>3 DEF CopierOk, Copies
    <2>5. ReaderOk(g) /\ ~InLog(g)
      BY <1>2, DataIs DEF MarkedFree, Holders, InLog, Reading
    <2>6. shm'.hdr # own'[g]
      BY <1>4, <1>5, <1>9, <2>1
    <2>7. Reading(g) => slot[g] = 0
      <3>1. slot[g] \in 0 .. NoSlot
        BY <1>3, ShmIs
      <3> QED
        BY <2>5, <3>1 DEF InLog, ReaderOk
    <2>8. Reading(g) => SnapOk(g)'
      <3>1. \A p : Content(own[g].at, p)' = Content(own[g].at, p)
        BY <1>1, <2>1 DEF Content
      <3> QED
        BY <1>1, <2>1, <2>5, <2>7, <3>1 DEF SnapOk, ReaderOk
    <2>9. ReaderOk(g)'
      BY <1>5, <1>9, <2>1, <2>5, <2>6, <2>7, <2>8 DEF ReaderOk, InLog, Reading
    <2>10. pc'[g] = "idle" => own'[g].at = 0
      BY <2>1, DataIs DEF Idle
    <2> QED
      BY <2>2, <2>4, <2>9, <2>10
  <1>19. CopierOk(h)'
    BY <1>7 DEF CopierOk
  <1>20. IndexOk'
    BY <1>13, <1>15, <1>16, <1>17, <1>18, <1>19 DEF IndexOk
  <1>21. Idle'
    BY <1>7, <1>18 DEF Idle
  <1> QED
    BY <1>2, <1>9, <1>10, <1>11, <1>20, <1>21 DEF DataInv, Lost

\* A writer that reads only the database, and all of the log is in it.
LEMMA RestartLogData == ASSUME IInv, IInv', DataInv, NEW h \in Handles, RestartLog(h) PROVE DataInv'
  <1>1. CASE ~NewHdr(h)
    BY <1>1, RestartLogGoesData
  <1>2. CASE NewHdr(h)
    <2>1. /\ pc[h] = "restart" /\ UNCHANGED <<files, mark, min, writer, todo, ckpt, txns, history>>
      BY DEF RestartLog
    <2>2. pc \in [Handles -> Places]
      BY DEF IInv, Forms, HandleForms
    <2>3. pc'[h] = "reset"
      BY <1>2, <2>2 DEF NewHdr, Goto
    <2>4. slot[h] = 0 /\ MarkedFree(h) /\ UNCHANGED slot
      <3>1. \A l : Goto(h, l) => l = "reset"
        BY <2>2, <2>3 DEF Goto
      <3>2. FirstWrite(h) # "reset"
        BY DEF FirstWrite
      <3> QED
        BY <3>1, <3>2 DEF RestartLog
    <2>5. shm.valid /\ writer = h /\ own[h] = shm.hdr
      BY <2>1, HasLock DEF IInv, Safe, Writing, Writes, Copies
    <2>6. shm.nBackfill = shm.hdr.mx
      BY <2>1, <2>4, <2>5, DataIs DEF ReaderOk
    <2> QED
      BY <1>2, <2>1, <2>4, <2>5, <2>6, NewHdrData
  <1> QED
    BY <1>1, <1>2

LEMMA DrainData == ASSUME IInv, IInv', DataInv, NEW h \in Handles, Drain(h) PROVE DataInv'
  <1>1. /\ pc[h] = "drain" /\ pc[h] \in Copies /\ UNCHANGED <<files, todo, txns, history>>
    BY DEF Drain, Copies
  <1>2. CASE EndCheckpoint(h) /\ UNCHANGED shm
    BY <1>1, <1>2, QuietEndData
  <1>3. CASE /\ shm.nBackfill >= own[h].mx /\ ckpt.mode = "TRUNCATE" /\ MarkedFree(h)
             /\ NewHdr(h) /\ UNCHANGED <<slot, mark, min, ckpt, writer>>
    <2>1. shm.valid /\ ckpt.by = h /\ writer = h /\ own[h] = shm.hdr
      BY <1>1, <1>3, HasLock DEF IInv, Safe, Backfilling
    <2>2. ~Restarting
      <3> SUFFICES ASSUME NEW g \in Handles, pc[g] = "reset" PROVE FALSE
        BY DEF Restarting
      <3>1. writer = g
        BY DEF IInv, Safe, Writing
      <3> QED
        BY <1>1, <2>1, <3>1
    <2>3. shm.nBackfill <= shm.hdr.mx
      BY <2>2 DEF IInv, Safe, BackfillsHdr
    <2>4. shm.nBackfill \in Nat /\ shm.hdr.mx \in Nat
      BY DataIs, NumbersAre
    <2>5. shm.nBackfill = shm.hdr.mx
      BY <1>3, <2>1, <2>3, <2>4
    <2> QED
      BY <1>1, <1>3, <2>1, <2>5, NewHdrData
  <1> QED
    BY <1>2, <1>3 DEF Drain

LEMMA MarksResetIs ==
    ASSUME TypeOK, MarksReset
    PROVE  /\ TypeShm' /\ shm'.hdr = shm.hdr /\ shm'.nBackfill = 0
           /\ shm'.index = shm.index /\ shm'.valid = shm.valid
  <1> DEFINE m == [i \in Slots |-> IF i = 1 THEN 0 ELSE NotUsed]
  <1>1. m \in [Slots -> 0 .. NotUsed]
    BY DEF NotUsed
  <1>2. TypeShm /\ shm' = [shm EXCEPT !.nBackfill = 0, !.mark = m]
    BY TypeIs DEF TypeParts, MarksReset
  <1> HIDE DEF m
  <1>3. shm = [valid |-> shm.valid, hdr |-> shm.hdr, index |-> shm.index,
               nBackfill |-> shm.nBackfill, mark |-> shm.mark]
    BY <1>2 DEF TypeShm
  <1>4. shm' = [valid |-> shm.valid, hdr |-> shm.hdr, index |-> shm.index, nBackfill |-> 0,
                mark |-> m]
    BY <1>2, <1>3
  <1>5. shm.valid \in BOOLEAN /\ shm.hdr \in Hdr /\ shm.index \in [Frames -> 0 .. NPages]
        /\ 0 \in 0 .. MaxFrames
    BY <1>2 DEF TypeShm
  <1> QED
    BY <1>1, <1>4, <1>5 DEF TypeShm

\* Nobody reads the log whose marks are reset.
LEMMA ResetReaders ==
    ASSUME IInv, DataInv, NEW h \in Handles, pc[h] = "reset", MarksReset, Others(h), OtherMins(h),
           UNCHANGED <<db, commits>>
    PROVE  /\ \A g \in Handles \ {h} : ReaderOk(g)'
           /\ shm.hdr.mx = 0 /\ writer = h /\ shm.valid /\ shm.hdr.at = Len(commits)
           /\ \A g \in Handles \ {h} : pc[g] \notin Copies
           /\ \A p \in Pages : safe.page[p] = {Content(Len(commits), p)}
                               /\ db[p] = Content(Len(commits), p)
  <1>1. shm.valid /\ writer = h
    BY HasLock DEF IInv, Safe, Writing
  <1>2. /\ TypeOK /\ FilesOk /\ Published /\ DbOk /\ WriterOk(h)
    BY <1>1, DataIs
  <1>3. shm.hdr.mx = 0
    BY <1>2 DEF WriterOk
  <1>4. shm'.hdr = shm.hdr /\ shm'.nBackfill = 0
    BY <1>2, MarksResetIs
  <1>5. ~Pending
    BY <1>1 DEF Pending, IInv, Safe, Writing, Writes
  <1>6. shm.hdr.at = Len(commits)
    BY <1>2, <1>5, AtIs
  <1>7. \A g \in Handles \ {h} : pc[g] \notin Copies
    <2>1. CASE ckpt.by = h
      BY <2>1 DEF IInv, Safe, Backfilling
    <2>2. CASE ckpt.by # h
      BY <1>1, <2>2, NoCopier
    <2> QED
      BY <2>1, <2>2
  <1>8. \A p \in Pages : /\ safe.page[p] = {Content(Len(commits), p)}
                         /\ db[p] = Content(Len(commits), p)
    BY <1>2, <1>3, <1>6 DEF DbOk, FilesOk, Paged
  <1>9. ASSUME NEW g \in Handles \ {h} PROVE ReaderOk(g)'
    <2>1. /\ pc'[g] = pc[g] /\ own'[g] = own[g] /\ slot'[g] = slot[g] /\ min'[g] = min[g]
      BY DEF Others, OtherMins
    <2>2. ReaderOk(g) /\ slot[g] \in 0 .. NoSlot
      BY <1>1, <1>2, DataIs, ShmIs
    <2>3. slot[g] \in Slots => pc[g] = "lock"
      BY DEF IInv, Safe, Alone
    <2>4. ~InLog(g) /\ pc[g] # "confirm"
      BY <2>3 DEF InLog, Reading, IInv, Safe, Protected
    <2>5. Reading(g) => slot[g] = 0
      BY <2>2, <2>4 DEF InLog, ReaderOk
    <2>6. Reading(g) => SnapOk(g)'
      <3>1. \A p : Content(own[g].at, p)' = Content(own[g].at, p)
        BY <2>1 DEF Content
      <3> QED
        BY <2>1, <2>2, <2>5, <3>1 DEF SnapOk, ReaderOk
    <2>7. shm.hdr = own[g] => own[g].mx = 0
      BY <1>3
    <2> QED
      BY <1>4, <2>1, <2>2, <2>4, <2>5, <2>6, <2>7 DEF ReaderOk, InLog, Reading
  <1> QED
    BY <1>1, <1>3, <1>6, <1>7, <1>8, <1>9

LEMMA ResetMarksData == ASSUME IInv, IInv', DataInv, NEW h \in Handles, ResetMarks(h) PROVE DataInv'
  <1>1. /\ pc[h] = "reset" /\ ckpt.by # h /\ MarksReset
        /\ slot' = [slot EXCEPT ![h] = NoSlot] /\ Goto(h, "hdr")
        /\ UNCHANGED <<log, db, safe, own, mark, min, writer, todo, ckpt, txns, commits, base, kept,
                       crashes>>
    BY DEF ResetMarks, files, history
  <1>2. "hdr" \in Places /\ NoSlot \in 0 .. NoSlot
    BY DEF Places
  <1>3. Others(h) /\ pc'[h] = "hdr" /\ slot'[h] = NoSlot /\ own'[h] = own[h]
    BY <1>1, <1>2, SlotGoes
  <1>4. OtherMins(h)
    BY <1>1 DEF OtherMins
  <1>5. /\ \A g \in Handles \ {h} : ReaderOk(g)'
        /\ shm.hdr.mx = 0 /\ writer = h /\ shm.valid
        /\ \A g \in Handles \ {h} : pc[g] \notin Copies
    BY <1>1, <1>3, <1>4, ResetReaders
  <1>6. /\ TypeOK /\ FilesOk /\ Published /\ DbOk /\ WriterOk(h) /\ ReaderOk(h) /\ TypeParts /\ Idle
    BY <1>5, DataIs, TypeIs
  <1>7. /\ TypeShm' /\ shm'.hdr = shm.hdr /\ shm'.nBackfill = 0
        /\ shm'.index = shm.index /\ shm'.valid = shm.valid
    BY <1>1, <1>6, MarksResetIs
  <1>8. TypeOK'
    <2>1. TypeLog' /\ TypeDb' /\ TypeSafe' /\ TypeCommits' /\ TypeCounts' /\ TypeOwn' /\ TypeMark'
          /\ TypeMin' /\ TypeCkpt' /\ TypeTxns'
      BY <1>1, <1>6 DEF TypeParts, TypeLog, TypeDb, TypeSafe, TypeCommits, TypeCounts, TypeOwn,
                        TypeMark, TypeMin, TypeCkpt, TypeTxns
    <2>2. TypeParts'
      BY <1>7, <2>1 DEF TypeParts
    <2>3. (IInv /\ TypeParts => TypeOK)'
      BY TypeOf, PTL
    <2> QED
      BY <2>2, <2>3
  <1>9. FilesOk'
    BY <1>1, <1>6, CountsAre, FilesKept
  <1>10. Published'
    <2>1. Pending => Pending'
      BY <1>1, <1>3, PendingKept
    <2> QED
      BY <1>1, <1>6, <1>7, <2>1, PublishedKept
  <1>11. DbOk'
    <2>1. \A p : Content(shm.hdr.at, p)' = Content(shm.hdr.at, p)
      BY <1>1, <1>7 DEF Content
    <2>2. \A p \in Pages : safe.page[p] = {Content(shm.hdr.at, p)} /\ db[p] = Content(shm.hdr.at, p)
      BY <1>5, <1>6 DEF DbOk, FilesOk, Paged
    <2> QED
      BY <1>1, <2>1, <2>2 DEF DbOk
  <1>12. WriterOk(h)'
    BY <1>1, <1>3, <1>6, <1>7, WriterWaits DEF Starts, Appending
  <1>13. ReaderOk(h)'
    BY <1>3, <1>6, <1>7, IdleReader DEF ReaderOk
  <1>14. ASSUME NEW g \in Handles \ {h}
         PROVE  WriterOk(g)' /\ CopierOk(g)' /\ (pc'[g] = "idle" => own'[g].at = 0)
    <2>1. pc'[g] = pc[g] /\ own'[g] = own[g]
      BY <1>3 DEF Others
    <2> QED
      BY <1>1, <1>5, <1>6, <2>1, NoWriter DEF CopierOk, Copies, Idle
  <1>15. CopierOk(h)'
    BY <1>3 DEF CopierOk
  <1>16. IndexOk'
    BY <1>5, <1>10, <1>11, <1>12, <1>13, <1>14, <1>15 DEF IndexOk
  <1>17. Idle'
    BY <1>3, <1>14 DEF Idle
  <1> QED
    BY <1>5, <1>7, <1>8, <1>9, <1>16, <1>17 DEF DataInv, Lost

\* The log is empty, and all is in the database.
LEMMA EmptyFiles ==
    ASSUME TypeOK, FilesOk, \A f \in Frames : log'.frame[f] = NoFrame /\ safe'.frame[f] = {NoFrame},
           UNCHANGED <<db, commits, safe.page, safe.at, txns>>, base' = Len(commits),
           \A p \in Pages : db[p] = Content(Len(commits), p)
                            /\ safe.page[p] = {Content(Len(commits), p)}
    PROVE  /\ FilesOk' /\ \A salt : Dead(salt)'
  <1>0. txns \in Nat /\ Len(commits) \in Nat /\ base \in Nat /\ safe.at \in Nat
    BY CountsAre, FilesAre
  <1>1. ASSUME NEW k \in Frames, NEW g, NEW salt PROVE ~Outcome(g, k, salt)'
    <2> SUFFICES ASSUME Outcome(g, k, salt)' PROVE FALSE
      OBVIOUS
    <2>1. k \in 1 .. k /\ k \in Frames
      BY DEF Frames
    <2>2. g[k] = NoFrame /\ g[k].page # 0
      BY <2>1 DEF Outcome, Choice, Chained
    <2> QED
      BY <2>2, NoFrameIs
  <1>2. \A salt : Dead(salt)'
    BY <1>1 DEF Dead
  <1>3. Genuine'
    <2>1. PICK s : s = log'.salt
      OBVIOUS
    <2>2. \A k \in Frames : \A g : ~Outcome(g, k, s)'
      BY <1>1
    <2>3. \A k \in Frames : \A g : ~Outcome(g, k, log.salt)'
      BY <2>1, <2>2
    <2> QED
      BY <2>3 DEF Genuine
  <1>4. Versions'
    <2>1. \A f \in Frames \ {1} : f - 1 \in Frames
      BY DEF Frames
    <2>2. IsFiniteSet({NoFrame})
      BY FS_Singleton
    <2>3. \A f \in Frames : log'.frame[f] \in safe'.frame[f] /\ IsFiniteSet(safe'.frame[f])
      BY <2>2
    <2>4. \A f \in Frames : \A x \in safe'.frame[f] : x.prev <= x.txn /\ x.txn <= txns'
      BY <1>0, NoFrameIs
    <2>5. \A f \in Frames \ {1} : \A x \in safe'.frame[f], y \in safe'.frame[f - 1] :
              x.txn = y.txn => ~y.commit
      BY <2>1, NoFrameIs
    <2> QED
      BY <2>3, <2>4, <2>5 DEF Versions
  <1>5. Committed'
    BY <1>0 DEF FilesOk, Committed
  <1>6. Paged'
    <2>1. \A c, p : Content(c, p)' = Content(c, p)
      BY DEF Content
    <2>2. PICK n : n = Len(commits) /\ n = base'
      OBVIOUS
    <2>3. \A p \in Pages : safe'.page[p] = {Content(n, p)'} /\ db'[p] = Content(n, p)'
      BY <2>1, <2>2
    <2>4. \A p \in Pages : safe'.page[p] = {Content(base, p)'} /\ db'[p] = Content(base, p)'
      BY <2>2, <2>3
    <2> QED
      BY <2>4 DEF Paged
  <1>7. Stable(safe.at)'
    <2>1. safe.at <= Len(commits)
      <3>1. base <= Len(commits)
        BY DEF FilesOk, Committed
      <3>2. CASE safe.at <= base
        BY <1>0, <3>1, <3>2
      <3>3. CASE \E f \in Frames : Has(f, safe.at)
        BY <1>0, <3>3 DEF Has
      <3> QED
        BY <3>2, <3>3 DEF FilesOk, Stable
    <2> QED
      BY <2>1 DEF Stable
  <1> QED
    BY <1>2, <1>3, <1>4, <1>5, <1>6, <1>7 DEF FilesOk

LEMMA TruncateData == ASSUME IInv, IInv', DataInv, NEW h \in Handles, Truncate(h) PROVE DataInv'
  <1> DEFINE none == [f \in Frames |-> NoFrame]
             nones == [f \in Frames |-> {NoFrame}]
  <1>1. /\ pc[h] = "reset" /\ ckpt.by = h /\ MarksReset
        /\ log' = [salt |-> 0, frame |-> none] /\ safe' = [safe EXCEPT !.frame = nones]
        /\ base' = Len(commits) /\ EndCheckpoint(h)
        /\ UNCHANGED <<db, todo, txns, commits, kept, crashes>>
    BY DEF Truncate
  <1>2. none \in [Frames -> Frame] /\ nones \in [Frames -> SUBSET Frame]
        /\ \A f \in Frames : none[f] = NoFrame /\ nones[f] = {NoFrame}
    BY NoFrameIs
  <1> HIDE DEF none, nones
  <1>3. Leave(h) /\ ckpt' = NoCkpt /\ writer' = IF writer = h THEN Nobody ELSE writer
    BY <1>1 DEF EndCheckpoint
  <1>4. Others(h) /\ pc'[h] = "idle" /\ slot'[h] = NoSlot
    BY <1>3, LeaveMoves
  <1>5. TypeOK /\ TypeParts /\ TypeOwn' /\ TypeMark' /\ TypeMin' /\ own'[h].at = 0 /\ OtherMins(h)
    BY <1>3, DataIs, TypeIs, LeaveTyped DEF OtherMins
  <1>6. /\ \A g \in Handles \ {h} : ReaderOk(g)'
        /\ shm.hdr.mx = 0 /\ writer = h /\ shm.valid /\ shm.hdr.at = Len(commits)
        /\ \A g \in Handles \ {h} : pc[g] \notin Copies
        /\ \A p \in Pages : safe.page[p] = {Content(Len(commits), p)}
                            /\ db[p] = Content(Len(commits), p)
    BY <1>1, <1>4, <1>5, ResetReaders
  <1>7. FilesOk /\ Published /\ Idle /\ Len(commits) \in 0 .. MaxTxns
    BY <1>6, DataIs, ShmIs
  <1>8. /\ TypeShm' /\ shm'.hdr = shm.hdr /\ shm'.nBackfill = 0
        /\ shm'.index = shm.index /\ shm'.valid = shm.valid
    BY <1>1, <1>5, MarksResetIs
  <1>9. /\ TypeSafe' /\ TypeLog' /\ UNCHANGED <<safe.page, safe.at>> /\ log'.salt = 0
        /\ \A f \in Frames : log'.frame[f] = NoFrame /\ safe'.frame[f] = {NoFrame}
    BY <1>1, <1>2, <1>5 DEF TypeParts, TypeSafe, TypeLog
  <1>10. TypeOK'
    <2>1. ckpt'.by = Nobody /\ ckpt'.next = 0 /\ ckpt'.upTo = 0 /\ ckpt'.left = {}
      BY <1>3 DEF NoCkpt
    <2>2. TypeCkpt'
      BY <2>1, CkptTyped
    <2>3. TypeDb' /\ TypeTxns' /\ TypeCommits' /\ TypeCounts'
      BY <1>1, <1>5, <1>7 DEF TypeParts, TypeDb, TypeTxns, TypeCommits, TypeCounts
    <2>4. TypeParts'
      BY <1>5, <1>8, <1>9, <2>2, <2>3 DEF TypeParts
    <2>5. (IInv /\ TypeParts => TypeOK)'
      BY TypeOf, PTL
    <2> QED
      BY <2>4, <2>5
  <1>11. FilesOk' /\ \A salt : Dead(salt)'
    BY <1>1, <1>5, <1>6, <1>7, <1>9, EmptyFiles
  <1>12. Published'
    <2>1. PICK s : s = shm'.hdr.salt
      OBVIOUS
    <2>2. Dead(s)'
      BY <1>11
    <2>3. Dead(shm.hdr.salt)'
      BY <2>1, <2>2
    <2>4. Len(commits) \in Nat
      BY <1>5, CountsAre
    <2>5. Present(Len(commits))'
      BY <1>1, <2>4 DEF Present
    <2> QED
      BY <1>1, <1>6, <1>7, <1>8, <2>3, <2>5 DEF Published
  <1>13. DbOk'
    <2>1. \A c, p : Content(c, p)' = Content(c, p)
      BY <1>1 DEF Content
    <2>2. PICK c : c = Len(commits) /\ c = shm'.hdr.at
      BY <1>6, <1>8
    <2>3. \A p \in Pages : safe'.page[p] = {Content(c, p)'} /\ db'[p] = Content(c, p)'
      BY <1>1, <1>6, <1>9, <2>1, <2>2
    <2> QED
      BY <2>2, <2>3 DEF DbOk
  <1>14. \A g \in Handles : WriterOk(g)'
    BY <1>3, <1>6, NoWriter
  <1>15. \A g \in Handles : CopierOk(g)'
    BY <1>4, <1>6 DEF CopierOk, Copies, Others
  <1>16. ReaderOk(h)'
    <2>1. shm.hdr.at \in Nat
      BY <1>5, NumbersAre
    <2> QED
      BY <1>4, <1>5, <1>8, <2>1, IdleReader
  <1>17. IndexOk'
    BY <1>6, <1>12, <1>13, <1>14, <1>15, <1>16 DEF IndexOk
  <1>18. Idle'
    BY <1>4, <1>5, <1>7 DEF Idle, Others
  <1> QED
    BY <1>6, <1>8, <1>10, <1>11, <1>17, <1>18 DEF DataInv, Lost

\* No commit mark has the salt of a log that is not begun yet.
LEMMA EmptyDead ==
    ASSUME DataInv, shm.valid, shm.hdr.mx = 0, shm.hdr.at = Len(commits)
    PROVE  Dead(shm.hdr.salt)
  <1>1. TypeOK /\ Genuine /\ Published
    BY DataIs DEF FilesOk
  <1>2. CASE shm.hdr.salt # log.salt
    BY <1>1, <1>2 DEF Published
  <1>3. CASE shm.hdr.salt = log.salt
    <2>1. base = Len(commits) /\ Len(commits) \in Nat
      BY <1>1, <1>3, CountsAre DEF Published
    <2>2. base + 1 .. Len(commits) = {}
      BY <2>1
    <2>3. \A k \in Frames : \A g \in [1 .. k -> AllFrames] :
             Outcome(g, k, log.salt) => g[k].commit = FALSE
      <3> SUFFICES ASSUME NEW k \in Frames, NEW g \in [1 .. k -> AllFrames],
                          Outcome(g, k, log.salt)
                   PROVE  g[k].commit = FALSE
        OBVIOUS
      <3>1. k \in 1 .. k
        BY DEF Frames
      <3>2. PICK s : s = log.salt
        OBVIOUS
      <3>3. g[k] \in Frame
        BY <1>1, <3>1, <3>2, OutcomeIs
      <3>4. ~g[k].commit
        BY <1>1, <2>2 DEF Genuine
      <3> QED
        BY <3>3, <3>4, FrameIs
    <2>4. PICK s : s = log.salt /\ s = shm.hdr.salt
      BY <1>3
    <2>5. Dead(s)
      BY <2>3, <2>4 DEF Dead
    <2> QED
      BY <2>4, <2>5
  <1> QED
    BY <1>2, <1>3

LEMMA BeginLogData == ASSUME IInv, IInv', DataInv, NEW h \in Handles, BeginLog(h) PROVE DataInv'
  <1>1. /\ pc[h] = "begin" /\ safe' = SyncedLog /\ base' = Len(commits) /\ Goto(h, "frames")
        /\ UNCHANGED <<shm, db, slot, mark, min, writer, todo, ckpt, txns, commits, kept, crashes>>
    BY DEF BeginLog
  <1>2. PICK salt \in {own[h].salt, Fresh} \ {0} :
           /\ log' = [log EXCEPT !.salt = salt]
           /\ own' = [own EXCEPT ![h].salt = salt]
    BY DEF BeginLog
  <1>3. /\ shm.valid /\ writer = h /\ ckpt.by # h /\ own[h] = shm.hdr /\ own[h].mx = 0
    BY <1>1, HasLock DEF IInv, Safe, Writing, Writes, Copies, Starts
  <1>4. /\ TypeOK /\ TypeParts /\ FilesOk /\ Versions /\ Committed /\ Published /\ DbOk /\ WriterOk(h)
        /\ ReaderOk(h) /\ Idle /\ TypeOwn
    BY <1>3, DataIs, TypeIs DEF FilesOk, TypeParts
  <1>5. ~Pending
    BY <1>1, <1>3 DEF Pending, IInv, Safe, Writing, Writes
  <1>6. shm.hdr.at = Len(commits) /\ Len(commits) \in 0 .. MaxTxns /\ Len(commits) \in Nat
    BY <1>4, <1>5, AtIs, ShmIs
  <1>7. salt \in Nat /\ Dead(salt) /\ Dead(shm.hdr.salt)
    <2>1. Dead(shm.hdr.salt)
      BY <1>3, <1>6, EmptyDead
    <2>2. PICK s, t : s = shm.hdr.salt /\ t = Fresh
      OBVIOUS
    <2>3. Dead(s) /\ Dead(t)
      BY <1>4, <2>1, <2>2, FreshDead
    <2>4. s \in Nat /\ t \in Nat /\ own[h].salt = s
      BY <1>3, <1>4, <2>2, ShmIs, FreshIs
    <2>5. salt = s \/ salt = t
      BY <2>2, <2>4
    <2> QED
      BY <2>1, <2>3, <2>4, <2>5
  <1>8. /\ UNCHANGED log.frame /\ log'.salt = salt /\ TypeLog'
    BY <1>2, <1>4, <1>7 DEF TypeParts, TypeLog
  <1>9. PICK x : x = [own[h] EXCEPT !.salt = salt] /\ own' = [own EXCEPT ![h] = x]
    BY <1>2
  <1>10. x \in Hdr /\ IsHdr(x) /\ x.mx = 0 /\ x.salt = salt /\ x.at = shm.hdr.at
    <2>1. own[h] = [mx |-> own[h].mx, salt |-> own[h].salt, at |-> own[h].at]
          /\ own[h].at \in 0 .. MaxTxns
      BY <1>3, <1>4, ShmIs
    <2>2. PICK a, b, c : own[h] = [mx |-> a, salt |-> b, at |-> c] /\ c = own[h].at /\ a = 0
      BY <1>3, <2>1
    <2>3. x = [mx |-> 0, salt |-> salt, at |-> c]
      BY <1>9, <2>2
    <2> QED
      BY <1>3, <1>7, <2>1, <2>2, <2>3 DEF Hdr, IsHdr
  <1>11. Others(h) /\ pc'[h] = "frames" /\ own'[h] = x
    <2>1. pc \in [Handles -> Places] /\ own = [g \in Handles |-> own[g]]
      BY DEF IInv, Forms, HandleForms
    <2>2. pc'[h] = "frames" /\ \A g \in Handles \ {h} : pc'[g] = pc[g]
      BY <1>1, <2>1 DEF Goto
    <2>3. own'[h] = x /\ \A g \in Handles \ {h} : own'[g] = own[g]
      BY <1>9, <2>1
    <2> QED
      BY <1>1, <2>2, <2>3 DEF Others
  <1>12. /\ \A f \in Frames : safe'.frame[f] = {log.frame[f]}
         /\ UNCHANGED safe.page /\ safe'.at = Len(commits)
    BY <1>1, <1>4, SafeIs
  <1>13. TypeOK'
    <2>1. TypeSafe'
      <3> DEFINE synced == [f \in Frames |-> {log.frame[f]}]
      <3>1. synced \in [Frames -> SUBSET Frame]
        BY <1>4, FrameAt
      <3> HIDE DEF synced
      <3>2. safe' = [frame |-> synced, page |-> safe.page, at |-> Len(commits)]
        BY <1>1, <1>4, SafeIs DEF synced
      <3>3. safe.page \in [Pages -> SUBSET (0 .. Torn)]
        BY <1>4, FilesAre
      <3> QED
        BY <1>6, <3>1, <3>2, <3>3 DEF TypeSafe
    <2>2. TypeOwn' /\ TypeMark' /\ TypeMin' /\ TypeShm' /\ TypeCkpt' /\ TypeTxns'
      BY <1>1, <1>4, <1>9, <1>10, OwnTyped, SameTyped
    <2>3. TypeDb' /\ TypeCommits' /\ TypeCounts'
      BY <1>1, <1>4, <1>6 DEF TypeParts, TypeDb, TypeCommits, TypeCounts
    <2>4. TypeParts'
      BY <1>8, <2>1, <2>2, <2>3 DEF TypeParts
    <2>5. (IInv /\ TypeParts => TypeOK)'
      BY TypeOf, PTL
    <2> QED
      BY <2>4, <2>5
  <1>14. Dead(salt)' /\ Dead(shm.hdr.salt)'
    <2>1. \A f \in Frames : \A y \in safe'.frame[f] : y \in safe.frame[f] \cup {NoFrame}
      BY <1>4, <1>12 DEF Versions
    <2>2. \A s : Dead(s) => Dead(s)'
      BY <2>1, DeadKept
    <2>3. PICK s : s = shm.hdr.salt
      OBVIOUS
    <2>4. Dead(s)'
      BY <1>7, <2>2, <2>3
    <2> QED
      BY <1>1, <1>7, <2>2, <2>3, <2>4
  <1>15. \A p \in Pages : safe.page[p] = {Content(Len(commits), p)} /\ db[p] = Content(Len(commits), p)
    BY <1>3, <1>4, <1>6 DEF DbOk, FilesOk, Paged
  <1>16. FilesOk'
    <2>1. \A f \in Frames : log'.frame[f] \in safe'.frame[f] /\ IsFiniteSet(safe'.frame[f])
      <3> SUFFICES ASSUME NEW f \in Frames
                   PROVE  log'.frame[f] \in safe'.frame[f] /\ IsFiniteSet(safe'.frame[f])
        OBVIOUS
      <3>1. PICK y : y = log.frame[f]
        OBVIOUS
      <3>2. IsFiniteSet({y})
        BY FS_Singleton
      <3>3. safe'.frame[f] = {y} /\ log'.frame[f] = y
        BY <1>8, <1>12, <3>1
      <3> QED
        BY <3>2, <3>3
    <2>2. \A f \in Frames : safe'.frame[f] \subseteq safe.frame[f]
      BY <1>4, <1>12 DEF Versions
    <2>3. \A f \in Frames : \A y \in safe'.frame[f] : y.prev <= y.txn /\ y.txn <= txns'
      BY <1>1, <1>4, <2>2 DEF Versions
    <2>4. \A f \in Frames : \A y, z \in safe'.frame[f] : y.txn = z.txn => y = z
      BY <1>4, <2>2 DEF Versions
    <2>5. \A f \in Frames \ {1} : \A y \in safe'.frame[f], z \in safe'.frame[f - 1] :
              y.txn = z.txn => ~z.commit
      <3>1. \A f \in Frames \ {1} : f - 1 \in Frames
        BY DEF Frames
      <3> QED
        BY <1>4, <2>2, <3>1 DEF Versions
    <2>6. Versions'
      BY <2>1, <2>3, <2>4, <2>5 DEF Versions
    <2>7. Committed'
      BY <1>1, <1>4, <1>6 DEF Committed
    <2>8. Genuine'
      <3>1. PICK s : s = log'.salt
        OBVIOUS
      <3>2. Dead(s)'
        BY <1>8, <1>14, <3>1
      <3>3. Dead(log.salt)'
        BY <3>1, <3>2
      <3> QED
        BY <3>3 DEF Genuine, Dead
    <2>9. Paged'
      <3>1. \A c, p : Content(c, p)' = Content(c, p)
        BY <1>1 DEF Content
      <3>2. PICK n : n = Len(commits) /\ n = base'
        BY <1>1
      <3>3. \A p \in Pages : safe'.page[p] = {Content(n, p)'} /\ db'[p] = Content(n, p)'
        BY <1>1, <1>12, <1>15, <3>1, <3>2
      <3>4. \A p \in Pages : safe'.page[p] = {Content(base, p)'} /\ db'[p] = Content(base, p)'
        BY <3>2, <3>3
      <3> QED
        BY <3>4 DEF Paged
    <2>10. Stable(safe.at)'
      BY <1>1, <1>6, <1>12 DEF Stable
    <2> QED
      BY <2>6, <2>7, <2>8, <2>9, <2>10 DEF FilesOk
  <1>17. Published'
    <2>1. Present(Len(commits))'
      BY <1>1, <1>6 DEF Present
    <2>2. shm.hdr.mx = 0 /\ UNCHANGED shm
      BY <1>1, <1>3
    <2> QED
      BY <1>1, <1>4, <1>6, <1>8, <1>14, <2>1, <2>2 DEF Published
  <1>18. DbOk'
    BY <1>1, <1>4, <1>6, <1>8, <1>12, DbKept
  <1>19. WriterOk(h)'
    <2>1. Untouched /\ own[h].at = shm.hdr.at /\ txns > 0 /\ todo.all # {} /\ slot[h] \in Slots
      BY <1>1, <1>3, <1>4 DEF WriterOk, Appending
    <2>2. NextFrame(h) = 1 /\ todo.left = todo.all
      BY <1>3, <1>4, <2>1, NextFrameAt DEF Untouched
    <2>3. NextFrame(h)' = 1
      BY <1>1, <1>3, <1>10, <1>11, <2>2 DEF NextFrame
    <2>4. \A i \in 1 .. shm.hdr.at : commits[i].txn < txns
      BY <1>6, <2>1 DEF Untouched
    <2>5. \A f \in Frames : \A y \in safe'.frame[f] : y.txn < txns
      BY <1>4, <1>12, <2>1 DEF Untouched, Versions
    <2>6. Appended(h, 1, 0)'
      <3>1. 0 <= MaxFrames /\ 1 .. 0 = {}
        OBVIOUS
      <3> QED
        BY <1>1, <2>2, <2>5, <3>1 DEF Appended
    <2>7. Appended(h, own[h].mx + 1, NextFrame(h) - 1)'
      <3>1. own'[h].mx + 1 = 1 /\ NextFrame(h)' - 1 = 0
        BY <1>10, <1>11, <2>3
      <3> QED
        BY <2>6, <3>1
    <2> QED
      BY <1>1, <1>6, <1>8, <1>10, <1>11, <2>1, <2>2, <2>4, <2>7 DEF WriterOk, Appending
  <1>20. ReaderOk(h)'
    <2>1. own'[h].mx = own[h].mx /\ own'[h].at = own[h].at
      BY <1>3, <1>10, <1>11
    <2>2. Reading(h) /\ InLog(h) /\ (Reading(h)' <=> Reading(h)) /\ (InLog(h)' <=> InLog(h))
      BY <1>1, <1>3, <1>4, <1>11 DEF Reading, InLog, WriterOk
    <2>3. own[h].at <= Len(commits) /\ SnapOk(h)
      BY <1>3, <1>4, <1>6, <2>2 DEF ReaderOk
    <2>4. SnapOk(h)'
      BY <1>1, <1>4, <1>8, <2>1, <2>3, SnapKept
    <2> QED
      BY <1>1, <1>4, <1>11, <2>1, <2>2, <2>4 DEF ReaderOk
  <1>21. ASSUME NEW g \in Handles \ {h}
         PROVE  WriterOk(g)' /\ CopierOk(g)' /\ ReaderOk(g)' /\ (pc'[g] = "idle" => own'[g].at = 0)
    <2>1. /\ pc'[g] = pc[g] /\ own'[g] = own[g] /\ slot'[g] = slot[g] /\ min'[g] = min[g]
      BY <1>1, <1>11 DEF Others
    <2>2. ReaderOk(g)'
      BY <1>1, <1>3, <1>8, <2>1, DataIs, ReaderKept
    <2>3. WriterOk(g)'
      BY <1>1, <1>3, NoWriter
    <2>4. CopierOk(g)'
      BY <1>3, <2>1, NoCopier DEF CopierOk, Copies
    <2> QED
      BY <1>4, <2>1, <2>2, <2>3, <2>4 DEF Idle
  <1>22. CopierOk(h)'
    BY <1>11 DEF CopierOk
  <1>23. IndexOk'
    BY <1>17, <1>18, <1>19, <1>20, <1>21, <1>22 DEF IndexOk
  <1>24. Idle'
    BY <1>11, <1>21 DEF Idle
  <1> QED
    BY <1>1, <1>3, <1>13, <1>16, <1>23, <1>24 DEF DataInv, Lost

(***************************************************************************)
(* Frames are appended, behind what is published.                          *)
(***************************************************************************)

\* No commit mark is behind what is published.
LEMMA CommitsBelow ==
    ASSUME DataInv, shm.valid, shm.hdr.at = Len(commits), shm.hdr.mx = 0 => base = Len(commits),
           NEW f \in Frames, LogCommit(f)
    PROVE  f <= shm.hdr.mx /\ shm.hdr.mx > 0
  <1>1. TypeOK /\ Versions /\ Committed /\ Genuine /\ Published
    BY DataIs DEF FilesOk
  <1>2. base < Len(commits) /\ base \in Nat /\ Len(commits) \in Nat
    BY <1>1, LogEnds, CountsAre
  <1>3. shm.hdr.mx \in 0 .. MaxFrames
    BY <1>1, ShmIs
  <1>4. shm.hdr.mx > 0 /\ shm.hdr.mx \in Frames
    BY <1>2, <1>3 DEF Frames
  <1>5. LogCommit(shm.hdr.mx) /\ commits[Len(commits)].txn = log.frame[shm.hdr.mx].txn
    BY <1>1, <1>4 DEF Published
  <1> QED
    BY <1>1, <1>4, <1>5, LogEnds

\* The files change only there.
ChangesAbove ==
    /\ \A f \in 1 .. shm.hdr.mx : log'.frame[f] = log.frame[f] /\ safe'.frame[f] = safe.frame[f]
    /\ log'.salt = log.salt
    /\ UNCHANGED <<base, db, safe.page, safe.at, shm, kept>>
    /\ Len(commits') \in Nat /\ Len(commits) <= Len(commits')
    /\ \A i \in 1 .. Len(commits) : commits'[i] = commits[i]

LEMMA AboveKept ==
    ASSUME DataInv, shm.valid, shm.hdr.at = Len(commits), shm.hdr.mx = 0 => base = Len(commits),
           ChangesAbove
    PROVE  /\ \A f \in Frames : LogCommit(f) => LogCommit(f)'
           /\ \A c \in 0 .. Len(commits) : \A p : Content(c, p)' = Content(c, p)
           /\ \A n \in Nat : Present(n) => Present(n)'
           /\ Paged' /\ Stable(safe.at)' /\ DbOk'
           /\ shm.hdr.mx > 0 => /\ LogCommit(shm.hdr.mx)'
                                /\ \A f \in 1 .. shm.hdr.mx : shm'.index[f] = log'.frame[f].page
                                /\ commits'[shm.hdr.at].txn = log'.frame[shm.hdr.mx].txn
  <1>1. TypeOK /\ Versions /\ Committed /\ Genuine /\ Published /\ DbOk /\ Paged /\ Stable(safe.at)
    BY DataIs DEF FilesOk
  <1>2. base \in Nat /\ Len(commits) \in Nat /\ shm.hdr.mx \in 0 .. MaxFrames /\ safe.at \in Nat
        /\ base <= Len(commits)
    BY <1>1, CountsAre, ShmIs, FilesAre DEF Committed
  <1>3. ASSUME NEW f \in Frames, LogCommit(f)
        PROVE  /\ \A i \in 1 .. f : log'.frame[i] = log.frame[i] /\ safe'.frame[i] = safe.frame[i]
               /\ log'.frame[f] = log.frame[f]
               /\ LogCommit(f)'
    <2>1. f <= shm.hdr.mx /\ f \in Nat /\ f \in 1 .. f
      BY <1>3, CommitsBelow DEF Frames
    <2>2. \A i \in 1 .. f : log'.frame[i] = log.frame[i] /\ safe'.frame[i] = safe.frame[i]
      BY <1>2, <2>1 DEF ChangesAbove
    <2>3. \A s : Chained(log'.frame, f, s) <=> Chained(log.frame, f, s)
      BY <2>1, <2>2, ChainSame
    <2>4. Chained(log'.frame, f, log'.salt)
      BY <1>3, <2>3 DEF LogCommit, ChangesAbove
    <2> QED
      BY <1>3, <2>1, <2>2, <2>4 DEF LogCommit
  <1>4. \A f \in Frames : StableCommit(f) => StableCommit(f)'
    <2> SUFFICES ASSUME NEW f \in Frames, StableCommit(f) PROVE StableCommit(f)'
      OBVIOUS
    <2>1. LogCommit(f)
      BY DEF StableCommit
    <2> QED
      BY <1>3, <2>1 DEF StableCommit
  <1>5. ASSUME NEW n \in Nat, n > base, NEW f \in Frames, LogCommit(f), Has(f, n) PROVE Has(f, n)'
    <2>1. PICK m \in n .. Len(commits) : commits[m].txn = log.frame[f].txn
      BY <1>5 DEF Has
    <2>2. m \in 1 .. Len(commits) /\ m \in n .. Len(commits')
      BY <1>2, <1>5, <2>1 DEF ChangesAbove
    <2>3. commits'[m].txn = log'.frame[f].txn
      BY <1>3, <1>5, <2>1, <2>2 DEF ChangesAbove
    <2> QED
      BY <2>2, <2>3 DEF Has
  <1>6. \A n \in Nat : Present(n) => Present(n)'
    <2> SUFFICES ASSUME NEW n \in Nat, Present(n) PROVE Present(n)'
      OBVIOUS
    <2>1. CASE n <= base
      BY <2>1 DEF Present, ChangesAbove
    <2>2. CASE ~(n <= base)
      <3>1. PICK f \in Frames : LogCommit(f) /\ Has(f, n)
        BY <2>2 DEF Present
      <3>2. n > base
        BY <1>2, <2>2
      <3>3. LogCommit(f)' /\ Has(f, n)'
        BY <1>3, <1>5, <3>1, <3>2
      <3> QED
        BY <3>3 DEF Present
    <2> QED
      BY <2>1, <2>2
  <1>7. \A c \in 0 .. Len(commits) : \A p : Content(c, p)' = Content(c, p)
    <2> SUFFICES ASSUME NEW c \in 0 .. Len(commits), NEW p PROVE Content(c, p)' = Content(c, p)
      OBVIOUS
    <2>1. c \in Nat /\ \A i \in 1 .. c : commits'[i] = commits[i]
      BY <1>2 DEF ChangesAbove
    <2> QED
      BY <2>1, ContentKept
  <1>8. Paged'
    <2>1. PICK b : b = base /\ b = base'
      BY DEF ChangesAbove
    <2>2. \A p : Content(b, p)' = Content(b, p)
      BY <1>2, <1>7, <2>1
    <2>3. ASSUME NEW p \in Pages, NEW f \in Frames, StableCommit(f), ~Absent(log.frame, f, p)
          PROVE  StableCommit(f)' /\ ~Absent(log'.frame, f, p)
      <3>1. LogCommit(f) /\ f \in Nat
        BY <2>3 DEF StableCommit, Frames
      <3>2. \A q : Absent(log'.frame, f, q) <=> Absent(log.frame, f, q)
        BY <1>3, <3>1, ChainSame
      <3> QED
        BY <1>4, <2>3, <3>2
    <2>4. \A p \in Pages : /\ db[p] \in safe.page[p]
                           /\ \A x \in safe.page[p] :
                                 \/ x = Content(b, p)
                                 \/ \E f \in Frames : StableCommit(f) /\ ~Absent(log.frame, f, p)
      BY <1>1, <2>1 DEF Paged
    <2>5. \A p \in Pages : /\ db'[p] \in safe'.page[p]
                           /\ \A x \in safe'.page[p] :
                                 \/ x = Content(b, p)'
                                 \/ \E f \in Frames : StableCommit(f)' /\ ~Absent(log'.frame, f, p)
      BY <2>2, <2>3, <2>4 DEF ChangesAbove
    <2> QED
      BY <2>1, <2>5 DEF Paged
  <1>9. Stable(safe.at)'
    <2>1. PICK n : n = safe.at /\ n = safe'.at
      BY DEF ChangesAbove
    <2>2. n \in Nat
      BY <1>2, <2>1
    <2>3. Stable(n)'
      <3>1. CASE n <= base
        BY <3>1 DEF Stable, ChangesAbove
      <3>2. CASE ~(n <= base)
        <4>1. PICK f \in Frames : StableCommit(f) /\ Has(f, n)
          BY <1>1, <2>1, <3>2 DEF Stable
        <4>2. n > base /\ LogCommit(f)
          BY <1>2, <2>2, <3>2, <4>1 DEF StableCommit
        <4>3. StableCommit(f)' /\ Has(f, n)'
          BY <1>4, <1>5, <2>2, <4>1, <4>2
        <4> QED
          BY <4>3 DEF Stable
      <3> QED
        BY <3>1, <3>2
    <2> QED
      BY <2>1, <2>3 DEF Stable
  <1>10. DbOk'
    BY <1>1, DbKept DEF ChangesAbove
  <1>11. ASSUME shm.hdr.mx > 0
         PROVE  /\ LogCommit(shm.hdr.mx)'
                /\ \A f \in 1 .. shm.hdr.mx : shm'.index[f] = log'.frame[f].page
                /\ commits'[shm.hdr.at].txn = log'.frame[shm.hdr.mx].txn
    <2>1. PICK k : k = shm.hdr.mx /\ k = shm'.hdr.mx
      BY DEF ChangesAbove
    <2>2. k \in Frames /\ LogCommit(k) /\ k \in 1 .. k
      BY <1>1, <1>2, <1>11, <2>1 DEF Published, Frames
    <2>3. LogCommit(k)'
      BY <1>3, <2>2
    <2>4. shm.hdr.at \in 1 .. Len(commits)
      BY <1>1, <1>11, AtIs
    <2> QED
      BY <1>1, <1>11, <2>1, <2>2, <2>3, <2>4 DEF Published, ChangesAbove, LogCommit
  <1> QED
    BY <1>3, <1>6, <1>7, <1>8, <1>9, <1>10, <1>11

\* The others read as before.
LEMMA AboveReads ==
    ASSUME IInv, DataInv, shm.valid, shm.hdr.at = Len(commits), ChangesAbove, NEW h \in Handles,
           pc'[h] = pc[h], own'[h] = own[h], slot'[h] = slot[h], min'[h] = min[h],
           own[h].mx <= shm.hdr.mx \/ slot[h] = 0 \/ ~Reading(h)
    PROVE  ReaderOk(h)'
  <1>1. TypeOK /\ ReaderOk(h) /\ Len(commits) \in Nat /\ own[h].at \in Nat
    BY DataIs, NumbersAre
  <1>2. own[h].mx \in Nat /\ shm.hdr.mx \in Nat
    BY <1>1, NumbersAre
  <1>3. Reading(h) => SnapOk(h)'
    <2> SUFFICES ASSUME Reading(h) PROVE SnapOk(h)'
      OBVIOUS
    <2>1. SnapOk(h) /\ own[h].at <= Len(commits)
      BY <1>1 DEF ReaderOk
    <2>2. slot[h] = 0 \/ \A f \in 1 .. own[h].mx : log.frame'[f] = log.frame[f]
      BY <1>2 DEF ChangesAbove
    <2>3. \A i \in 1 .. own[h].at : commits'[i] = commits[i]
      BY <1>1, <2>1 DEF ChangesAbove
    <2>4. UNCHANGED db
      BY DEF ChangesAbove
    <2> QED
      BY <1>1, <2>1, <2>2, <2>3, <2>4, SnapKept
  <1>4. (Reading(h)' <=> Reading(h)) /\ (InLog(h)' <=> InLog(h)) /\ UNCHANGED shm
    BY DEF InLog, Reading, ChangesAbove
  <1> QED
    BY <1>1, <1>3, <1>4 DEF ReaderOk

\* The writer that appends.
LEMMA FramesIs ==
    ASSUME IInv, DataInv, NEW h \in Handles, pc[h] = "frames"
    PROVE  /\ shm.valid /\ writer = h /\ ckpt.by # h /\ slot[h] \in Slots
           /\ own[h].mx = shm.hdr.mx /\ own[h].at = shm.hdr.at /\ shm.hdr.at = Len(commits)
           /\ own[h].salt = log.salt /\ txns > 0 /\ todo.left # {} /\ todo.all # {}
           /\ shm.hdr.mx = 0 => base = Len(commits)
           /\ \A i \in 1 .. Len(commits) : commits[i].txn < txns
           /\ Appended(h, shm.hdr.mx + 1, NextFrame(h) - 1)
           /\ \A g \in Handles \ {h} :
                 /\ pc[g] \notin Copies /\ writer # g
                 /\ own[g].mx <= shm.hdr.mx \/ slot[g] = 0 \/ ~Reading(g)
  <1>1. shm.valid /\ writer = h /\ ckpt.by # h /\ own[h].mx = shm.hdr.mx
    BY HasLock DEF IInv, Safe, Writing, Writes, Copies
  <1>2. TypeOK /\ WriterOk(h) /\ Published
    BY <1>1, DataIs
  <1>3. ~Pending
    BY <1>1 DEF Pending, IInv, Safe, Writing, Writes
  <1>4. shm.hdr.at = Len(commits)
    BY <1>2, <1>3, AtIs
  <1>5. Appending(h)
    BY DEF Appending
  <1>6. \A g \in Handles \ {h} : pc[g] \notin Copies /\ writer # g
    BY <1>1, NoCopier
  <1>7. ASSUME NEW g \in Handles \ {h}, Reading(g), slot[g] # 0 PROVE own[g].mx <= shm.hdr.mx
    <2>1. slot[g] \in Slots
      <3>1. slot[g] # NoSlot /\ slot[g] \in 0 .. NoSlot
        BY <1>1, <1>2, <1>7, DataIs, ShmIs DEF ReaderOk
      <3> QED
        BY <1>7, <3>1
    <2> QED
      BY <1>7, <2>1 DEF IInv, Safe, Protected, InLog
  <1> QED
    BY <1>1, <1>2, <1>4, <1>5, <1>6, <1>7 DEF WriterOk

\* It appends x as the frame f, of page p, the last if last.
Appends(h, f, p, x, last) ==
    /\ f = NextFrame(h) /\ f \in Frames /\ f > shm.hdr.mx
    /\ p \in todo.left /\ last \in BOOLEAN /\ (last <=> todo.left = {p})
    /\ x \in Frame /\ x.page = p /\ x.txn = txns /\ x.salt = log.salt /\ x.commit = last
    /\ x.prev = IF f = 1 THEN 0 ELSE log.frame[f - 1].txn
    /\ TypeLog' /\ log'.frame[f] = x /\ (\A i \in Frames \ {f} : log'.frame[i] = log.frame[i])
    /\ log'.salt = log.salt
    /\ TypeSafe' /\ safe'.frame[f] = safe.frame[f] \cup {x}
    /\ (\A i \in Frames \ {f} : safe'.frame[i] = safe.frame[i])
    /\ UNCHANGED <<safe.page, safe.at, todo.all>>
    /\ todo'.left = todo.left \ {p}
    /\ TypeCommits' /\ (\A i \in 1 .. Len(commits) : commits'[i] = commits[i])
    /\ IF last THEN /\ Len(commits') = Len(commits) + 1
                    /\ commits'[Len(commits) + 1] = [txn |-> txns, pages |-> todo.all]
       ELSE UNCHANGED commits
    /\ pc'[h] = (IF last THEN "index" ELSE "frames") /\ Others(h)
    /\ UNCHANGED <<shm, db, own, slot, mark, min, writer, ckpt, txns, base, kept, crashes>>

LEMMA AppendIs ==
    ASSUME IInv, DataInv, NEW h \in Handles, AppendFrame(h)
    PROVE  \E f, p, x, last : Appends(h, f, p, x, last)
  <1>1. PICK f : f = NextFrame(h)
    OBVIOUS
  <1>2. PICK p : p = Least(todo.left)
    OBVIOUS
  <1>3. PICK last \in BOOLEAN : last <=> todo.left = {p}
    OBVIOUS
  <1>4. PICK x : x = [page |-> p, txn |-> txns, salt |-> own[h].salt, commit |-> last,
                      prev |-> IF f = 1 THEN 0 ELSE log.frame[f - 1].txn]
    OBVIOUS
  <1>5. pc[h] = "frames"
    BY DEF AppendFrame
  <1>6. /\ shm.valid /\ own[h].mx = shm.hdr.mx /\ own[h].salt = log.salt /\ txns > 0
        /\ todo.left # {} /\ shm.hdr.at = Len(commits)
    BY <1>5, FramesIs
  <1>7. TypeOK /\ TypeParts /\ FilesOk
    BY DataIs, TypeIs
  <1>8. f \in Nat /\ f > shm.hdr.mx /\ shm.hdr.mx \in Nat /\ todo.left \subseteq todo.all
        /\ todo.all \subseteq Pages
    BY <1>1, <1>6, <1>7, NextFrameAt
  <1>9. f \in Frames
    BY <1>1, <1>8 DEF AppendFrame, Frames
  <1>10. p \in todo.left
    <2>1. todo.left \in SUBSET Nat
      BY <1>8 DEF Pages
    <2> QED
      BY <1>2, <1>6, <2>1, LeastIs
  <1>11. /\ log' = [log EXCEPT !.frame[f] = x] /\ safe' = [safe EXCEPT !.frame[f] = @ \cup {x}]
         /\ todo' = [todo EXCEPT !.left = @ \ {p}]
    BY <1>1, <1>2, <1>3, <1>4 DEF AppendFrame
  <1>12. /\ commits' = IF last THEN Append(commits, [txn |-> txns, pages |-> todo.all]) ELSE commits
         /\ Goto(h, IF last THEN "index" ELSE "frames")
         /\ UNCHANGED <<shm, db, own, slot, mark, min, writer, ckpt, txns, base, kept, crashes>>
    BY <1>1, <1>2, <1>3 DEF AppendFrame
  <1>13. x \in Frame
    <2>1. (IF f = 1 THEN 0 ELSE log.frame[f - 1].txn) \in 0 .. MaxTxns
      <3>1. CASE f = 1
        BY <3>1
      <3>2. CASE f # 1
        <4>1. f - 1 \in Frames
          BY <1>9, <3>2 DEF Frames
        <4>2. log.frame[f - 1] \in Frame
          BY <1>7, <4>1, FrameAt
        <4> QED
          BY <3>2, <4>2, FrameIs
      <3> QED
        BY <3>1, <3>2
    <2>2. txns \in 1 .. MaxTxns /\ p \in Pages /\ own[h].salt \in Nat
      BY <1>6, <1>7, <1>8, <1>10, CountsAre, ShmIs
    <2> QED
      BY <1>4, <2>1, <2>2 DEF Frame
  <1>14. TypeLog' /\ log'.frame[f] = x /\ (\A i \in Frames \ {f} : log'.frame[i] = log.frame[i])
         /\ log'.salt = log.salt
    <2>1. TypeLog
      BY <1>7 DEF TypeParts
    <2> QED
      BY <1>9, <1>11, <1>13, <2>1 DEF TypeLog
  <1>15. /\ TypeSafe' /\ safe'.frame[f] = safe.frame[f] \cup {x}
         /\ (\A i \in Frames \ {f} : safe'.frame[i] = safe.frame[i])
         /\ UNCHANGED <<safe.page, safe.at>>
    <2>1. TypeSafe
      BY <1>7 DEF TypeParts
    <2>2. PICK fr : fr = [safe.frame EXCEPT ![f] = @ \cup {x}]
      OBVIOUS
    <2>3. fr \in [Frames -> SUBSET Frame] /\ fr[f] = safe.frame[f] \cup {x}
          /\ \A i \in Frames \ {f} : fr[i] = safe.frame[i]
      BY <1>9, <1>13, <2>1, <2>2 DEF TypeSafe
    <2>4. safe' = [safe EXCEPT !.frame = fr]
      BY <1>11, <2>1, <2>2 DEF TypeSafe
    <2> QED
      BY <2>1, <2>3, <2>4 DEF TypeSafe
  <1>16. todo'.all = todo.all /\ todo'.left = todo.left \ {p}
    <2>1. todo \in [all : SUBSET Pages, left : SUBSET Pages]
      BY DEF IInv, Forms, SharedForms
    <2> QED
      BY <1>11, <2>1
  <1>17. /\ TypeCommits' /\ (\A i \in 1 .. Len(commits) : commits'[i] = commits[i])
         /\ IF last THEN /\ Len(commits') = Len(commits) + 1
                         /\ commits'[Len(commits) + 1] = [txn |-> txns, pages |-> todo.all]
            ELSE UNCHANGED commits
    <2> DEFINE S == [txn : 1 .. MaxTxns, pages : SUBSET Pages]
    <2>1. commits \in Seq(S)
      BY <1>7 DEF TypeParts, TypeCommits
    <2>2. PICK e : e = [txn |-> txns, pages |-> todo.all]
      OBVIOUS
    <2>3. e \in S
      BY <1>6, <1>7, <1>8, <2>2, CountsAre
    <2>4. commits' = IF last THEN Append(commits, e) ELSE commits
      BY <1>12, <2>2
    <2> HIDE DEF S
    <2>5. commits' \in Seq(S)
      BY <2>1, <2>3, <2>4
    <2>6. (\A i \in 1 .. Len(commits) : commits'[i] = commits[i])
          /\ (last => Len(commits') = Len(commits) + 1 /\ commits'[Len(commits) + 1] = e)
      BY <2>1, <2>3, <2>4
    <2> QED
      BY <2>2, <2>4, <2>5, <2>6 DEF S, TypeCommits
  <1>18. pc'[h] = (IF last THEN "index" ELSE "frames") /\ Others(h)
    <2> DEFINE l == IF last THEN "index" ELSE "frames"
    <2>1. l \in Places
      BY DEF Places
    <2> HIDE DEF l
    <2>2. Goto(h, l)
      BY <1>12 DEF l
    <2>3. pc'[h] = l /\ Others(h)
      BY <1>12, <2>1, <2>2, GoesOn
    <2> QED
      BY <2>3 DEF l
  <1>19. /\ x.page = p /\ x.txn = txns /\ x.salt = log.salt /\ x.commit = last
         /\ x.prev = IF f = 1 THEN 0 ELSE log.frame[f - 1].txn
    BY <1>4, <1>6
  <1> QED
    BY <1>1, <1>3, <1>8, <1>9, <1>10, <1>12, <1>13, <1>14, <1>15, <1>16, <1>17, <1>18, <1>19
    DEF Appends

LEMMA AppendAbove ==
    ASSUME IInv, DataInv, NEW h \in Handles, pc[h] = "frames",
           NEW f, NEW p, NEW x, NEW last, Appends(h, f, p, x, last)
    PROVE  ChangesAbove
  <1>1. TypeOK /\ Len(commits) \in Nat /\ shm.hdr.mx \in 0 .. MaxFrames
    BY DataIs, CountsAre, ShmIs
  <1>2. f \in Frames /\ f > shm.hdr.mx
    BY DEF Appends
  <1>3. \A i \in 1 .. shm.hdr.mx : i \in Frames \ {f}
    BY <1>1, <1>2 DEF Frames
  <1>4. \A i \in 1 .. shm.hdr.mx : log'.frame[i] = log.frame[i] /\ safe'.frame[i] = safe.frame[i]
    BY <1>3 DEF Appends
  <1>5. Len(commits') \in Nat /\ Len(commits) <= Len(commits')
    BY <1>1 DEF Appends
  <1> QED
    BY <1>4, <1>5 DEF Appends, ChangesAbove

LEMMA AppendNext ==
    ASSUME IInv, DataInv, NEW h \in Handles, pc[h] = "frames",
           NEW f, NEW p, NEW x, NEW last, Appends(h, f, p, x, last)
    PROVE  NextFrame(h)' = f + 1
  <1>1. TypeOK
    BY DataIs
  <1>2. todo.left \subseteq todo.all /\ todo.all \subseteq Pages /\ own[h].mx \in Nat
    BY <1>1, NextFrameAt
  <1>3. IsFiniteSet(todo.left) /\ IsFiniteSet(todo.all)
    <2>1. IsFiniteSet(Pages)
      BY FS_Interval DEF Pages
    <2> QED
      BY <1>2, <2>1, FS_Subset
  <1>4. p \in todo.left /\ f = NextFrame(h) /\ own'[h] = own[h] /\ todo'.all = todo.all
        /\ todo'.left = todo.left \ {p}
    BY DEF Appends
  <1>5. Cardinality(todo.left \ {p}) = Cardinality(todo.left) - 1
    BY <1>3, <1>4, FS_RemoveElement
  <1>6. Cardinality(todo.left) \in Nat /\ Cardinality(todo.all) \in Nat
    BY <1>3, FS_CardinalityType
  <1> QED
    BY <1>2, <1>4, <1>5, <1>6 DEF NextFrame

\* The log is chained up to the new frame.
LEMMA AppendChain ==
    ASSUME IInv, DataInv, NEW h \in Handles, pc[h] = "frames",
           NEW f, NEW p, NEW x, NEW last, Appends(h, f, p, x, last)
    PROVE  /\ Chained(log'.frame, f, log.salt)
           /\ \A i \in 1 .. f - 1 : i \in Frames /\ log'.frame[i] = log.frame[i]
                                    /\ safe'.frame[i] = safe.frame[i]
  <1>1. /\ shm.valid /\ Appended(h, shm.hdr.mx + 1, f - 1)
    BY FramesIs DEF Appends
  <1>2. TypeOK /\ Published /\ shm.hdr.mx \in 0 .. MaxFrames
    BY <1>1, DataIs, ShmIs
  <1>3. f \in Frames /\ f > shm.hdr.mx
    BY DEF Appends
  <1>4. \A i \in 1 .. f - 1 : i \in Frames \ {f}
    BY <1>3 DEF Frames
  <1>5. \A i \in 1 .. f - 1 : i \in Frames /\ log'.frame[i] = log.frame[i]
                              /\ safe'.frame[i] = safe.frame[i]
    BY <1>4 DEF Appends
  <1>6. ASSUME NEW j \in 1 .. f
        PROVE  /\ log'.frame[j].page # 0 /\ log'.frame[j].salt = log.salt
               /\ log'.frame[j].prev = IF j = 1 THEN 0 ELSE log'.frame[j - 1].txn
    <2>0. j # 1 => log'.frame[j - 1] = log.frame[j - 1]
      <3>1. j # 1 => j - 1 \in 1 .. f - 1
        BY <1>3 DEF Frames
      <3> QED
        BY <1>5, <3>1
    <2>1. CASE j = f
      <3>1. p \in Pages
        BY <1>2, NextFrameAt DEF Appends
      <3> QED
        BY <2>0, <2>1, <3>1 DEF Appends, Pages
    <2>2. CASE j # f
      <3>0. log'.frame[j] = log.frame[j]
        BY <1>3, <1>5, <2>2 DEF Frames
      <3>1. CASE j <= shm.hdr.mx
        <4>1. j \in 1 .. shm.hdr.mx /\ LogCommit(shm.hdr.mx)
          BY <1>2, <3>1 DEF Published
        <4> QED
          BY <2>0, <3>0, <4>1 DEF LogCommit, Chained
      <3>2. CASE ~(j <= shm.hdr.mx)
        <4>1. j \in shm.hdr.mx + 1 .. f - 1
          BY <1>2, <1>3, <2>2, <3>2 DEF Frames
        <4>2. log.frame[j].page \in todo.all
          BY <1>1, <4>1 DEF Appended
        <4>3. log.frame[j].page # 0
          BY <1>2, <4>2, NextFrameAt DEF Pages
        <4> QED
          BY <1>1, <2>0, <3>0, <4>1, <4>3 DEF Appended
      <3> QED
        BY <3>1, <3>2
    <2> QED
      BY <2>1, <2>2
  <1> QED
    BY <1>5, <1>6 DEF Chained

LEMMA AppendVersions ==
    ASSUME IInv, DataInv, NEW h \in Handles, pc[h] = "frames",
           NEW f, NEW p, NEW x, NEW last, Appends(h, f, p, x, last)
    PROVE  Versions' /\ Committed'
  <1>1. /\ shm.valid /\ Appended(h, shm.hdr.mx + 1, f - 1) /\ txns > 0
        /\ \A i \in 1 .. Len(commits) : commits[i].txn < txns
    BY FramesIs DEF Appends
  <1>2. TypeOK /\ Versions /\ Committed /\ shm.hdr.mx \in 0 .. MaxFrames /\ txns \in Nat
        /\ Len(commits) \in Nat /\ base \in Nat
    BY DataIs, ShmIs, CountsAre DEF FilesOk
  <1>3. /\ f \in Frames /\ f > shm.hdr.mx /\ x \in Frame /\ x.txn = txns
        /\ x.prev = (IF f = 1 THEN 0 ELSE log.frame[f - 1].txn)
        /\ log'.frame[f] = x /\ (\A i \in Frames \ {f} : log'.frame[i] = log.frame[i])
        /\ safe'.frame[f] = safe.frame[f] \cup {x}
        /\ (\A i \in Frames \ {f} : safe'.frame[i] = safe.frame[i])
        /\ txns' = txns /\ base' = base
    BY DEF Appends
  <1>4. \A i \in Frames : i >= f => \A y \in safe.frame[i] : y.txn < txns
    BY <1>1, <1>3 DEF Appended, Frames
  <1>5. \A i \in Frames : \A y \in safe.frame[i] : y.txn \in Nat
    BY <1>2, FrameAt, FrameIs
  <1>6. Versions'
    <2>1. \A i \in Frames : log'.frame[i] \in safe'.frame[i] /\ IsFiniteSet(safe'.frame[i])
      <3> SUFFICES ASSUME NEW i \in Frames
                   PROVE  log'.frame[i] \in safe'.frame[i] /\ IsFiniteSet(safe'.frame[i])
        OBVIOUS
      <3>1. CASE i = f
        <4>1. PICK S : S = safe.frame[f]
          OBVIOUS
        <4>2. IsFiniteSet(S \cup {x})
          BY <1>2, <1>3, <4>1, FS_AddElement DEF Versions
        <4> QED
          BY <1>3, <3>1, <4>1, <4>2
      <3>2. CASE i # f
        BY <1>2, <1>3, <3>2 DEF Versions
      <3> QED
        BY <3>1, <3>2
    <2>2. x.prev <= x.txn
      <3>1. CASE f = 1
        BY <1>2, <1>3, <3>1
      <3>2. CASE f # 1
        <4>1. f - 1 \in Frames
          BY <1>3, <3>2 DEF Frames
        <4> QED
          BY <1>2, <1>3, <3>2, <4>1 DEF Versions
      <3> QED
        BY <3>1, <3>2
    <2>3. \A i \in Frames : \A y \in safe'.frame[i] : y.prev <= y.txn /\ y.txn <= txns'
      <3> SUFFICES ASSUME NEW i \in Frames, NEW y \in safe'.frame[i]
                   PROVE  y.prev <= y.txn /\ y.txn <= txns'
        OBVIOUS
      <3>1. CASE y \in safe.frame[i]
        BY <1>2, <1>3, <3>1 DEF Versions
      <3>2. CASE y \notin safe.frame[i]
        <4>1. y = x
          BY <1>3, <3>2
        <4> QED
          BY <1>2, <1>3, <2>2, <4>1
      <3> QED
        BY <3>1, <3>2
    <2>4. \A i \in Frames : \A y, z \in safe'.frame[i] : y.txn = z.txn => y = z
      <3> SUFFICES ASSUME NEW i \in Frames, NEW y \in safe'.frame[i], NEW z \in safe'.frame[i],
                          y.txn = z.txn
                   PROVE  y = z
        OBVIOUS
      <3>1. CASE y \in safe.frame[i] /\ z \in safe.frame[i]
        BY <1>2, <3>1 DEF Versions
      <3>2. CASE i = f
        <4>1. \A u \in safe.frame[f] : u.txn < txns /\ u.txn \in Nat
          BY <1>3, <1>4, <1>5 DEF Frames
        <4>2. (y \in safe.frame[f] \/ y = x) /\ (z \in safe.frame[f] \/ z = x)
          BY <1>3, <3>2
        <4> QED
          BY <1>2, <1>3, <3>1, <3>2, <4>1, <4>2
      <3> QED
        BY <1>3, <3>1, <3>2
    <2>5. ASSUME NEW i \in Frames \ {1}, NEW y \in safe'.frame[i], NEW z \in safe'.frame[i - 1],
                 y.txn = z.txn
          PROVE  ~z.commit
      <3>0. i - 1 \in Frames /\ i \in Nat /\ i - 1 # i
        BY DEF Frames
      <3>1. CASE i # f /\ i - 1 # f
        BY <1>2, <1>3, <2>5, <3>0, <3>1 DEF Versions
      <3>2. CASE i = f
        <4>1. z \in safe.frame[i - 1]
          BY <1>3, <3>0, <3>2
        <4>2. CASE y \in safe.frame[i]
          BY <1>2, <2>5, <4>1, <4>2 DEF Versions
        <4>3. CASE y \notin safe.frame[i]
          <5>1. y = x /\ z.txn = txns
            BY <1>3, <2>5, <3>2, <4>3
          <5>2. ~(z.txn < txns)
            BY <1>2, <5>1
          <5>3. ~(i - 1 < shm.hdr.mx + 1 \/ i - 1 > f - 1)
            BY <1>1, <3>0, <4>1, <5>2 DEF Appended
          <5>4. i - 1 \in shm.hdr.mx + 1 .. f - 1
            BY <1>2, <1>3, <3>0, <5>3 DEF Frames
          <5>5. log.frame[i - 1].txn = txns /\ (log.frame[i - 1].commit <=> pc[h] # "frames" /\ i - 1 = f - 1)
            BY <1>1, <5>4 DEF Appended
          <5>6. z = log.frame[i - 1]
            BY <1>2, <3>0, <4>1, <5>1, <5>5 DEF Versions
          <5> QED
            BY <5>5, <5>6
        <4> QED
          BY <4>2, <4>3
      <3>3. CASE i - 1 = f
        <4>1. y \in safe.frame[i] /\ y.txn < txns /\ y.txn \in Nat
          BY <1>3, <1>4, <1>5, <3>0, <3>3 DEF Frames
        <4>2. z # x
          BY <1>2, <1>3, <2>5, <4>1
        <4>3. z \in safe.frame[i - 1]
          BY <1>3, <3>3, <4>2
        <4> QED
          BY <1>2, <2>5, <4>1, <4>3 DEF Versions
      <3> QED
        BY <3>1, <3>2, <3>3
    <2> QED
      BY <2>1, <2>3, <2>4, <2>5 DEF Versions
  <1>7. Committed'
    <2>1. CASE ~last
      <3>1. UNCHANGED commits
        BY <2>1 DEF Appends
      <3> QED
        BY <1>2, <1>3, <3>1 DEF Committed
    <2>2. CASE last
      <3>1. /\ Len(commits') = Len(commits) + 1 /\ commits'[Len(commits) + 1].txn = txns
            /\ \A i \in 1 .. Len(commits) : commits'[i] = commits[i]
        BY <2>2 DEF Appends
      <3>2. Len(commits) < txns
        <4>1. CASE Len(commits) = 0
          BY <1>1, <1>2, <4>1
        <4>2. CASE Len(commits) # 0
          <5>1. Len(commits) \in 1 .. Len(commits)
            BY <1>2, <4>2
          <5>2. Len(commits) <= commits[Len(commits)].txn /\ commits[Len(commits)].txn < txns
                /\ commits[Len(commits)].txn \in Nat
            BY <1>1, <1>2, <5>1, CommitAt DEF Committed
          <5> QED
            BY <1>2, <5>2
        <4> QED
          BY <4>1, <4>2
      <3>3. ASSUME NEW i \in 1 .. Len(commits')
            PROVE  /\ i <= commits'[i].txn /\ commits'[i].txn <= txns'
                   /\ \A j \in 1 .. i - 1 : commits'[j].txn < commits'[i].txn
        <4>1. CASE i \in 1 .. Len(commits)
          <5>1. \A j \in 1 .. i - 1 : j \in 1 .. Len(commits)
            BY <1>2, <4>1
          <5> QED
            BY <1>2, <1>3, <3>1, <4>1, <5>1 DEF Committed
        <4>2. CASE i \notin 1 .. Len(commits)
          <5>1. i = Len(commits) + 1
            BY <1>2, <3>1, <4>2
          <5>2. \A j \in 1 .. i - 1 : j \in 1 .. Len(commits)
            BY <1>2, <5>1
          <5> QED
            BY <1>1, <1>2, <1>3, <3>1, <3>2, <5>1, <5>2
        <4> QED
          BY <4>1, <4>2
      <3>4. base' <= Len(commits')
        BY <1>2, <1>3, <3>1 DEF Committed
      <3> QED
        BY <3>3, <3>4 DEF Committed
    <2> QED
      BY <2>1, <2>2
  <1> QED
    BY <1>6, <1>7

LEMMA AppendTyped ==
    ASSUME IInv, IInv', DataInv, NEW h \in Handles, pc[h] = "frames",
           NEW f, NEW p, NEW x, NEW last, Appends(h, f, p, x, last)
    PROVE  TypeOK'
  <1>1. TypeOK /\ TypeParts
    BY DataIs, TypeIs
  <1>2. /\ TypeLog' /\ TypeSafe' /\ TypeCommits'
        /\ UNCHANGED <<shm, db, own, slot, mark, min, writer, ckpt, txns, base, kept, crashes>>
    BY DEF Appends
  <1>3. TypeShm' /\ TypeOwn' /\ TypeMark' /\ TypeMin' /\ TypeCkpt' /\ TypeTxns' /\ TypeDb' /\ TypeCounts'
    BY <1>1, <1>2 DEF TypeParts, TypeShm, TypeOwn, TypeMark, TypeMin, TypeCkpt, TypeTxns, TypeDb, TypeCounts
  <1>4. TypeParts'
    BY <1>2, <1>3 DEF TypeParts
  <1>5. (IInv /\ TypeParts => TypeOK)'
    BY TypeOf, PTL
  <1> QED
    BY <1>4, <1>5

ContentSteps ==
    \A c \in 1 .. Len(commits) : \A r :
        Content(c, r) = IF r \in commits[c].pages THEN commits[c].txn ELSE Content(c - 1, r)

LEMMA ContentStepped == TypeOK => ContentSteps
  BY ContentStep DEF ContentSteps

\* With its last frame the log has the transaction.
LEMMA AppendHolds ==
    ASSUME IInv, IInv', DataInv, NEW h \in Handles, pc[h] = "frames",
           NEW f, NEW p, NEW x, NEW last, Appends(h, f, p, x, last), last,
           NEW g, \A i \in 1 .. f : g[i] = log'.frame[i],
           NEW n \in Nat, n = Len(commits) + 1
    PROVE  Holds(g, f, n)'
  <1>1. /\ shm.valid /\ Appended(h, shm.hdr.mx + 1, f - 1) /\ txns > 0
        /\ shm.hdr.at = Len(commits) /\ (shm.hdr.mx = 0 => base = Len(commits))
    BY FramesIs DEF Appends
  <1>2. TypeOK /\ shm.hdr.mx \in 0 .. MaxFrames /\ txns \in Nat
        /\ Len(commits) \in Nat /\ base \in 0 .. Len(commits)
    BY DataIs, ShmIs, CountsAre DEF FilesOk, Committed
  <1>3. /\ f \in Frames /\ f > shm.hdr.mx /\ x.txn = txns /\ x.page = p
        /\ p \in todo.left /\ todo.left = {p} /\ log'.frame[f] = x
        /\ base' = base
        /\ Len(commits') = n /\ commits'[n] = [txn |-> txns, pages |-> todo.all]
    BY DEF Appends
  <1>4. todo.left \subseteq todo.all
    BY <1>2, NextFrameAt
  <1>5. f \in Nat /\ f \in 1 .. f /\ g[f] = x
    BY <1>3 DEF Frames
  <1>6. \A i \in 1 .. f - 1 : g[i] = log.frame[i]
    <2>1. \A i \in 1 .. f - 1 : i \in 1 .. f
      BY <1>5
    <2> QED
      BY <2>1, AppendChain
  <1>7. \A i \in shm.hdr.mx + 1 .. f : g[i].txn = txns /\ g[i].page \in todo.all
    <2> SUFFICES ASSUME NEW i \in shm.hdr.mx + 1 .. f
                 PROVE  g[i].txn = txns /\ g[i].page \in todo.all
      OBVIOUS
    <2>1. CASE i = f
      BY <1>3, <1>4, <1>5, <2>1
    <2>2. CASE i # f
      <3>1. i \in shm.hdr.mx + 1 .. f - 1 /\ i \in 1 .. f - 1
        BY <1>2, <1>5, <2>2
      <3> QED
        BY <1>1, <1>6, <3>1 DEF Appended
    <2> QED
      BY <2>1, <2>2
  <1>8. ASSUME NEW q \in todo.all PROVE \E i \in shm.hdr.mx + 1 .. f : g[i].page = q
    <2>1. CASE q = p
      BY <1>2, <1>3, <1>5, <2>1
    <2>2. CASE q # p
      <3>1. q \in todo.all \ todo.left
        BY <1>3, <2>2
      <3>2. PICK i \in shm.hdr.mx + 1 .. f - 1 : log.frame[i].page = q
        BY <1>1, <3>1 DEF Appended
      <3>3. i \in 1 .. f - 1 /\ i \in shm.hdr.mx + 1 .. f
        BY <1>2, <1>5, <3>2
      <3> QED
        BY <1>6, <3>2, <3>3
    <2> QED
      BY <2>1, <2>2
  <1>9. ASSUME NEW q
        PROVE  Content(n, q)' = IF q \in todo.all THEN txns ELSE Content(Len(commits), q)
    <2>1. (TypeOK => ContentSteps)'
      BY ContentStepped, PTL
    <2>2. n \in 1 .. Len(commits')
      BY <1>2, <1>3
    <2>3. Content(n, q)' = IF q \in todo.all THEN txns ELSE Content(n - 1, q)'
      <3>1. TypeOK'
        BY AppendTyped
      <3> QED
        BY <1>3, <2>1, <2>2, <3>1 DEF ContentSteps
    <2>4. PICK c : c = Len(commits)
      OBVIOUS
    <2>5. n - 1 = c /\ c \in 0 .. Len(commits)
      BY <1>2, <2>4
    <2>6. Content(c, q)' = Content(c, q)
      BY <1>1, <2>5, AppendAbove, AboveKept
    <2> QED
      BY <2>3, <2>4, <2>5, <2>6
  <1>10. \A q : Content(base, q)' = Content(base, q)
    <2>1. PICK b : b = base /\ b = base'
      BY <1>3
    <2>2. \A q : Content(b, q)' = Content(b, q)
      BY <1>1, <1>2, <2>1, AppendAbove, AboveKept
    <2> QED
      BY <2>1, <2>2
  <1>11. ASSUME shm.hdr.mx > 0 PROVE Holds(log.frame, shm.hdr.mx, Len(commits))
    BY <1>1, <1>11, PublishedHolds
  <1>12. \A i \in 1 .. shm.hdr.mx : g[i] = log.frame[i]
    <2>1. \A i \in 1 .. shm.hdr.mx : i \in 1 .. f - 1
      BY <1>2, <1>3, <1>5
    <2> QED
      BY <1>6, <2>1
  <1>13. ASSUME NEW q \in Pages, NEW i \in Frames, Latest(g, f, q, i)
         PROVE  g[i].txn = Content(n, q)'
    <2>1. i \in 1 .. f /\ g[i].page = q /\ \A j \in i + 1 .. f : g[j].page # q
      BY <1>13 DEF Latest
    <2>2. CASE q \in todo.all
      <3>1. PICK j \in shm.hdr.mx + 1 .. f : g[j].page = q
        BY <1>8, <2>2
      <3>2. i \in shm.hdr.mx + 1 .. f
        BY <1>2, <1>5, <2>1, <3>1
      <3> QED
        BY <1>7, <1>9, <2>2, <3>2
    <2>3. CASE q \notin todo.all
      <3>1. i \notin shm.hdr.mx + 1 .. f
        BY <1>7, <2>1, <2>3
      <3>2. i \in 1 .. shm.hdr.mx /\ shm.hdr.mx > 0
        BY <1>2, <1>5, <2>1, <3>1
      <3>3. \A j \in i + 1 .. shm.hdr.mx : j \in i + 1 .. f /\ j \in 1 .. shm.hdr.mx
        BY <1>2, <1>3, <1>5, <3>2
      <3>4. Latest(log.frame, shm.hdr.mx, q, i)
        BY <1>12, <2>1, <3>2, <3>3 DEF Latest
      <3>5. log.frame[i].txn = Content(Len(commits), q)
        BY <1>11, <3>2, <3>4 DEF Holds
      <3> QED
        BY <1>9, <1>12, <2>3, <3>2, <3>5
    <2> QED
      BY <2>2, <2>3
  <1>14. ASSUME NEW q \in Pages, Absent(g, f, q) PROVE Content(n, q)' = Content(base, q)'
    <2>1. q \notin todo.all
      <3> SUFFICES ASSUME q \in todo.all PROVE FALSE
        OBVIOUS
      <3>1. PICK i \in shm.hdr.mx + 1 .. f : g[i].page = q
        BY <1>8
      <3>2. i \in 1 .. f
        BY <1>2, <1>5
      <3> QED
        BY <1>14, <3>1, <3>2 DEF Absent
    <2>2. Content(Len(commits), q) = Content(base, q)
      <3>1. CASE shm.hdr.mx = 0
        BY <1>1, <3>1
      <3>2. CASE shm.hdr.mx # 0
        <4>1. \A i \in 1 .. shm.hdr.mx : i \in 1 .. f
          BY <1>2, <1>3, <1>5
        <4>2. Absent(log.frame, shm.hdr.mx, q)
          BY <1>12, <1>14, <4>1 DEF Absent
        <4> QED
          BY <1>2, <1>11, <3>2, <4>2 DEF Holds
      <3> QED
        BY <3>1, <3>2
    <2> QED
      BY <1>9, <1>10, <2>1, <2>2
  <1>15. commits'[n].txn = g[f].txn
    BY <1>3, <1>5
  <1> QED
    BY <1>13, <1>14, <1>15 DEF Holds

\* What has been a commit of the log stays one.
LEMMA HoldsKept ==
    ASSUME DataInv, shm.valid, shm.hdr.at = Len(commits), shm.hdr.mx = 0 => base = Len(commits),
           ChangesAbove, NEW k, NEW g, NEW n \in base + 1 .. Len(commits), Holds(g, k, n)
    PROVE  Holds(g, k, n)' /\ n \in base' + 1 .. Len(commits')
  <1>1. Len(commits) \in Nat /\ base \in 0 .. Len(commits)
    BY DataIs, CountsAre DEF FilesOk, Committed
  <1>2. n \in 1 .. Len(commits) /\ n \in 0 .. Len(commits)
    BY <1>1
  <1>3. PICK b \in 0 .. Len(commits) : b = base /\ b = base'
    BY <1>1 DEF ChangesAbove
  <1>4. \A c \in 0 .. Len(commits) : \A p : Content(c, p)' = Content(c, p)
    BY AboveKept
  <1>5. \A p : Content(n, p)' = Content(n, p) /\ Content(b, p)' = Content(b, p)
    BY <1>2, <1>3, <1>4
  <1>6. \A p : Content(base, p)' = Content(base, p)
    BY <1>3, <1>5
  <1>7. commits'[n] = commits[n] /\ n \in base' + 1 .. Len(commits')
    BY <1>1, <1>2, <1>3 DEF ChangesAbove
  <1> QED
    BY <1>5, <1>6, <1>7 DEF Holds

LEMMA AppendGenuine ==
    ASSUME IInv, IInv', DataInv, NEW h \in Handles, pc[h] = "frames",
           NEW f, NEW p, NEW x, NEW last, Appends(h, f, p, x, last)
    PROVE  Genuine'
  <1>1. /\ shm.valid /\ Appended(h, shm.hdr.mx + 1, f - 1)
        /\ shm.hdr.at = Len(commits) /\ (shm.hdr.mx = 0 => base = Len(commits))
    BY FramesIs DEF Appends
  <1>2. /\ TypeOK /\ Versions /\ Genuine /\ shm.hdr.mx \in 0 .. MaxFrames /\ txns \in Nat
        /\ Len(commits) \in Nat /\ base \in 0 .. Len(commits)
    BY DataIs, ShmIs, CountsAre DEF FilesOk, Committed
  <1>3. /\ f \in Frames /\ f > shm.hdr.mx /\ x \in Frame /\ x.txn = txns /\ x.commit = last
        /\ log'.frame[f] = x /\ safe'.frame[f] = safe.frame[f] \cup {x}
        /\ (\A i \in Frames \ {f} : safe'.frame[i] = safe.frame[i])
        /\ log'.salt = log.salt /\ base' = base
        /\ (last => Len(commits') = Len(commits) + 1)
    BY DEF Appends
  <1>4. ChangesAbove /\ Versions' /\ Chained(log'.frame, f, log.salt)
    BY AppendAbove, AppendVersions, AppendChain
  <1>5. PICK s : s = log.salt /\ s = log'.salt
    BY <1>3
  <1> SUFFICES ASSUME NEW k \in Frames, NEW g, Outcome(g, k, log.salt)', g[k].commit
               PROVE  \E n \in base' + 1 .. Len(commits') : Holds(g, k, n)'
    BY DEF Genuine
  <1>6. Outcome(g, k, s)' /\ k \in Nat /\ \A i \in 1 .. k : i \in Frames
    BY <1>5 DEF Outcome, Frames
  <1>7. Chained(g, k, s) /\ \A i \in 1 .. k : g[i] \in safe'.frame[i]
    <2>1. Chained(g, k, s) /\ \A i \in 1 .. k : g[i] \in safe'.frame[i] \cup {NoFrame}
      BY <1>6 DEF Outcome, Choice
    <2>2. \A i \in 1 .. k : g[i] # NoFrame
      BY <2>1, NoFrameIs DEF Chained
    <2> QED
      BY <2>1, <2>2
  <1>8. CASE f \in 1 .. k => g[f] \in safe.frame[f]
    <2>1. \A i \in 1 .. k : g[i] \in safe'.frame[i] => g[i] \in safe.frame[i] \cup {NoFrame}
      BY <1>3, <1>6, <1>8
    <2>2. Outcome(g, k, s) /\ g \in [1 .. k -> AllFrames]
      BY <1>6, <2>1, OutcomeKept
    <2>3. PICK n \in base + 1 .. Len(commits) : Holds(g, k, n)
      BY <1>2, <1>5, <2>2 DEF Genuine
    <2>4. Holds(g, k, n)' /\ n \in base' + 1 .. Len(commits')
      BY <1>1, <1>4, <2>3, HoldsKept
    <2> QED
      BY <2>4
  <1>9. CASE ~(f \in 1 .. k => g[f] \in safe.frame[f])
    <2>1. f \in 1 .. k /\ g[f] = x
      BY <1>3, <1>7, <1>9
    <2>2. k = f
      <3> SUFFICES ASSUME k # f PROVE FALSE
        OBVIOUS
      <3>1. f + 1 \in 1 .. k /\ f + 1 # 1 /\ f + 1 - 1 = f /\ f + 1 \in Frames \ {f} /\ f + 1 > f
        BY <1>6, <2>1 DEF Frames
      <3>2. g[f + 1] \in safe.frame[f + 1] /\ g[f + 1].prev = txns
        BY <1>3, <1>7, <2>1, <3>1 DEF Chained
      <3>3. g[f + 1].txn < txns
        <4>1. f + 1 > f - 1 /\ f + 1 \in Frames
          BY <1>3, <3>1 DEF Frames
        <4> QED
          BY <1>1, <3>2, <4>1 DEF Appended
      <3>4. g[f + 1].prev <= g[f + 1].txn
        BY <1>2, <3>1, <3>2 DEF Versions
      <3>5. g[f + 1].txn \in Nat
        BY <1>2, <3>1, <3>2, FrameAt, FrameIs
      <3> QED
        BY <1>2, <3>2, <3>3, <3>4, <3>5
    <2>3. last
      BY <1>3, <2>1, <2>2
    <2>4. \A i \in 1 .. f : g[i] = log'.frame[i]
      <3>1. \A i \in 1 .. f : g[i] \in safe'.frame[i] /\ log'.frame[i] \in safe'.frame[i]
        BY <1>4, <1>6, <1>7, <2>2 DEF Versions
      <3>2. \A i \in 1 .. f : \A y, z \in safe'.frame[i] : y.txn = z.txn => y = z
        BY <1>4, <1>6, <2>2 DEF Versions
      <3>3. Chained(g, f, s) /\ Chained(log'.frame, f, s) /\ f \in Nat /\ g[f] = log'.frame[f]
        BY <1>3, <1>4, <1>5, <1>6, <1>7, <2>1, <2>2
      <3>4. PICK l, V : l = log'.frame /\ V = safe'.frame
        OBVIOUS
      <3>5. Chained(l, f, s) /\ g[f] = l[f] /\ \A i \in 1 .. f : g[i] \in V[i] /\ l[i] \in V[i]
        BY <3>1, <3>3, <3>4
      <3>6. \A i \in 1 .. f : \A y, z \in V[i] : y.txn = z.txn => y = z
        BY <3>2, <3>4
      <3>7. \A j \in 1 .. f : g[j] = l[j]
        BY <3>3, <3>5, <3>6, ChainUnique
      <3> QED
        BY <3>4, <3>7
    <2>5. PICK n \in Nat : n = Len(commits) + 1
      BY <1>2
    <2>6. Holds(g, f, n)'
      BY <2>3, <2>4, <2>5, AppendHolds
    <2>7. n \in base' + 1 .. Len(commits')
      BY <1>2, <1>3, <2>3, <2>5
    <2> QED
      BY <2>2, <2>6, <2>7
  <1> QED
    BY <1>8, <1>9

LEMMA AppendPublished ==
    ASSUME IInv, IInv', DataInv, NEW h \in Handles, pc[h] = "frames",
           NEW f, NEW p, NEW x, NEW last, Appends(h, f, p, x, last)
    PROVE  Published'
  <1>1. /\ shm.valid /\ shm.hdr.at = Len(commits) /\ (shm.hdr.mx = 0 => base = Len(commits))
    BY FramesIs
  <1>2. TypeOK /\ Published /\ Len(commits) \in Nat
    BY <1>1, DataIs, CountsAre
  <1>3. /\ f \in Frames /\ x.txn = txns /\ x.commit = last /\ x.salt = log.salt
        /\ log'.frame[f] = x /\ safe'.frame[f] = safe.frame[f] \cup {x}
        /\ (\A i \in Frames \ {f} : safe'.frame[i] = safe.frame[i])
        /\ log'.salt = log.salt
        /\ UNCHANGED <<shm, base, kept>>
        /\ (last => Len(commits') = Len(commits) + 1 /\ commits'[Len(commits) + 1].txn = txns
                    /\ pc'[h] = "index")
        /\ (~last => UNCHANGED commits) /\ last \in BOOLEAN
    BY DEF Appends
  <1>4. ChangesAbove /\ Chained(log'.frame, f, log.salt)
    BY AppendAbove, AppendChain
  <1>5. shm'.hdr.at = Len(commits') \/ (Pending' /\ Len(commits') = shm'.hdr.at + 1)
    <2>1. CASE last
      <3>1. Pending'
        BY <1>3, <2>1 DEF Pending
      <3> QED
        BY <1>1, <1>3, <2>1, <3>1
    <2>2. CASE ~last
      BY <1>1, <1>3, <2>2
    <2> QED
      BY <1>3, <2>1, <2>2
  <1>6. Present(Len(commits))'
    <2>1. CASE last
      <3>1. LogCommit(f)'
        BY <1>3, <1>4, <2>1 DEF LogCommit
      <3>2. Has(f, Len(commits))'
        <4>1. Len(commits') \in Len(commits') .. Len(commits')
          BY <1>2, <1>3, <2>1
        <4>2. commits'[Len(commits')].txn = log'.frame[f].txn
          BY <1>3, <2>1
        <4> QED
          BY <4>1, <4>2 DEF Has
      <3> QED
        BY <1>3, <3>1, <3>2 DEF Present
    <2>2. CASE ~last
      <3>1. PICK n \in Nat : n = Len(commits) /\ n = Len(commits')
        BY <1>2, <1>3, <2>2
      <3>2. Present(n)
        BY <1>2, <3>1 DEF Published
      <3>3. Present(n)'
        BY <1>1, <1>4, <3>2, AboveKept
      <3> QED
        BY <3>1, <3>3
    <2> QED
      BY <2>1, <2>2
  <1>7. shm.hdr.mx > 0 => /\ LogCommit(shm.hdr.mx)'
                          /\ \A i \in 1 .. shm.hdr.mx : shm'.index[i] = log'.frame[i].page
                          /\ commits'[shm.hdr.at].txn = log'.frame[shm.hdr.mx].txn
    BY <1>1, <1>4, AboveKept
  <1>8. shm.hdr.salt # log.salt /\ Dead(shm.hdr.salt) => Dead(shm.hdr.salt)'
    <2> SUFFICES ASSUME shm.hdr.salt # log.salt, Dead(shm.hdr.salt) PROVE Dead(shm.hdr.salt)'
      OBVIOUS
    <2>1. PICK s : s = shm.hdr.salt /\ s = shm'.hdr.salt
      BY <1>3
    <2>2. \A i \in Frames : \A y \in safe'.frame[i] :
              y \in safe.frame[i] \cup {NoFrame} \/ y.salt # s
      BY <1>3, <2>1
    <2>3. Dead(s)'
      BY <2>1, <2>2, DeadKept
    <2> QED
      BY <2>1, <2>3
  <1> QED
    BY <1>2, <1>3, <1>5, <1>6, <1>7, <1>8 DEF Published

LEMMA AppendWriter ==
    ASSUME IInv, IInv', DataInv, NEW h \in Handles, pc[h] = "frames",
           NEW f, NEW p, NEW x, NEW last, Appends(h, f, p, x, last)
    PROVE  WriterOk(h)'
  <1>1. /\ shm.valid /\ slot[h] \in Slots /\ own[h].mx = shm.hdr.mx /\ own[h].at = shm.hdr.at
        /\ shm.hdr.at = Len(commits) /\ own[h].salt = log.salt /\ txns > 0 /\ todo.all # {}
        /\ (shm.hdr.mx = 0 => base = Len(commits))
        /\ \A i \in 1 .. Len(commits) : commits[i].txn < txns
        /\ Appended(h, shm.hdr.mx + 1, f - 1)
    BY FramesIs DEF Appends
  <1>2. TypeOK /\ shm.hdr.mx \in 0 .. MaxFrames /\ Len(commits) \in Nat
    BY <1>1, DataIs, ShmIs, CountsAre
  <1>3. /\ f \in Frames /\ f > shm.hdr.mx /\ x.txn = txns /\ x.commit = last /\ x.salt = log.salt
        /\ x.page = p /\ p \in todo.left
        /\ x.prev = (IF f = 1 THEN 0 ELSE log.frame[f - 1].txn)
        /\ log'.frame[f] = x
        /\ (\A i \in Frames \ {f} : safe'.frame[i] = safe.frame[i])
        /\ log'.salt = log.salt /\ todo'.all = todo.all /\ todo'.left = todo.left \ {p}
        /\ (last <=> todo.left = {p}) /\ last \in BOOLEAN
        /\ pc'[h] = (IF last THEN "index" ELSE "frames")
        /\ UNCHANGED <<shm, base, own, slot, txns>>
        /\ (last => Len(commits') = Len(commits) + 1
                    /\ commits'[Len(commits) + 1] = [txn |-> txns, pages |-> todo.all])
        /\ (~last => UNCHANGED commits)
        /\ \A i \in 1 .. Len(commits) : commits'[i] = commits[i]
    BY DEF Appends
  <1>4. \A i \in 1 .. f - 1 : i \in Frames /\ log'.frame[i] = log.frame[i]
    BY AppendChain
  <1>5. NextFrame(h)' = f + 1 /\ todo.left \subseteq todo.all
    BY <1>2, AppendNext, NextFrameAt
  <1>6. f \in Nat /\ f <= MaxFrames /\ f \in 1 .. f
    BY <1>3 DEF Frames
  <1>7. \A i \in Frames : i < shm.hdr.mx + 1 \/ i > f => \A y \in safe'.frame[i] : y.txn < txns
    <2> SUFFICES ASSUME NEW i \in Frames, i < shm.hdr.mx + 1 \/ i > f
                 PROVE  \A y \in safe'.frame[i] : y.txn < txns
      OBVIOUS
    <2>1. i \in Nat
      BY DEF Frames
    <2>2. i # f /\ (i < shm.hdr.mx + 1 \/ i > f - 1)
      BY <1>2, <1>3, <1>6, <2>1
    <2> QED
      BY <1>1, <1>3, <2>2 DEF Appended
  <1>8. \A i \in shm.hdr.mx + 1 .. f :
          /\ log'.frame[i].txn = txns /\ log'.frame[i].salt = log'.salt
          /\ log'.frame[i].page \in todo'.all \ todo'.left
          /\ log'.frame[i].prev = (IF i = 1 THEN 0 ELSE log'.frame[i - 1].txn)
          /\ (log'.frame[i].commit <=> pc'[h] # "frames" /\ i = f)
    <2> SUFFICES ASSUME NEW i \in shm.hdr.mx + 1 .. f
                 PROVE  /\ log'.frame[i].txn = txns /\ log'.frame[i].salt = log'.salt
                        /\ log'.frame[i].page \in todo'.all \ todo'.left
                        /\ log'.frame[i].prev = (IF i = 1 THEN 0 ELSE log'.frame[i - 1].txn)
                        /\ (log'.frame[i].commit <=> pc'[h] # "frames" /\ i = f)
      OBVIOUS
    <2>0. i # 1 => log'.frame[i - 1] = log.frame[i - 1]
      <3>1. i # 1 => i - 1 \in 1 .. f - 1
        BY <1>2, <1>6
      <3> QED
        BY <1>4, <3>1
    <2>1. CASE i = f
      <3>1. last <=> pc'[h] # "frames"
        BY <1>3
      <3> QED
        BY <1>3, <1>5, <2>0, <2>1, <3>1
    <2>2. CASE i # f
      <3>1. i \in shm.hdr.mx + 1 .. f - 1 /\ i \in 1 .. f - 1
        BY <1>2, <1>6, <2>2
      <3>2. log'.frame[i] = log.frame[i]
        BY <1>4, <3>1
      <3>3. /\ log.frame[i].txn = txns /\ log.frame[i].salt = log.salt
            /\ log.frame[i].page \in todo.all \ todo.left
            /\ log.frame[i].prev = (IF i = 1 THEN 0 ELSE log.frame[i - 1].txn)
            /\ (log.frame[i].commit <=> pc[h] # "frames" /\ i = f - 1)
        BY <1>1, <3>1 DEF Appended
      <3>4. ~log'.frame[i].commit
        BY <3>2, <3>3
      <3> QED
        BY <1>3, <2>0, <2>2, <3>2, <3>3, <3>4
    <2> QED
      BY <2>1, <2>2
  <1>9. \A q \in todo'.all \ todo'.left : \E i \in shm.hdr.mx + 1 .. f : log'.frame[i].page = q
    <2> SUFFICES ASSUME NEW q \in todo'.all \ todo'.left
                 PROVE  \E i \in shm.hdr.mx + 1 .. f : log'.frame[i].page = q
      OBVIOUS
    <2>1. CASE q = p
      <3>1. f \in shm.hdr.mx + 1 .. f
        BY <1>2, <1>3, <1>6
      <3> QED
        BY <1>3, <2>1, <3>1
    <2>2. CASE q # p
      <3>1. PICK i \in shm.hdr.mx + 1 .. f - 1 : log.frame[i].page = q
        BY <1>1, <1>3, <2>2 DEF Appended
      <3>2. i \in shm.hdr.mx + 1 .. f /\ i \in 1 .. f - 1
        BY <1>2, <1>6, <3>1
      <3> QED
        BY <1>4, <3>1, <3>2
    <2> QED
      BY <2>1, <2>2
  <1>10. Appended(h, shm.hdr.mx + 1, f)'
    <2>1. shm'.hdr.mx = shm.hdr.mx /\ pc'[h] # "publish" /\ txns' = txns
      BY <1>3
    <2> QED
      BY <1>6, <1>7, <1>8, <1>9, <2>1 DEF Appended
  <1>11. Appended(h, own[h].mx + 1, NextFrame(h) - 1)'
    <2>1. NextFrame(h)' - 1 = f /\ own'[h].mx = shm'.hdr.mx
      BY <1>1, <1>3, <1>5, <1>6
    <2> QED
      BY <1>10, <2>1
  <1>12. IF pc'[h] = "frames" THEN todo'.left # {}
         ELSE /\ todo'.left = {} /\ Len(commits') > shm'.hdr.at
              /\ commits'[Len(commits')] = [txn |-> txns', pages |-> todo'.all]
    BY <1>1, <1>2, <1>3
  <1>13. \A i \in 1 .. shm'.hdr.at : commits'[i].txn < txns'
    BY <1>1, <1>3
  <1>14. pc'[h] \in {"frames", "index"} /\ Appending(h)'
    BY <1>3 DEF Appending
  <1> QED
    BY <1>1, <1>3, <1>11, <1>12, <1>13, <1>14 DEF WriterOk

LEMMA AppendFrameData == ASSUME IInv, IInv', DataInv, NEW h \in Handles, AppendFrame(h) PROVE DataInv'
  <1>1. pc[h] = "frames"
    BY DEF AppendFrame
  <1>2. PICK f, p, x, last : Appends(h, f, p, x, last)
    BY AppendIs
  <1>3. /\ Others(h) /\ pc'[h] \in {"index", "frames"}
        /\ UNCHANGED <<shm, db, own, slot, mark, min, writer, ckpt, txns, base, kept, crashes>>
    BY <1>2 DEF Appends
  <1>4. /\ shm.valid /\ writer = h /\ shm.hdr.at = Len(commits)
        /\ (shm.hdr.mx = 0 => base = Len(commits)) /\ own[h].mx = shm.hdr.mx
        /\ \A g \in Handles \ {h} :
              /\ pc[g] \notin Copies /\ writer # g
              /\ own[g].mx <= shm.hdr.mx \/ slot[g] = 0 \/ ~Reading(g)
    BY <1>1, FramesIs
  <1>5. TypeOK /\ Idle /\ shm.hdr.mx \in Nat /\ ReaderOk(h)
    BY <1>4, DataIs, NumbersAre
  <1>6. ChangesAbove
    BY <1>1, <1>2, AppendAbove
  <1>7. TypeOK'
    BY <1>1, <1>2, AppendTyped
  <1>8. Paged' /\ Stable(safe.at)' /\ DbOk'
    BY <1>4, <1>6, AboveKept
  <1>9. FilesOk'
    BY <1>1, <1>2, <1>8, AppendVersions, AppendGenuine DEF FilesOk
  <1>10. Published' /\ WriterOk(h)'
    BY <1>1, <1>2, AppendPublished, AppendWriter
  <1>11. ReaderOk(h)'
    <2>1. Reading(h) /\ Reading(h)' /\ (InLog(h)' <=> InLog(h))
      BY <1>1, <1>3 DEF Reading, InLog
    <2>2. own[h].at <= Len(commits) /\ Len(commits) \in Nat /\ own[h].at \in Nat /\ SnapOk(h)
      BY <1>4, <1>5, <2>1, NumbersAre DEF ReaderOk
    <2>3. \A i \in 1 .. own[h].mx : log.frame'[i] = log.frame[i]
      BY <1>4, <1>6 DEF ChangesAbove
    <2>4. \A i \in 1 .. own[h].at : commits'[i] = commits[i]
      BY <1>6, <2>2 DEF ChangesAbove
    <2>5. SnapOk(h)'
      BY <1>3, <1>5, <2>2, <2>3, <2>4, SnapKept
    <2> QED
      BY <1>3, <1>5, <2>1, <2>5 DEF ReaderOk
  <1>12. ASSUME NEW g \in Handles \ {h}
         PROVE  WriterOk(g)' /\ CopierOk(g)' /\ ReaderOk(g)' /\ (pc'[g] = "idle" => own'[g].at = 0)
    <2>1. /\ pc'[g] = pc[g] /\ own'[g] = own[g] /\ slot'[g] = slot[g] /\ min'[g] = min[g]
      BY <1>3 DEF Others
    <2>2. ReaderOk(g)'
      BY <1>4, <1>6, <2>1, AboveReads
    <2>3. WriterOk(g)'
      BY <1>3, <1>4, NoWriter
    <2>4. CopierOk(g)'
      BY <1>4, <2>1 DEF CopierOk, Copies
    <2> QED
      BY <1>5, <2>1, <2>2, <2>3, <2>4 DEF Idle
  <1>13. CopierOk(h)'
    BY <1>3 DEF CopierOk
  <1>14. IndexOk'
    BY <1>8, <1>10, <1>11, <1>12, <1>13 DEF IndexOk
  <1>15. Idle'
    BY <1>3, <1>12 DEF Idle
  <1> QED
    BY <1>3, <1>4, <1>7, <1>9, <1>14, <1>15 DEF DataInv, Lost

(***************************************************************************)
(* The writer gives up.                                                    *)
(***************************************************************************)
LEMMA AbortIs ==
    ASSUME IInv, DataInv, NEW h \in Handles, Abort(h)
    PROVE  /\ TypeLog' /\ TypeSafe' /\ ChangesAbove
           /\ \A f \in Frames : /\ safe'.frame[f] \subseteq safe.frame[f] \cup {NoFrame}
                                /\ log'.frame[f] \in safe'.frame[f]
                                /\ IsFiniteSet(safe'.frame[f])
  <1>1. pc[h] = "frames" /\ UNCHANGED <<shm, db, ckpt, txns, commits, base, kept, crashes>>
    BY DEF Abort, history
  <1>2. shm.valid /\ own[h].mx = shm.hdr.mx
    BY <1>1, FramesIs
  <1>3. TypeOK /\ Versions /\ TypeLog /\ TypeSafe /\ Len(commits) \in Nat /\ shm.hdr.mx \in 0 .. MaxFrames
    BY <1>2, DataIs, TypeIs, CountsAre, ShmIs DEF TypeParts, FilesOk
  <1>4. CASE UNCHANGED <<log, safe>>
    BY <1>1, <1>3, <1>4 DEF ChangesAbove, TypeLog, TypeSafe, Versions
  <1>5. CASE /\ NextFrame(h) <= MaxFrames
             /\ log' = [log EXCEPT !.frame[NextFrame(h)] = NoFrame]
             /\ safe' = [safe EXCEPT !.frame[NextFrame(h)] = @ \cup {NoFrame}]
    <2>1. PICK f : f = NextFrame(h)
      OBVIOUS
    <2>2. f \in Frames /\ f > shm.hdr.mx
      BY <1>2, <1>3, <1>5, <2>1, NextFrameAt DEF Frames
    <2>3. NoFrame \in Frame
      BY NoFrameIs
    <2>4. TypeLog' /\ log'.frame[f] = NoFrame /\ (\A i \in Frames \ {f} : log'.frame[i] = log.frame[i])
          /\ log'.salt = log.salt
      BY <1>3, <1>5, <2>1, <2>2, <2>3 DEF TypeLog
    <2>5. PICK fr : fr = [safe.frame EXCEPT ![f] = @ \cup {NoFrame}]
      OBVIOUS
    <2>6. fr \in [Frames -> SUBSET Frame] /\ fr[f] = safe.frame[f] \cup {NoFrame}
          /\ \A i \in Frames \ {f} : fr[i] = safe.frame[i]
      BY <1>3, <2>2, <2>3, <2>5 DEF TypeSafe
    <2>7. safe' = [safe EXCEPT !.frame = fr]
      BY <1>3, <1>5, <2>1, <2>5 DEF TypeSafe
    <2>8. TypeSafe' /\ safe'.frame = fr /\ UNCHANGED <<safe.page, safe.at>>
      BY <1>3, <2>6, <2>7 DEF TypeSafe
    <2>9. \A i \in 1 .. shm.hdr.mx : i \in Frames \ {f}
      BY <1>3, <2>2 DEF Frames
    <2>10. ChangesAbove
      BY <1>1, <1>3, <2>4, <2>6, <2>8, <2>9 DEF ChangesAbove
    <2>11. ASSUME NEW i \in Frames
           PROVE  /\ safe'.frame[i] \subseteq safe.frame[i] \cup {NoFrame}
                  /\ log'.frame[i] \in safe'.frame[i]
                  /\ IsFiniteSet(safe'.frame[i])
      <3>1. CASE i = f
        <4>1. PICK S : S = safe.frame[f]
          OBVIOUS
        <4>2. IsFiniteSet(S \cup {NoFrame})
          BY <1>3, <2>2, <4>1, FS_AddElement DEF Versions
        <4> QED
          BY <2>4, <2>6, <2>8, <3>1, <4>1, <4>2
      <3>2. CASE i # f
        BY <1>3, <2>4, <2>6, <2>8, <3>2 DEF Versions
      <3> QED
        BY <3>1, <3>2
    <2> QED
      BY <2>4, <2>8, <2>10, <2>11
  <1> QED
    BY <1>4, <1>5 DEF Abort

\* Frames of which nothing may be left are no versions to worry about.
LEMMA NoFrameVersions ==
    ASSUME TypeOK, Versions, txns' = txns,
           \A f \in Frames : /\ safe'.frame[f] \subseteq safe.frame[f] \cup {NoFrame}
                             /\ log'.frame[f] \in safe'.frame[f]
                             /\ IsFiniteSet(safe'.frame[f])
    PROVE  Versions'
  <1>0. NoFrame.txn = 0 /\ NoFrame.prev = 0 /\ ~NoFrame.commit /\ txns \in Nat
    BY NoFrameIs, CountsAre
  <1>1. \A f \in Frames : \A x \in safe.frame[f] : x.txn = 0 => x = NoFrame
    BY FrameAt, FrameIs
  <1>2. \A f \in Frames : \A x \in safe'.frame[f] : x.prev <= x.txn /\ x.txn <= txns'
    <2> SUFFICES ASSUME NEW f \in Frames, NEW x \in safe'.frame[f]
                 PROVE  x.prev <= x.txn /\ x.txn <= txns'
      OBVIOUS
    <2>1. CASE x = NoFrame
      BY <1>0, <2>1
    <2>2. CASE x \in safe.frame[f]
      BY <2>2 DEF Versions
    <2> QED
      BY <2>1, <2>2
  <1>3. \A f \in Frames : \A x, y \in safe'.frame[f] : x.txn = y.txn => x = y
    <2> SUFFICES ASSUME NEW f \in Frames, NEW x \in safe'.frame[f], NEW y \in safe'.frame[f],
                        x.txn = y.txn
                 PROVE  x = y
      OBVIOUS
    <2>1. CASE x = NoFrame \/ y = NoFrame
      BY <1>0, <1>1, <2>1
    <2>2. CASE x \in safe.frame[f] /\ y \in safe.frame[f]
      BY <2>2 DEF Versions
    <2> QED
      BY <2>1, <2>2
  <1>4. \A f \in Frames \ {1} : \A x \in safe'.frame[f], y \in safe'.frame[f - 1] :
          x.txn = y.txn => ~y.commit
    <2> SUFFICES ASSUME NEW f \in Frames \ {1}, NEW x \in safe'.frame[f],
                        NEW y \in safe'.frame[f - 1], x.txn = y.txn
                 PROVE  ~y.commit
      OBVIOUS
    <2>0. f - 1 \in Frames
      BY DEF Frames
    <2>1. CASE x = NoFrame \/ y = NoFrame
      BY <1>0, <1>1, <2>0, <2>1
    <2>2. CASE x \in safe.frame[f] /\ y \in safe.frame[f - 1]
      BY <2>2 DEF Versions
    <2> QED
      BY <2>0, <2>1, <2>2
  <1> QED
    BY <1>2, <1>3, <1>4 DEF Versions

LEMMA AbortGenuine ==
    ASSUME IInv, DataInv, NEW h \in Handles, Abort(h)
    PROVE  Genuine'
  <1>1. pc[h] = "frames"
    BY DEF Abort
  <1>2. shm.valid /\ shm.hdr.at = Len(commits) /\ (shm.hdr.mx = 0 => base = Len(commits)) /\ Genuine
    BY <1>1, FramesIs, DataIs DEF FilesOk
  <1>3. ChangesAbove /\ \A f \in Frames : safe'.frame[f] \subseteq safe.frame[f] \cup {NoFrame}
    BY AbortIs
  <1>4. PICK s : s = log.salt /\ s = log'.salt
    BY <1>3 DEF ChangesAbove
  <1> SUFFICES ASSUME NEW k \in Frames, NEW g, Outcome(g, k, log.salt)', g[k].commit
               PROVE  \E n \in base' + 1 .. Len(commits') : Holds(g, k, n)'
    BY DEF Genuine
  <1>5. Outcome(g, k, s)' /\ \A i \in 1 .. k : i \in Frames
    BY <1>4 DEF Outcome, Frames
  <1>6. \A i \in 1 .. k : g[i] \in safe'.frame[i] => g[i] \in safe.frame[i] \cup {NoFrame}
    BY <1>3, <1>5
  <1>7. Outcome(g, k, s) /\ g \in [1 .. k -> AllFrames]
    BY <1>5, <1>6, OutcomeKept
  <1>8. PICK n \in base + 1 .. Len(commits) : Holds(g, k, n)
    BY <1>2, <1>4, <1>7 DEF Genuine
  <1>9. Holds(g, k, n)' /\ n \in base' + 1 .. Len(commits')
    BY <1>2, <1>3, <1>8, HoldsKept
  <1> QED
    BY <1>9

LEMMA AbortPublished ==
    ASSUME IInv, DataInv, NEW h \in Handles, Abort(h)
    PROVE  Published'
  <1>1. pc[h] = "frames" /\ UNCHANGED <<shm, commits, base, kept>>
    BY DEF Abort, history
  <1>2. shm.valid /\ shm.hdr.at = Len(commits) /\ (shm.hdr.mx = 0 => base = Len(commits))
    BY <1>1, FramesIs
  <1>3. ChangesAbove /\ \A f \in Frames : safe'.frame[f] \subseteq safe.frame[f] \cup {NoFrame}
    BY AbortIs
  <1>4. Published /\ Len(commits) \in Nat
    BY <1>2, DataIs, CountsAre
  <1>5. Present(Len(commits))'
    <2>1. PICK n \in Nat : n = Len(commits) /\ n = Len(commits')
      BY <1>1, <1>4
    <2>2. Present(n)'
      BY <1>2, <1>3, <1>4, <2>1, AboveKept DEF Published
    <2> QED
      BY <2>1, <2>2
  <1>6. shm.hdr.mx > 0 => /\ LogCommit(shm.hdr.mx)'
                          /\ \A i \in 1 .. shm.hdr.mx : shm'.index[i] = log'.frame[i].page
                          /\ commits'[shm.hdr.at].txn = log'.frame[shm.hdr.mx].txn
    BY <1>2, <1>3, AboveKept
  <1>7. Dead(shm.hdr.salt) => Dead(shm.hdr.salt)'
    <2> SUFFICES ASSUME Dead(shm.hdr.salt) PROVE Dead(shm.hdr.salt)'
      OBVIOUS
    <2>1. PICK s : s = shm.hdr.salt /\ s = shm'.hdr.salt
      BY <1>1
    <2>2. Dead(s)'
      BY <1>3, <2>1, DeadKept
    <2> QED
      BY <2>1, <2>2
  <1>8. log'.salt = log.salt
    BY <1>3 DEF ChangesAbove
  <1> QED
    BY <1>1, <1>2, <1>4, <1>5, <1>6, <1>7, <1>8 DEF Published

LEMMA AbortData == ASSUME IInv, IInv', DataInv, NEW h \in Handles, Abort(h) PROVE DataInv'
  <1>1. /\ pc[h] = "frames" /\ Leave(h) /\ writer' = Nobody /\ todo' = NoTodo
        /\ UNCHANGED <<shm, db, ckpt, txns, commits, base, kept, crashes>>
    BY DEF Abort, history
  <1>2. /\ shm.valid /\ writer = h /\ shm.hdr.at = Len(commits)
        /\ (shm.hdr.mx = 0 => base = Len(commits))
        /\ \A g \in Handles \ {h} :
              /\ pc[g] \notin Copies /\ writer # g
              /\ own[g].mx <= shm.hdr.mx \/ slot[g] = 0 \/ ~Reading(g)
    BY <1>1, FramesIs
  <1>3. TypeOK /\ TypeParts /\ FilesOk /\ Idle /\ Committed /\ Len(commits) \in Nat
    BY <1>2, DataIs, TypeIs, CountsAre DEF FilesOk
  <1>4. Others(h) /\ pc'[h] = "idle" /\ slot'[h] = NoSlot
    BY <1>1, LeaveMoves
  <1>5. TypeOwn' /\ TypeMark' /\ TypeMin' /\ own'[h].at = 0 /\ OtherMins(h)
    BY <1>1, <1>3, LeaveTyped DEF OtherMins
  <1>6. TypeOK'
    <2>1. TypeShm' /\ TypeDb' /\ TypeCkpt' /\ TypeTxns' /\ TypeCommits' /\ TypeCounts'
      BY <1>1, <1>3 DEF TypeParts, TypeShm, TypeDb, TypeCkpt, TypeTxns, TypeCommits, TypeCounts
    <2>2. TypeParts'
      BY <1>5, <2>1, AbortIs DEF TypeParts
    <2>3. (IInv /\ TypeParts => TypeOK)'
      BY TypeOf, PTL
    <2> QED
      BY <2>2, <2>3
  <1>7. ChangesAbove
    BY AbortIs
  <1>8. Paged' /\ Stable(safe.at)' /\ DbOk'
    BY <1>2, <1>7, AboveKept
  <1>9. FilesOk'
    <2>1. Versions'
      BY <1>1, <1>3, AbortIs, NoFrameVersions DEF FilesOk
    <2>2. Committed'
      BY <1>1, <1>3 DEF Committed
    <2> QED
      BY <1>8, <2>1, <2>2, AbortGenuine DEF FilesOk
  <1>10. ASSUME NEW g \in Handles \ {h}
         PROVE  WriterOk(g)' /\ CopierOk(g)' /\ ReaderOk(g)' /\ (pc'[g] = "idle" => own'[g].at = 0)
    <2>1. /\ pc'[g] = pc[g] /\ own'[g] = own[g] /\ slot'[g] = slot[g] /\ min'[g] = min[g]
      BY <1>4, <1>5 DEF Others, OtherMins
    <2>2. ReaderOk(g)'
      BY <1>2, <1>7, <2>1, AboveReads
    <2>3. WriterOk(g)'
      BY <1>1, NoWriter
    <2>4. CopierOk(g)'
      BY <1>2, <2>1 DEF CopierOk, Copies
    <2> QED
      BY <1>3, <2>1, <2>2, <2>3, <2>4 DEF Idle
  <1>11. WriterOk(h)' /\ CopierOk(h)' /\ ReaderOk(h)'
    <2>1. WriterOk(h)'
      BY <1>1, NoWriter
    <2>2. ReaderOk(h)'
      BY <1>1, <1>2, <1>3, <1>4, <1>5, IdleReader
    <2> QED
      BY <1>4, <2>1, <2>2 DEF CopierOk
  <1>12. IndexOk'
    BY <1>8, <1>10, <1>11, AbortPublished DEF IndexOk
  <1>13. Idle'
    BY <1>5, <1>10 DEF Idle
  <1> QED
    BY <1>1, <1>2, <1>6, <1>9, <1>12, <1>13 DEF DataInv, Lost

(***************************************************************************)
(* The transaction is published.                                           *)
(***************************************************************************)
LEMMA PublishingIs ==
    ASSUME IInv, DataInv, NEW h \in Handles, pc[h] = "publish"
    PROVE  /\ shm.valid /\ writer = h /\ ckpt.by # h /\ slot[h] \in Slots /\ InLog(h)
           /\ own[h].mx = shm.hdr.mx /\ own[h].salt = log.salt
           /\ Len(commits) = shm.hdr.at + 1 /\ Len(commits) \in 1 .. MaxTxns
           /\ commits[Len(commits)] = [txn |-> txns, pages |-> todo.all]
           /\ NextFrame(h) - 1 \in Frames /\ shm.hdr.mx < NextFrame(h) - 1
           /\ shm.nBackfill <= shm.hdr.mx
           /\ Appended(h, shm.hdr.mx + 1, NextFrame(h) - 1) /\ todo.left = {}
           /\ \A g \in Handles \ {h} : pc[g] \notin Copies /\ writer # g
  <1>1. shm.valid /\ ckpt.by # h /\ writer = h
    BY HasLock DEF Copies, IInv, Safe, Writing, Writes
  <1>2. own[h].mx = shm.hdr.mx
    BY <1>1 DEF IInv, Safe, Writing
  <1>3. TypeOK /\ Published /\ Committed /\ WriterOk(h) /\ shm.hdr.mx \in Nat /\ Len(commits) \in Nat
        /\ shm.hdr.at \in Nat
    BY <1>1, DataIs, NumbersAre DEF FilesOk
  <1>4. /\ slot[h] \in Slots /\ own[h].salt = log.salt /\ todo.all # {} /\ todo.left = {}
        /\ Len(commits) > shm.hdr.at /\ commits[Len(commits)] = [txn |-> txns, pages |-> todo.all]
        /\ Appended(h, shm.hdr.mx + 1, NextFrame(h) - 1)
    BY <1>1, <1>2, <1>3 DEF WriterOk, Appending
  <1>5. InLog(h)
    BY <1>4 DEF InLog, Reading
  <1>6. shm.nBackfill <= shm.hdr.mx
    BY <1>2, <1>5 DEF IInv, Safe, Protected
  <1>7. Len(commits) = shm.hdr.at + 1
    BY <1>3, <1>4, AtIs
  <1>8. Len(commits) \in 1 .. MaxTxns
    <2>1. Len(commits) \in 1 .. Len(commits)
      BY <1>3, <1>7
    <2>2. Len(commits) <= commits[Len(commits)].txn /\ commits[Len(commits)].txn \in 1 .. MaxTxns
      BY <1>3, <2>1, CommitAt DEF Committed
    <2> QED
      BY <1>3, <1>7, <2>2
  <1>9. NextFrame(h) - 1 \in Frames /\ shm.hdr.mx < NextFrame(h) - 1
    <2>1. NextFrame(h) \in Nat
      BY <1>3, NextFrameAt
    <2>2. PICK p \in todo.all : TRUE
      BY <1>4
    <2>3. PICK f \in shm.hdr.mx + 1 .. NextFrame(h) - 1 : log.frame[f].page = p
      BY <1>4, <2>2 DEF Appended
    <2>4. NextFrame(h) - 1 <= MaxFrames
      BY <1>4 DEF Appended
    <2> QED
      BY <1>3, <2>1, <2>3, <2>4 DEF Frames
  <1>10. \A g \in Handles \ {h} : pc[g] \notin Copies /\ writer # g
    BY <1>1, NoCopier
  <1> QED
    BY <1>1, <1>2, <1>4, <1>5, <1>6, <1>7, <1>8, <1>9, <1>10

\* The log is chained up to the commit mark of the transaction, and indexed up to it.
LEMMA PublishingChain ==
    ASSUME IInv, DataInv, NEW h \in Handles, pc[h] = "publish", NEW hi, hi = NextFrame(h) - 1
    PROVE  /\ LogCommit(hi) /\ commits[Len(commits)].txn = log.frame[hi].txn
           /\ \A f \in 1 .. hi : shm.index[f] = log.frame[f].page
           /\ base < Len(commits) /\ Holds(log.frame, hi, Len(commits))
  <1>1. /\ shm.valid /\ Len(commits) \in 1 .. MaxTxns
        /\ commits[Len(commits)] = [txn |-> txns, pages |-> todo.all]
        /\ hi \in Frames /\ shm.hdr.mx < hi
        /\ Appended(h, shm.hdr.mx + 1, hi)
    BY PublishingIs
  <1>2. TypeOK /\ Published /\ Versions /\ Committed /\ Genuine /\ shm.hdr.mx \in Nat
    BY <1>1, DataIs, NumbersAre DEF FilesOk
  <1>3. ASSUME NEW j \in 1 .. hi
        PROVE  /\ log.frame[j].page # 0 /\ log.frame[j].salt = log.salt
               /\ log.frame[j].prev = IF j = 1 THEN 0 ELSE log.frame[j - 1].txn
               /\ shm.index[j] = log.frame[j].page
    <2>1. CASE j <= shm.hdr.mx
      <3>1. j \in 1 .. shm.hdr.mx /\ LogCommit(shm.hdr.mx) /\ shm.index[j] = log.frame[j].page
        BY <1>2, <2>1 DEF Published
      <3> QED
        BY <3>1 DEF LogCommit, Chained
    <2>2. CASE ~(j <= shm.hdr.mx)
      <3>1. j \in shm.hdr.mx + 1 .. hi
        BY <1>1, <1>2, <2>2 DEF Frames
      <3>2. log.frame[j].page \in todo.all
        BY <1>1, <3>1 DEF Appended
      <3>3. log.frame[j].page # 0
        BY <1>2, <3>2, NextFrameAt DEF Pages
      <3> QED
        BY <1>1, <3>1, <3>3 DEF Appended
    <2> QED
      BY <2>1, <2>2
  <1>4. Chained(log.frame, hi, log.salt)
    BY <1>3 DEF Chained
  <1>5. log.frame[hi].commit /\ log.frame[hi].txn = txns
    <2>1. hi \in shm.hdr.mx + 1 .. hi
      BY <1>1, <1>2 DEF Frames
    <2> QED
      BY <1>1, <2>1 DEF Appended
  <1>6. LogCommit(hi)
    BY <1>4, <1>5 DEF LogCommit
  <1>7. commits[Len(commits)].txn = log.frame[hi].txn
    BY <1>1, <1>5
  <1>8. Len(commits) \in 1 .. Len(commits)
    BY <1>1
  <1>9. Len(commits) > base /\ Holds(log.frame, hi, Len(commits))
    BY <1>1, <1>2, <1>6, <1>7, <1>8, CommitIs
  <1>10. base \in Nat
    BY <1>2, CountsAre
  <1> QED
    BY <1>1, <1>3, <1>6, <1>7, <1>9, <1>10

\* What is published anew is the transaction and what was published before.
LEMMA PublishingDb ==
    ASSUME IInv, DataInv, NEW h \in Handles, pc[h] = "publish", NEW hi, hi = NextFrame(h) - 1,
           NEW p \in Pages, \A f \in 1 .. hi : log.frame[f].page = p => f <= shm.nBackfill
    PROVE  db[p] = Content(Len(commits), p)
  <1>1. /\ shm.valid /\ Len(commits) \in 1 .. MaxTxns /\ Len(commits) = shm.hdr.at + 1
        /\ commits[Len(commits)] = [txn |-> txns, pages |-> todo.all]
        /\ hi \in Frames /\ shm.hdr.mx < hi /\ shm.nBackfill <= shm.hdr.mx
        /\ Appended(h, shm.hdr.mx + 1, hi) /\ todo.left = {}
    BY PublishingIs
  <1>2. TypeOK /\ DbOk /\ shm.hdr.mx \in Nat /\ shm.nBackfill \in Nat /\ shm.hdr.at \in Nat
    BY <1>1, DataIs, NumbersAre
  <1>3. p \notin todo.all
    <2> SUFFICES ASSUME p \in todo.all PROVE FALSE
      OBVIOUS
    <2>1. PICK f \in shm.hdr.mx + 1 .. hi : log.frame[f].page = p
      BY <1>1 DEF Appended
    <2>2. f \in 1 .. hi /\ ~(f <= shm.nBackfill)
      BY <1>1, <1>2, <2>1
    <2> QED
      BY <2>1, <2>2
  <1>4. Content(Len(commits), p) = Content(shm.hdr.at, p)
    <2>1. Len(commits) \in 1 .. Len(commits)
      BY <1>1
    <2>2. Content(Len(commits), p) = Content(Len(commits) - 1, p)
      BY <1>1, <1>2, <1>3, <2>1, ContentStep
    <2>3. Len(commits) - 1 = shm.hdr.at
      BY <1>1, <1>2
    <2> QED
      BY <2>2, <2>3
  <1>5. \A f \in 1 .. shm.hdr.mx : f \in 1 .. hi
    BY <1>1, <1>2 DEF Frames
  <1> QED
    BY <1>2, <1>4, <1>5 DEF DbOk

LEMMA PublishData == ASSUME IInv, IInv', DataInv, NEW h \in Handles, Publish(h) PROVE DataInv'
  <1>1. PICK hi, s, n : hi = NextFrame(h) - 1 /\ s = own[h].salt /\ n = Len(commits)
    OBVIOUS
  <1>2. PICK hdr : hdr = [mx |-> hi, salt |-> s, at |-> n]
    OBVIOUS
  <1>3. /\ pc[h] = "publish" /\ shm' = [shm EXCEPT !.hdr = hdr] /\ own' = [own EXCEPT ![h] = hdr]
        /\ writer' = Nobody /\ todo' = NoTodo /\ Goto(h, "read")
        /\ UNCHANGED <<files, slot, mark, min, ckpt, txns, history>>
    BY <1>1, <1>2 DEF Publish
  <1>4. UNCHANGED <<log, db, safe, commits, base, kept, crashes>>
    BY <1>3 DEF files, history
  <1>5. /\ shm.valid /\ slot[h] \in Slots /\ InLog(h) /\ s = log.salt
        /\ n = shm.hdr.at + 1 /\ n \in 1 .. MaxTxns
        /\ hi \in Frames /\ shm.hdr.mx < hi /\ shm.nBackfill <= shm.hdr.mx
        /\ \A g \in Handles \ {h} : pc[g] \notin Copies /\ writer # g
    BY <1>1, <1>3, PublishingIs
  <1>6. /\ LogCommit(hi) /\ commits[n].txn = log.frame[hi].txn
        /\ \A f \in 1 .. hi : shm.index[f] = log.frame[f].page
        /\ base < n /\ Holds(log.frame, hi, n)
    BY <1>1, <1>3, PublishingChain
  <1>7. /\ TypeOK /\ TypeParts /\ FilesOk /\ Published /\ Idle /\ ReaderOk(h) /\ TypeShm
        /\ shm.hdr.mx \in Nat /\ shm.nBackfill \in Nat /\ shm.hdr.at \in Nat /\ min[h] \in Nat
    BY <1>5, DataIs, TypeIs, NumbersAre DEF TypeParts
  <1>8. hdr \in Hdr /\ IsHdr(hdr) /\ hdr.mx = hi /\ hdr.salt = s /\ hdr.at = n
    <2>1. log.salt \in Nat
      BY <1>7 DEF TypeParts, TypeLog
    <2> QED
      BY <1>2, <1>5, <2>1 DEF Hdr, IsHdr, Frames
  <1>9. /\ TypeShm' /\ shm'.hdr = hdr /\ shm'.nBackfill = shm.nBackfill /\ shm'.index = shm.index
        /\ shm'.valid = shm.valid
    BY <1>3, <1>7, <1>8 DEF TypeShm
  <1>10. Others(h) /\ pc'[h] = "read" /\ own'[h] = hdr
    <2>1. pc \in [Handles -> Places] /\ own = [g \in Handles |-> own[g]]
      BY DEF IInv, Forms, HandleForms
    <2>2. pc'[h] = "read" /\ \A g \in Handles \ {h} : pc'[g] = pc[g]
      BY <1>3, <2>1 DEF Goto
    <2>3. own'[h] = hdr /\ \A g \in Handles \ {h} : own'[g] = own[g]
      BY <1>3, <2>1
    <2> QED
      BY <1>3, <2>2, <2>3 DEF Others
  <1>11. TypeOwn' /\ TypeMark' /\ TypeMin' /\ TypeCkpt' /\ TypeTxns' /\ txns' \in Nat
    BY <1>3, <1>7, <1>8, OwnTyped, SameTyped, CountsAre
  <1>12. TypeOK'
    <2>1. TypeParts'
      BY <1>4, <1>7, <1>9, <1>11, TypeKept DEF TypeParts, files
    <2>2. (IInv /\ TypeParts => TypeOK)'
      BY TypeOf, PTL
    <2> QED
      BY <2>1, <2>2
  <1>13. FilesOk'
    <2>1. txns <= txns'
      BY <1>3, <1>11
    <2> QED
      BY <1>4, <1>7, <1>11, <2>1, FilesKept
  <1>14. Published'
    <2>1. Present(Len(commits))'
      <3>1. Present(Len(commits))
        BY <1>7 DEF Published
      <3> QED
        BY <1>4, <3>1 DEF Present, LogCommit, Has
    <2>2. LogCommit(hi)'
      BY <1>4, <1>6 DEF LogCommit
    <2>3. LogCommit(shm.hdr.mx)'
      BY <1>8, <1>9, <2>2
    <2>4. shm'.hdr.at = Len(commits') /\ shm'.hdr.at >= kept'
      <3>1. kept \in Nat /\ shm.hdr.at >= kept
        BY <1>7, CountsAre DEF Published
      <3> QED
        BY <1>1, <1>4, <1>5, <1>7, <1>8, <1>9, <3>1
    <2>5. shm'.hdr.mx > 0
      BY <1>5, <1>7, <1>8, <1>9 DEF Frames
    <2> QED
      BY <1>4, <1>5, <1>6, <1>8, <1>9, <2>1, <2>3, <2>4, <2>5 DEF Published
  <1>15. \A p \in Pages : (\A f \in 1 .. hi : log.frame[f].page = p => f <= shm.nBackfill)
                              => db[p] = Content(n, p)
    BY <1>1, <1>3, PublishingDb
  <1>16. \A p : Content(n, p)' = Content(n, p)
    BY <1>4 DEF Content
  <1>17. DbOk'
    <2>1. \A p \in Pages : (\A f \in 1 .. hi : log'.frame[f].page = p => f <= shm'.nBackfill)
                              => db'[p] = Content(n, p)'
      BY <1>4, <1>9, <1>15, <1>16
    <2>2. hi # 0 /\ shm'.nBackfill # hi
      BY <1>5, <1>7, <1>9 DEF Frames
    <2> QED
      BY <1>8, <1>9, <2>1, <2>2 DEF DbOk
  <1>18. ReaderOk(h)'
    <2>1. min[h] <= shm.nBackfill + 1
      BY <1>5, <1>7 DEF ReaderOk
    <2>2. \A p \in Pages, f \in Frames :
             Latest(log'.frame, hi, p, f) => log'.frame[f].txn = Content(n, p)'
      BY <1>4, <1>6, <1>16 DEF Holds
    <2>3. ASSUME NEW p \in Pages, \A f \in 1 .. hi : min'[h] <= f => log'.frame[f].page # p
          PROVE  db'[p] = Content(n, p)'
      <3>1. ASSUME NEW f \in 1 .. hi, log.frame[f].page = p PROVE f <= shm.nBackfill
        <4>1. ~(min[h] <= f)
          BY <1>3, <1>4, <2>3, <3>1
        <4> QED
          BY <1>7, <2>1, <4>1
      <3> QED
        BY <1>4, <1>15, <1>16, <3>1
    <2>4. SnapOk(h)'
      <3>1. slot'[h] # 0
        BY <1>3, <1>5
      <3> QED
        BY <1>8, <1>10, <2>2, <2>3, <3>1 DEF SnapOk
    <2>5. slot'[h] # 0 /\ slot'[h] # NoSlot /\ own'[h].at <= shm'.hdr.at
      BY <1>3, <1>5, <1>7, <1>8, <1>9, <1>10
    <2>6. min'[h] <= shm'.nBackfill + 1 /\ pc'[h] # "confirm"
      BY <1>3, <1>9, <1>10, <2>1
    <2> QED
      BY <2>4, <2>5, <2>6 DEF ReaderOk
  <1>19. ASSUME NEW g \in Handles \ {h}
         PROVE  WriterOk(g)' /\ CopierOk(g)' /\ ReaderOk(g)' /\ (pc'[g] = "idle" => own'[g].at = 0)
    <2>1. /\ pc'[g] = pc[g] /\ own'[g] = own[g] /\ slot'[g] = slot[g] /\ min'[g] = min[g]
      BY <1>3, <1>10 DEF Others
    <2>2. ReaderOk(g) /\ own[g].at \in Nat /\ own[g].at <= shm.hdr.at
      BY <1>5, <1>7, DataIs, NumbersAre DEF ReaderOk
    <2>3. shm'.hdr # own'[g] /\ own'[g].at <= shm'.hdr.at
      BY <1>5, <1>7, <1>8, <1>9, <2>1, <2>2
    <2>4. Reading(g) => SnapOk(g)'
      <3> SUFFICES ASSUME Reading(g) PROVE SnapOk(g)'
        OBVIOUS
      <3>1. SnapOk(g) /\ own[g].at <= Len(commits)
        BY <1>1, <1>5, <1>7, <2>2 DEF ReaderOk
      <3> QED
        BY <1>4, <1>7, <2>1, <3>1, SnapKept
    <2>5. ReaderOk(g)'
      <3>1. (Reading(g)' <=> Reading(g)) /\ (InLog(g)' <=> InLog(g))
        BY <2>1 DEF InLog, Reading
      <3> QED
        BY <1>9, <2>1, <2>2, <2>3, <2>4, <3>1 DEF ReaderOk
    <2>6. WriterOk(g)'
      BY <1>3, NoWriter
    <2>7. CopierOk(g)'
      BY <1>5, <2>1 DEF CopierOk, Copies
    <2> QED
      BY <1>7, <2>1, <2>5, <2>6, <2>7 DEF Idle
  <1>20. WriterOk(h)' /\ CopierOk(h)'
    BY <1>3, <1>10, NoWriter DEF CopierOk
  <1>21. IndexOk'
    BY <1>14, <1>17, <1>18, <1>19, <1>20 DEF IndexOk
  <1>22. Idle'
    BY <1>10, <1>19 DEF Idle
  <1> QED
    BY <1>5, <1>9, <1>12, <1>13, <1>21, <1>22 DEF DataInv, Lost

(***************************************************************************)
(* Crashes.                                                                *)
(***************************************************************************)
LEMMA GoneIs ==
    ASSUME TypeOK, Gone
    PROVE  /\ shm.valid /\ ~shm'.valid /\ Idle' /\ IndexOk'
           /\ TypeShm' /\ TypeOwn' /\ TypeMark' /\ TypeMin' /\ TypeCkpt' /\ TypeTxns' /\ TypeCommits'
           /\ base' \in 0 .. MaxTxns /\ crashes' \in 0 .. MaxCrashes
           /\ UNCHANGED <<txns, commits, base>>
  <1>1. TypeParts
    BY TypeIs
  <1>2. TypeShm' /\ ~shm'.valid
    <2>1. [f \in Frames |-> 0] \in [Frames -> 0 .. NPages]
      OBVIOUS
    <2>2. [i \in Slots |-> NotUsed] \in [Slots -> 0 .. NotUsed]
      BY DEF NotUsed
    <2> QED
      BY <2>1, <2>2, SomeTypes DEF Gone, TypeShm
  <1>3. TypeOwn' /\ TypeMark' /\ TypeMin' /\ Idle'
    BY SomeTypes DEF Gone, TypeOwn, TypeMark, TypeMin, Idle
  <1>4. TypeCkpt'
    BY DEF Gone, NoCkpt, TypeCkpt
  <1>5. TypeTxns' /\ TypeCommits' /\ base' \in 0 .. MaxTxns /\ UNCHANGED <<txns, commits, base>>
    BY <1>1 DEF Gone, TypeParts, TypeTxns, TypeCommits, TypeCounts
  <1>6. crashes' \in 0 .. MaxCrashes
    BY <1>1 DEF Gone, TypeParts, TypeCounts
  <1> QED
    BY <1>2, <1>3, <1>4, <1>5, <1>6 DEF Gone, IndexOk

LEMMA PresentLess ==
    ASSUME TypeOK, NEW n \in Nat, NEW m \in Nat, m <= n, Present(n)
    PROVE  Present(m)
  <1>1. base \in Nat /\ Len(commits) \in Nat
    BY CountsAre
  <1>2. \A f : Has(f, n) => Has(f, m)
    BY <1>1 DEF Has
  <1> QED
    BY <1>1, <1>2 DEF Present

LEMMA CrashData == ASSUME IInv, IInv', DataInv, Crash PROVE DataInv'
  <1>1. Gone /\ kept' = shm.hdr.at /\ UNCHANGED <<log, db, safe>>
    BY DEF Crash, files
  <1>2. TypeOK /\ TypeParts /\ FilesOk
    BY DataIs, TypeIs
  <1>3. /\ shm.valid /\ ~shm'.valid /\ Idle' /\ IndexOk'
        /\ TypeShm' /\ TypeOwn' /\ TypeMark' /\ TypeMin' /\ TypeCkpt' /\ TypeTxns' /\ TypeCommits'
        /\ base' \in 0 .. MaxTxns /\ crashes' \in 0 .. MaxCrashes
        /\ UNCHANGED <<txns, commits, base>>
    BY <1>1, <1>2, GoneIs
  <1>4. Published /\ shm.hdr.at \in 0 .. MaxTxns /\ shm.hdr.at \in Nat /\ shm.hdr.at <= Len(commits)
        /\ Len(commits) \in Nat /\ txns \in Nat
    BY <1>2, <1>3, DataIs, AtIs, ShmIs, CountsAre
  <1>5. TypeOK'
    <2>1. TypeLog' /\ TypeDb' /\ TypeSafe' /\ TypeCounts'
      BY <1>1, <1>2, <1>3, <1>4 DEF TypeParts, TypeLog, TypeDb, TypeSafe, TypeCounts
    <2>2. TypeParts'
      BY <1>3, <2>1 DEF TypeParts
    <2>3. (IInv /\ TypeParts => TypeOK)'
      BY TypeOf, PTL
    <2> QED
      BY <2>2, <2>3
  <1>6. FilesOk'
    BY <1>1, <1>2, <1>3, <1>4, FilesKept
  <1>7. Lost'
    <2>1. PICK a \in Nat, n \in Nat : a = shm.hdr.at /\ n = Len(commits)
      BY <1>4
    <2>2. Present(n) /\ Present(a)
      BY <1>2, <1>4, <2>1, PresentLess DEF Published
    <2>3. \A m : Present(m)' <=> Present(m)
      BY <1>1, <1>3 DEF Present, LogCommit, Has
    <2>4. Present(kept)' /\ Present(Len(commits))'
      BY <1>1, <1>3, <2>1, <2>2, <2>3
    <2> QED
      BY <2>4 DEF Lost
  <1> QED
    BY <1>3, <1>5, <1>6, <1>7 DEF DataInv

\* One version of each frame and page is left.
Settles ==
    /\ TypeLog' /\ log'.salt = log.salt
    /\ \A f \in Frames : /\ safe'.frame[f] = {log'.frame[f]}
                         /\ log'.frame[f] \in safe.frame[f] \cup {NoFrame}
                         /\ safe.frame[f] = {log.frame[f]} => log'.frame[f] = log.frame[f]
    /\ TypeDb' /\ TypeSafe'
    /\ \A p \in Pages : db'[p] \in safe.page[p] /\ safe'.page[p] = {db'[p]}
    /\ UNCHANGED <<safe.at, commits, base, txns>>

LEMMA PowerLossIs == ASSUME TypeOK, PowerLoss PROVE Settles
  <1>1. PICK frame \in [Frames -> {NoFrame} \cup UNION {safe.frame[f] : f \in Frames}],
             page \in [Pages -> UNION {safe.page[p] : p \in Pages}] :
         /\ \A f \in Frames :
              \/ frame[f] \in safe.frame[f]
              \/ frame[f] = NoFrame /\ Cardinality(safe.frame[f]) > 1
         /\ \A p \in Pages : page[p] \in safe.page[p]
         /\ log' = [log EXCEPT !.frame = frame]
         /\ db' = page
         /\ safe' = [safe EXCEPT !.frame = [f \in Frames |-> {frame[f]}],
                                 !.page = [p \in Pages |-> {page[p]}]]
    BY Zenon DEF PowerLoss
  <1>2. TypeLog /\ TypeSafe /\ TypeDb
    BY TypeIs DEF TypeParts
  <1>3. \A f \in Frames : frame[f] \in Frame
    <2> SUFFICES ASSUME NEW f \in Frames PROVE frame[f] \in Frame
      OBVIOUS
    <2>1. safe.frame[f] \subseteq Frame /\ NoFrame \in Frame
      BY FrameAt, NoFrameIs
    <2> QED
      BY <1>1, <2>1
  <1>4. frame \in [Frames -> Frame]
    BY <1>3
  <1>5. TypeLog' /\ log'.salt = log.salt /\ log'.frame = frame
    BY <1>1, <1>2, <1>4 DEF TypeLog
  <1>6. \A p \in Pages : page[p] \in 0 .. Torn
    BY <1>1, <1>2 DEF TypeSafe
  <1>7. TypeDb' /\ db' = page
    <2>1. page \in [Pages -> 0 .. Torn]
      BY <1>6
    <2> QED
      BY <1>1, <2>1 DEF TypeDb
  <1>8. PICK fr, pg : fr = [f \in Frames |-> {frame[f]}] /\ pg = [p \in Pages |-> {page[p]}]
    OBVIOUS
  <1>9. fr \in [Frames -> SUBSET Frame] /\ pg \in [Pages -> SUBSET (0 .. Torn)]
    BY <1>3, <1>6, <1>8
  <1>10. safe' = [safe EXCEPT !.frame = fr, !.page = pg]
    BY <1>1, <1>8
  <1>11. TypeSafe' /\ safe'.frame = fr /\ safe'.page = pg /\ safe'.at = safe.at
    BY <1>2, <1>9, <1>10 DEF TypeSafe
  <1>12. ASSUME NEW f \in Frames
         PROVE  /\ safe'.frame[f] = {log'.frame[f]}
                /\ log'.frame[f] \in safe.frame[f] \cup {NoFrame}
                /\ safe.frame[f] = {log.frame[f]} => log'.frame[f] = log.frame[f]
    <2>1. safe'.frame[f] = {frame[f]} /\ log'.frame[f] = frame[f]
      BY <1>5, <1>8, <1>11
    <2>2. ASSUME safe.frame[f] = {log.frame[f]} PROVE frame[f] = log.frame[f]
      <3>1. PICK x : x = log.frame[f]
        OBVIOUS
      <3>2. Cardinality({x}) = 1
        BY FS_Singleton
      <3>3. ~(Cardinality(safe.frame[f]) > 1)
        BY <2>2, <3>1, <3>2
      <3> QED
        BY <1>1, <2>2, <3>3
    <2> QED
      BY <1>1, <2>1, <2>2
  <1>13. \A p \in Pages : db'[p] \in safe.page[p] /\ safe'.page[p] = {db'[p]}
    BY <1>1, <1>7, <1>8, <1>11
  <1>14. UNCHANGED <<commits, base, txns>>
    BY DEF PowerLoss, Gone
  <1> QED
    BY <1>5, <1>7, <1>11, <1>12, <1>13, <1>14 DEF Settles

\* What is synced stays.
LEMMA SettlesStable ==
    ASSUME Settles, NEW f \in Frames, StableCommit(f)
    PROVE  /\ StableCommit(f)' /\ log'.frame[f] = log.frame[f]
           /\ \A p : Absent(log'.frame, f, p) <=> Absent(log.frame, f, p)
  <1>1. \A j \in 1 .. f : j \in Frames
    BY DEF Frames
  <1>2. \A j \in 1 .. f : log'.frame[j] = log.frame[j] /\ safe'.frame[j] = {log'.frame[j]}
    BY <1>1 DEF Settles, StableCommit
  <1>3. f \in Nat /\ f \in 1 .. f
    BY DEF Frames
  <1>4. /\ \A s : Chained(log'.frame, f, s) <=> Chained(log.frame, f, s)
        /\ \A p : Absent(log'.frame, f, p) <=> Absent(log.frame, f, p)
    BY <1>2, <1>3, ChainSame
  <1>5. PICK s : s = log.salt /\ s = log'.salt
    BY DEF Settles
  <1>6. Chained(log'.frame, f, s) /\ log.frame[f].commit
    BY <1>4, <1>5 DEF StableCommit, LogCommit
  <1>7. LogCommit(f)'
    BY <1>2, <1>3, <1>5, <1>6 DEF LogCommit
  <1> QED
    BY <1>2, <1>3, <1>4, <1>7 DEF StableCommit

LEMMA SettlesFiles ==
    ASSUME TypeOK, FilesOk, Settles
    PROVE  FilesOk' /\ Present(safe.at)'
  <1>1. Versions'
    <2>1. ASSUME NEW f \in Frames
          PROVE  /\ safe'.frame[f] \subseteq safe.frame[f] \cup {NoFrame}
                 /\ log'.frame[f] \in safe'.frame[f]
                 /\ IsFiniteSet(safe'.frame[f])
      <3>1. PICK x : x = log'.frame[f]
        OBVIOUS
      <3>2. IsFiniteSet({x})
        BY FS_Singleton
      <3>3. safe'.frame[f] = {x}
        BY <3>1 DEF Settles
      <3> QED
        BY <3>1, <3>2, <3>3 DEF Settles
    <2>2. txns' = txns
      BY DEF Settles
    <2> QED
      BY <2>1, <2>2, NoFrameVersions DEF FilesOk
  <1>2. Committed'
    BY DEF FilesOk, Committed, Settles
  <1>3. \A c, p : Content(c, p)' = Content(c, p)
    BY DEF Content, Settles
  <1>4. PICK b : b = base /\ b = base'
    BY DEF Settles
  <1>5. Genuine'
    <2>1. PICK s : s = log.salt /\ s = log'.salt
      BY DEF Settles
    <2> SUFFICES ASSUME NEW k \in Frames, NEW g, Outcome(g, k, log.salt)', g[k].commit
                 PROVE  \E n \in base' + 1 .. Len(commits') : Holds(g, k, n)'
      BY DEF Genuine
    <2>2. Outcome(g, k, s)' /\ \A i \in 1 .. k : i \in Frames
      BY <2>1 DEF Outcome, Frames
    <2>3. \A i \in 1 .. k : g[i] \in safe'.frame[i] => g[i] \in safe.frame[i] \cup {NoFrame}
      BY <2>2 DEF Settles
    <2>4. Outcome(g, k, s) /\ g \in [1 .. k -> AllFrames]
      BY <2>2, <2>3, OutcomeKept
    <2>5. PICK n \in base + 1 .. Len(commits) : Holds(g, k, n)
      BY <2>1, <2>4 DEF FilesOk, Genuine
    <2>6. \A p : Content(base, p)' = Content(base, p)
      BY <1>3, <1>4
    <2>7. Holds(g, k, n)' /\ n \in base' + 1 .. Len(commits')
      BY <1>3, <2>5, <2>6 DEF Holds, Settles
    <2> QED
      BY <2>7
  <1>6. Paged'
    <2>1. ASSUME NEW p \in Pages, NEW x \in safe'.page[p]
          PROVE  \/ x = Content(b, p)'
                 \/ \E f \in Frames : StableCommit(f)' /\ ~Absent(log'.frame, f, p)
      <3>1. x \in safe.page[p]
        BY <2>1 DEF Settles
      <3>2. CASE x = Content(base, p)
        BY <1>3, <1>4, <3>2
      <3>3. CASE x # Content(base, p)
        <4>1. PICK f \in Frames : StableCommit(f) /\ ~Absent(log.frame, f, p)
          BY <3>1, <3>3 DEF FilesOk, Paged
        <4>2. StableCommit(f)' /\ ~Absent(log'.frame, f, p)
          BY <4>1, SettlesStable
        <4> QED
          BY <4>2
      <3> QED
        BY <3>2, <3>3
    <2>2. \A p \in Pages : db'[p] \in safe'.page[p]
      BY DEF Settles
    <2> QED
      BY <1>4, <2>1, <2>2 DEF Paged
  <1>7. Stable(safe.at)' /\ Present(safe.at)'
    <2>1. PICK n : n = safe.at /\ n = safe'.at
      BY DEF Settles
    <2>2. CASE n <= base
      BY <2>1, <2>2 DEF Stable, Present, Settles
    <2>3. CASE ~(n <= base)
      <3>1. PICK f \in Frames : StableCommit(f) /\ Has(f, n)
        BY <2>1, <2>3 DEF FilesOk, Stable
      <3>2. StableCommit(f)' /\ log'.frame[f] = log.frame[f]
        BY <3>1, SettlesStable
      <3>3. Has(f, n)'
        BY <3>1, <3>2 DEF Has, Settles
      <3>4. Stable(n)' /\ Present(n)'
        BY <3>2, <3>3 DEF Stable, Present, StableCommit
      <3> QED
        BY <2>1, <3>4
    <2> QED
      BY <2>2, <2>3
  <1> QED
    BY <1>1, <1>2, <1>5, <1>6, <1>7 DEF FilesOk

LEMMA PowerLossData == ASSUME IInv, IInv', DataInv, PowerLoss PROVE DataInv'
  <1>1. Gone /\ kept' = safe.at
    BY DEF PowerLoss
  <1>2. TypeOK /\ TypeParts /\ FilesOk
    BY DataIs, TypeIs
  <1>3. /\ ~shm'.valid /\ Idle' /\ IndexOk'
        /\ TypeShm' /\ TypeOwn' /\ TypeMark' /\ TypeMin' /\ TypeCkpt' /\ TypeTxns' /\ TypeCommits'
        /\ base' \in 0 .. MaxTxns /\ crashes' \in 0 .. MaxCrashes
    BY <1>1, <1>2, GoneIs
  <1>4. Settles
    BY <1>2, PowerLossIs
  <1>5. FilesOk' /\ Present(safe.at)'
    BY <1>2, <1>4, SettlesFiles
  <1>6. TypeOK'
    <2>1. safe.at \in 0 .. MaxTxns
      BY <1>2 DEF TypeParts, TypeSafe
    <2>2. TypeLog' /\ TypeDb' /\ TypeSafe' /\ TypeCounts'
      BY <1>1, <1>3, <1>4, <2>1 DEF Settles, TypeCounts
    <2>3. TypeParts'
      BY <1>3, <2>2 DEF TypeParts
    <2>4. (IInv /\ TypeParts => TypeOK)'
      BY TypeOf, PTL
    <2> QED
      BY <2>3, <2>4
  <1>7. Lost'
    <2>1. PICK n : n = safe.at /\ n = safe'.at /\ n = kept'
      BY <1>1, <1>4 DEF Settles
    <2>2. Present(n)'
      BY <1>5, <2>1
    <2>3. Present(kept)'
      BY <2>1, <2>2
    <2> QED
      BY <1>4, <2>3 DEF Lost, Settles
  <1> QED
    BY <1>3, <1>5, <1>6, <1>7 DEF DataInv

(***************************************************************************)
(* Recovery.                                                               *)
(***************************************************************************)

\* Up to last the log counts, which has the first at commits.
Recovers(last, at) ==
    /\ last \in 0 .. MaxFrames /\ at \in base .. Len(commits) /\ at \in 0 .. MaxTxns
    /\ \A f \in Frames : LogCommit(f) => f <= last
    /\ last = 0 => at = base
    /\ last > 0 => /\ LogCommit(last) /\ commits[at].txn = log.frame[last].txn
                   /\ base < at /\ Holds(log.frame, last, at)
    /\ TypeShm' /\ shm'.valid /\ shm'.nBackfill = 0
    /\ shm'.hdr.mx = last /\ shm'.hdr.salt = log.salt /\ shm'.hdr.at = at
    /\ \A f \in 1 .. last : shm'.index[f] = log.frame[f].page
    /\ TypeCommits' /\ Len(commits') = at /\ \A i \in 1 .. at : commits'[i] = commits[i]
    /\ UNCHANGED <<log, db, safe, pc, own, slot, mark, min, writer, todo, ckpt, txns, base, kept, crashes>>

LEMMA RecoverAt ==
    ASSUME TypeOK, FilesOk, NEW last \in Frames, LogCommit(last)
    PROVE  LET at == CHOOSE i \in 1 .. Len(commits) : commits[i].txn = log.frame[last].txn IN
           /\ at \in 1 .. Len(commits) /\ at \in 0 .. MaxTxns /\ commits[at].txn = log.frame[last].txn
           /\ base < at /\ Holds(log.frame, last, at)
  <1> DEFINE at == CHOOSE i \in 1 .. Len(commits) : commits[i].txn = log.frame[last].txn
  <1>1. Versions /\ Committed /\ Genuine /\ Len(commits) \in Nat /\ base \in Nat
    BY CountsAre DEF FilesOk
  <1>2. PICK n \in base + 1 .. Len(commits) : Holds(log.frame, last, n)
    BY <1>1, CommitOf
  <1>3. n \in 1 .. Len(commits) /\ commits[n].txn = log.frame[last].txn
    BY <1>1, <1>2 DEF Holds
  <1>4. at \in 1 .. Len(commits) /\ commits[at].txn = log.frame[last].txn
    BY <1>3
  <1> HIDE DEF at
  <1>5. at > base /\ Holds(log.frame, last, at)
    BY <1>1, <1>4, CommitIs
  <1>6. at \in 0 .. MaxTxns
    <2>1. at <= commits[at].txn /\ commits[at].txn \in 1 .. MaxTxns
      BY <1>1, <1>4, CommitAt DEF Committed
    <2> QED
      BY <1>1, <1>4, <2>1
  <1>7. base < at
    BY <1>1, <1>4, <1>5
  <1> QED
    BY <1>4, <1>5, <1>6, <1>7 DEF at

LEMMA RecoverIs ==
    ASSUME IInv, DataInv, Recover
    PROVE  \E last, at : Recovers(last, at)
  <1> DEFINE valid == {f \in Frames : \A g \in 1 .. f : Follows(g)}
             S == {0} \cup {f \in valid : log.frame[f].commit}
             index == [f \in Frames |-> IF f \in valid THEN log.frame[f].page ELSE 0]
  <1>1. PICK last : last = Greatest(S)
    OBVIOUS
  <1>2. PICK at : at = IF last = 0 THEN base
                       ELSE CHOOSE i \in 1 .. Len(commits) : commits[i].txn = log.frame[last].txn
    OBVIOUS
  <1>3. PICK m : m = [i \in Slots |-> IF i = 1 /\ last > 0 THEN last ELSE NotUsed]
    OBVIOUS
  <1>4. PICK x : x = index
    OBVIOUS
  <1>5. /\ shm' = [valid |-> TRUE, hdr |-> [mx |-> last, salt |-> log.salt, at |-> at],
                   index |-> x, nBackfill |-> 0, mark |-> m]
        /\ commits' = SubSeq(commits, 1, at)
    BY <1>1, <1>2, <1>3, <1>4 DEF Recover
  <1>6. UNCHANGED <<log, db, safe, pc, own, slot, mark, min, writer, todo, ckpt, txns, base, kept, crashes>>
    BY DEF Recover, files, handles
  <1>7. TypeOK /\ TypeParts /\ FilesOk /\ Committed /\ base \in Nat /\ Len(commits) \in Nat
    BY DataIs, TypeIs, CountsAre DEF FilesOk
  <1>8. ASSUME NEW f \in Frames PROVE f \in valid <=> Chained(log.frame, f, log.salt)
    BY <1>8 DEF Follows, Chained
  <1>9. S = {0} \cup {f \in Frames : LogCommit(f)}
    BY <1>8 DEF LogCommit
  <1>10. S \in SUBSET (0 .. MaxFrames) /\ S # {} /\ MaxFrames \in Nat
    BY <1>9 DEF Frames
  <1> HIDE DEF S
  <1>11. last \in S /\ \A y \in S : y <= last
    BY <1>1, <1>10, GreatestIs
  <1>12. /\ last \in 0 .. MaxFrames
         /\ \A f \in Frames : LogCommit(f) => f <= last
         /\ last > 0 => last \in Frames /\ LogCommit(last)
    BY <1>9, <1>10, <1>11 DEF Frames
  <1>13. /\ at \in base .. Len(commits) /\ at \in 0 .. MaxTxns
         /\ last = 0 => at = base
         /\ last > 0 => /\ commits[at].txn = log.frame[last].txn
                        /\ base < at /\ Holds(log.frame, last, at)
    <2>1. CASE last = 0
      <3>1. at = base /\ base \in 0 .. MaxTxns /\ base <= Len(commits)
        BY <1>2, <1>7, <2>1 DEF TypeParts, TypeCounts, Committed
      <3> QED
        BY <1>7, <2>1, <3>1
    <2>2. CASE last # 0
      <3>1. last > 0 /\ last \in Frames /\ LogCommit(last)
        BY <1>12, <2>2
      <3>2. /\ at \in 1 .. Len(commits) /\ at \in 0 .. MaxTxns
            /\ commits[at].txn = log.frame[last].txn
            /\ base < at /\ Holds(log.frame, last, at)
        BY <1>2, <1>7, <2>2, <3>1, RecoverAt
      <3> QED
        BY <1>7, <2>2, <3>2
    <2> QED
      BY <2>1, <2>2
  <1>14. x \in [Frames -> 0 .. NPages]
    <2>1. ASSUME NEW f \in Frames PROVE log.frame[f].page \in 0 .. NPages
      <3>1. log.frame[f].page \in Pages \cup {0}
        BY <1>7, FrameAt, FrameIs
      <3> QED
        BY <3>1 DEF Pages
    <2> QED
      BY <1>4, <2>1
  <1>15. ASSUME NEW f \in 1 .. last PROVE x[f] = log.frame[f].page
    <2>1. last > 0 /\ f \in Frames /\ last \in Nat
      BY <1>12 DEF Frames
    <2>2. Chained(log.frame, last, log.salt)
      BY <1>12, <2>1 DEF LogCommit
    <2>3. Chained(log.frame, f, log.salt)
      BY <2>1, <2>2, ChainShorter
    <2> QED
      BY <1>4, <1>8, <2>1, <2>3
  <1>16. m \in [Slots -> 0 .. NotUsed]
    BY <1>3, <1>12 DEF NotUsed
  <1>17. TypeShm' /\ shm'.valid /\ shm'.nBackfill = 0
         /\ shm'.hdr.mx = last /\ shm'.hdr.salt = log.salt /\ shm'.hdr.at = at
         /\ shm'.index = x
    <2>1. log.salt \in Nat
      BY <1>7 DEF TypeParts, TypeLog
    <2>2. [mx |-> last, salt |-> log.salt, at |-> at] \in Hdr
      BY <1>12, <1>13, <2>1 DEF Hdr
    <2> QED
      BY <1>5, <1>14, <1>16, <2>2 DEF TypeShm
  <1>18. TypeCommits' /\ Len(commits') = at /\ \A i \in 1 .. at : commits'[i] = commits[i]
    <2> DEFINE C == [txn : 1 .. MaxTxns, pages : SUBSET Pages]
    <2>1. commits \in Seq(C)
      BY <1>7 DEF TypeParts, TypeCommits
    <2>2. at \in 0 .. Len(commits)
      BY <1>7, <1>13
    <2> HIDE DEF C
    <2>3. SubSeq(commits, 1, at) \in Seq(C)
      <3>1. \A i \in 1 .. at : i \in 1 .. Len(commits)
        BY <1>7, <2>2
      <3> QED
        BY <1>7, <2>1, <2>2, <3>1
    <2>4. Len(SubSeq(commits, 1, at)) = at /\ \A i \in 1 .. at : SubSeq(commits, 1, at)[i] = commits[i]
      BY <1>7, <2>1, <2>2
    <2> QED
      BY <1>5, <2>3, <2>4 DEF C, TypeCommits
  <1> QED
    BY <1>6, <1>12, <1>13, <1>15, <1>17, <1>18 DEF Recovers

\* No commit the log has is behind the last that counts.
LEMMA RecoversAll ==
    ASSUME TypeOK, FilesOk, NEW last, NEW at, Recovers(last, at), NEW f \in Frames, LogCommit(f),
           NEW j \in 1 .. Len(commits), commits[j].txn = log.frame[f].txn
    PROVE  j <= at /\ j <= Len(commits')
  <1>1. Versions /\ Committed /\ base \in Nat /\ Len(commits) \in Nat
    BY CountsAre DEF FilesOk
  <1>2. /\ last \in 0 .. MaxFrames /\ f <= last /\ at \in base .. Len(commits) /\ Len(commits') = at
        /\ last > 0 => LogCommit(last) /\ commits[at].txn = log.frame[last].txn /\ base < at
    BY DEF Recovers
  <1>3. last \in Frames /\ f \in 1 .. last /\ last \in 1 .. last /\ last > 0
    BY <1>2 DEF Frames
  <1>4. log.frame[f].txn <= log.frame[last].txn
    BY <1>1, <1>2, <1>3, LogRises DEF LogCommit
  <1>5. at \in 1 .. Len(commits)
    BY <1>1, <1>2, <1>3
  <1>6. j <= at
    BY <1>1, <1>2, <1>3, <1>4, <1>5, CommitsRise
  <1> QED
    BY <1>2, <1>6

LEMMA RecoversPresent ==
    ASSUME TypeOK, FilesOk, NEW last, NEW at, Recovers(last, at), NEW n \in Nat
    PROVE  /\ Present(n) => n <= at
           /\ Stable(n) => Stable(n)'
  <1>1. base \in Nat /\ Len(commits) \in Nat /\ at \in base .. Len(commits)
    BY CountsAre DEF Recovers
  <1>2. CASE n <= base
    BY <1>1, <1>2 DEF Stable, Recovers
  <1>3. CASE ~(n <= base)
    <2>1. ASSUME NEW f \in Frames, LogCommit(f), Has(f, n)
          PROVE  n <= at /\ Has(f, n)'
      <3>1. PICK j \in n .. Len(commits) : commits[j].txn = log.frame[f].txn
        BY <2>1 DEF Has
      <3>2. j \in 1 .. Len(commits)
        BY <1>1, <1>3, <3>1
      <3>3. j <= at
        BY <2>1, <3>1, <3>2, RecoversAll
      <3>4. j \in n .. Len(commits') /\ j \in 1 .. at
        BY <1>1, <3>1, <3>2, <3>3 DEF Recovers
      <3>5. commits'[j].txn = log'.frame[f].txn
        BY <3>1, <3>4 DEF Recovers
      <3> QED
        BY <1>1, <3>1, <3>3, <3>4, <3>5 DEF Has
    <2>2. \A f \in Frames : StableCommit(f) => StableCommit(f)' /\ LogCommit(f)
      BY DEF StableCommit, LogCommit, Recovers
    <2> QED
      BY <1>3, <2>1, <2>2 DEF Present, Stable
  <1> QED
    BY <1>2, <1>3

LEMMA RecoversContent ==
    ASSUME TypeOK, NEW last, NEW at, Recovers(last, at), NEW c \in 0 .. at, NEW p
    PROVE  Content(c, p)' = Content(c, p)
  <1>1. c \in Nat /\ \A i \in 1 .. c : i \in 1 .. at
    BY DEF Recovers
  <1>2. \A i \in 1 .. c : commits'[i] = commits[i]
    BY <1>1 DEF Recovers
  <1> QED
    BY <1>1, <1>2, ContentKept

LEMMA RecoversFiles ==
    ASSUME TypeOK, FilesOk, Lost, ~shm.valid, NEW last, NEW at, Recovers(last, at)
    PROVE  FilesOk'
  <1>1. /\ Versions /\ Committed /\ Genuine /\ Paged /\ Stable(safe.at) /\ base \in Nat
        /\ Len(commits) \in Nat /\ safe.at \in Nat
    BY CountsAre, FilesAre DEF FilesOk
  <1>2. /\ UNCHANGED <<log, db, safe, txns, base>> /\ at \in base .. Len(commits)
        /\ Len(commits') = at /\ \A i \in 1 .. at : commits'[i] = commits[i]
    BY DEF Recovers
  <1>3. Versions'
    BY <1>1, <1>2 DEF Versions
  <1>4. Committed'
    <2>1. \A i \in 1 .. at : i \in 1 .. Len(commits) /\ \A j \in 1 .. i - 1 : j \in 1 .. at
      BY <1>1, <1>2
    <2> QED
      BY <1>1, <1>2, <2>1 DEF Committed
  <1>5. PICK b \in 0 .. at : b = base /\ b = base'
    BY <1>1, <1>2
  <1>6. \A p : Content(base, p)' = Content(base, p)
    <2>1. \A p : Content(b, p)' = Content(b, p)
      BY RecoversContent
    <2> QED
      BY <1>5, <2>1
  <1>7. Genuine'
    <2>1. PICK s : s = log.salt /\ s = log'.salt
      BY <1>2
    <2> SUFFICES ASSUME NEW k \in Frames, NEW g, Outcome(g, k, log.salt)', g[k].commit
                 PROVE  \E n \in base' + 1 .. Len(commits') : Holds(g, k, n)'
      BY DEF Genuine
    <2>2. Outcome(g, k, s)' /\ \A i \in 1 .. k : i \in Frames
      BY <2>1 DEF Outcome, Frames
    <2>3. \A i \in 1 .. k : g[i] \in safe'.frame[i] => g[i] \in safe.frame[i] \cup {NoFrame}
      BY <1>2
    <2>4. Outcome(g, k, s) /\ g \in [1 .. k -> AllFrames]
      BY <2>2, <2>3, OutcomeKept
    <2>5. PICK n \in base + 1 .. Len(commits) : Holds(g, k, n)
      BY <1>1, <2>1, <2>4 DEF Genuine
    <2>6. n <= at
      <3>1. CASE Present(Len(commits))
        <4>1. Len(commits) <= at
          BY <1>1, <3>1, RecoversPresent
        <4> QED
          BY <1>1, <1>2, <2>5, <4>1
      <3>2. CASE ~Present(Len(commits))
        <4>1. \A f \in Frames : safe.frame[f] = {log.frame[f]}
          BY <3>2 DEF Lost
        <4>2. \A i \in 1 .. k : g[i] = log.frame[i]
          <5>1. ASSUME NEW i \in 1 .. k PROVE i \in Frames /\ g[i] \in safe.frame[i]
            BY <2>4, OutcomeIs
          <5>2. ASSUME NEW i \in 1 .. k PROVE g[i] = log.frame[i]
            BY <4>1, <5>1
          <5> QED
            BY <5>2
        <4>3. k \in Nat /\ k \in 1 .. k
          BY DEF Frames
        <4>4. Chained(log.frame, k, s)
          BY <2>4, <4>2, <4>3, ChainSame DEF Outcome
        <4>5. LogCommit(k)
          BY <2>1, <4>2, <4>3, <4>4 DEF LogCommit
        <4>6. n \in 1 .. Len(commits) /\ commits[n].txn = log.frame[k].txn
          BY <1>1, <2>5, <4>2, <4>3 DEF Holds
        <4> QED
          BY <4>5, <4>6, RecoversAll
      <3> QED
        BY <3>1, <3>2
    <2>7. n \in 0 .. at /\ n \in 1 .. at /\ n \in base' + 1 .. Len(commits')
      BY <1>1, <1>2, <2>5, <2>6
    <2>8. \A p : Content(n, p)' = Content(n, p)
      BY <2>7, RecoversContent
    <2>9. commits'[n] = commits[n]
      BY <1>2, <2>7
    <2>10. Holds(g, k, n)'
      BY <1>6, <2>5, <2>8, <2>9 DEF Holds
    <2> QED
      BY <2>7, <2>10
  <1>8. Paged'
    BY <1>1, <1>2, <1>6 DEF Paged, StableCommit, LogCommit
  <1>9. Stable(safe.at)'
    <2>1. PICK n \in Nat : n = safe.at /\ n = safe'.at
      BY <1>1, <1>2
    <2>2. Stable(n)'
      BY <1>1, <2>1, RecoversPresent
    <2> QED
      BY <2>1, <2>2
  <1> QED
    BY <1>3, <1>4, <1>7, <1>8, <1>9 DEF FilesOk

\* The database lacks at most what the log has.
LEMMA RecoversDb ==
    ASSUME TypeOK, FilesOk, NEW last, NEW at, Recovers(last, at)
    PROVE  DbOk'
  <1>1. Paged /\ base \in Nat /\ at \in base .. Len(commits) /\ last \in 0 .. MaxFrames
    BY CountsAre DEF FilesOk, Recovers
  <1>2. \A p : Content(at, p)' = Content(at, p)
    BY <1>1, RecoversContent
  <1>3. /\ UNCHANGED <<log, db, safe>> /\ shm'.nBackfill = 0 /\ shm'.hdr.mx = last /\ shm'.hdr.at = at
        /\ \A f \in Frames : LogCommit(f) => f <= last
        /\ last = 0 => at = base
        /\ last > 0 => Holds(log.frame, last, at)
    BY DEF Recovers
  <1>4. ASSUME NEW p \in Pages, Absent(log.frame, last, p), NEW x \in safe.page[p]
        PROVE  x = Content(at, p)
    <2>1. x = Content(base, p)
      <3> SUFFICES ASSUME x # Content(base, p) PROVE FALSE
        OBVIOUS
      <3>1. PICK f \in Frames : StableCommit(f) /\ ~Absent(log.frame, f, p)
        BY <1>1, <1>4 DEF Paged
      <3>2. f <= last
        BY <1>3, <3>1 DEF StableCommit
      <3>3. \A i \in 1 .. f : i \in 1 .. last
        BY <1>1, <3>2 DEF Frames
      <3> QED
        BY <1>4, <3>1, <3>3 DEF Absent
    <2>2. Content(at, p) = Content(base, p)
      <3>1. CASE last = 0
        BY <1>3, <3>1
      <3>2. CASE last # 0
        <4>1. last > 0
          BY <1>1, <3>2
        <4> QED
          BY <1>3, <1>4, <4>1 DEF Holds
      <3> QED
        BY <3>1, <3>2
    <2> QED
      BY <2>1, <2>2
  <1>5. ASSUME NEW p \in Pages,
               \A f \in 1 .. shm'.hdr.mx : log'.frame[f].page = p => f <= shm'.nBackfill
        PROVE  db'[p] = Content(at, p)'
    <2>1. \A f \in 1 .. last : ~(f <= 0)
      BY <1>1
    <2>2. Absent(log.frame, last, p)
      BY <1>3, <1>5, <2>1 DEF Absent
    <2>3. db[p] \in safe.page[p]
      BY <1>1 DEF Paged
    <2> QED
      BY <1>2, <1>3, <1>4, <2>2, <2>3
  <1>6. ASSUME NEW p \in Pages, last = 0 PROVE safe'.page[p] = {Content(at, p)'}
    <2>1. Absent(log.frame, last, p)
      BY <1>6 DEF Absent
    <2>2. db[p] \in safe.page[p]
      BY <1>1 DEF Paged
    <2> QED
      BY <1>2, <1>3, <1>4, <2>1, <2>2
  <1> QED
    BY <1>3, <1>5, <1>6 DEF DbOk

LEMMA RecoverData == ASSUME IInv, IInv', DataInv, Recover PROVE DataInv'
  <1>1. PICK last, at : Recovers(last, at)
    BY RecoverIs
  <1>2. ~shm.valid
    BY DEF Recover
  <1>3. TypeOK /\ TypeParts /\ FilesOk /\ Lost /\ Idle /\ base \in Nat /\ kept \in Nat /\ Len(commits) \in Nat
    BY DataIs, TypeIs, CountsAre
  <1>4. /\ UNCHANGED <<log, db, safe, pc, own, slot, mark, min, writer, todo, ckpt, txns, base, kept, crashes>>
        /\ TypeShm' /\ TypeCommits' /\ shm'.valid /\ shm'.hdr.at = at /\ at \in Nat
        /\ at \in base .. Len(commits) /\ Len(commits') = at
        /\ \A i \in 1 .. at : commits'[i] = commits[i]
    BY <1>1, <1>3 DEF Recovers
  <1>5. TypeOK'
    <2>1. TypeParts'
      BY <1>3, <1>4 DEF TypeParts, TypeLog, TypeDb, TypeSafe, TypeOwn, TypeMark, TypeMin, TypeCkpt,
                        TypeTxns, TypeCounts
    <2>2. (IInv /\ TypeParts => TypeOK)'
      BY TypeOf, PTL
    <2> QED
      BY <2>1, <2>2
  <1>6. FilesOk' /\ DbOk'
    BY <1>1, <1>2, <1>3, RecoversFiles, RecoversDb
  <1>7. Published'
    <2>1. kept <= at
      BY <1>1, <1>2, <1>3, RecoversPresent DEF Lost
    <2>2. /\ shm'.hdr.mx = last /\ shm'.hdr.salt = log.salt /\ last \in 0 .. MaxFrames
          /\ last = 0 => at = base
          /\ last > 0 => LogCommit(last) /\ commits[at].txn = log.frame[last].txn /\ base < at
          /\ \A f \in 1 .. last : shm'.index[f] = log.frame[f].page
      BY <1>1 DEF Recovers
    <2>3. last > 0 => LogCommit(last)' /\ commits'[at].txn = log'.frame[last].txn
      <3>1. last > 0 => at \in 1 .. at
        BY <1>3, <1>4, <2>2
      <3> QED
        BY <1>4, <2>2, <3>1 DEF LogCommit
    <2>4. Present(at)'
      <3>1. CASE last = 0
        BY <1>4, <2>2, <3>1 DEF Present
      <3>2. CASE last # 0
        <4>1. last > 0 /\ last \in Frames
          BY <2>2, <3>2 DEF Frames
        <4>2. at \in at .. Len(commits')
          BY <1>4
        <4>3. Has(last, at)'
          BY <2>3, <4>1, <4>2 DEF Has
        <4> QED
          BY <2>3, <4>1, <4>3 DEF Present
      <3> QED
        BY <3>1, <3>2
    <2>5. Present(Len(commits))'
      BY <1>4, <2>4
    <2>6. LogCommit(shm.hdr.mx)' <=> LogCommit(last)'
      BY <2>2
    <2> QED
      BY <1>3, <1>4, <2>1, <2>2, <2>3, <2>5, <2>6 DEF Published
  <1>8. ASSUME NEW h \in Handles PROVE WriterOk(h)' /\ CopierOk(h)' /\ ReaderOk(h)'
    <2>1. pc[h] = "idle" /\ writer = Nobody
      BY <1>2 DEF IInv, Safe, Invalid
    <2>2. own'[h].at <= shm'.hdr.at
      BY <1>3, <1>4, <2>1 DEF Idle
    <2> QED
      BY <1>4, <2>1, <2>2, NoWriter, IdleReader DEF CopierOk
  <1>9. IndexOk'
    BY <1>6, <1>7, <1>8 DEF IndexOk
  <1> QED
    BY <1>3, <1>4, <1>5, <1>6, <1>9 DEF DataInv, Lost, Idle

(***************************************************************************)
(* The invariant holds at first, and always.                               *)
(***************************************************************************)
LEMMA InitTyped == Init => TypeOK
  <1> SUFFICES ASSUME Init PROVE TypeOK
    OBVIOUS
  <1>1. IInv
    BY InitIInv
  <1>2. TypeShm
    BY DEF Init, TypeShm, Hdr, NotUsed
  <1>3. NoFrame \in Frame /\ [mx |-> 0, salt |-> 0, at |-> 0] \in Hdr
    BY NoFrameIs, SomeTypes
  <1>4. shm.hdr = [mx |-> 0, salt |-> 0, at |-> 0]
    BY DEF Init
  <1>5. TypeLog
    BY <1>3 DEF Init, TypeLog
  <1>6. TypeDb /\ TypeSafe
    <2>1. 0 \in 0 .. Torn /\ {0} \in SUBSET (0 .. Torn) /\ 0 \in 0 .. MaxTxns
      BY DEF Torn
    <2>2. {NoFrame} \in SUBSET Frame
      BY <1>3
    <2>3. TypeDb
      BY <2>1 DEF Init, TypeDb
    <2>4. /\ safe = [frame |-> [f \in Frames |-> {NoFrame}], page |-> [p \in Pages |-> {0}], at |-> 0]
      BY DEF Init
    <2> QED
      BY <2>1, <2>2, <2>3, <2>4 DEF TypeSafe
  <1>7. TypeOwn
    BY <1>3, <1>4 DEF Init, TypeOwn
  <1>8. TypeMark /\ TypeMin
    BY DEF Init, TypeMark, TypeMin
  <1>9. TypeCkpt
    BY DEF Init, TypeCkpt, NoCkpt
  <1>10. TypeTxns /\ TypeCommits /\ TypeCounts
    BY DEF Init, TypeTxns, TypeCommits, TypeCounts
  <1> QED
    BY <1>1, <1>2, <1>5, <1>6, <1>7, <1>8, <1>9, <1>10, TypeOf DEF TypeParts

LEMMA InitData == Init => DataInv
  <1> SUFFICES ASSUME Init PROVE DataInv
    OBVIOUS
  <1>1. TypeOK /\ IInv
    BY InitTyped, InitIInv
  <1>2. /\ shm.valid /\ shm.hdr = [mx |-> 0, salt |-> 0, at |-> 0] /\ shm.nBackfill = 0
        /\ log.salt = 0 /\ log.frame = [f \in Frames |-> NoFrame]
        /\ safe.frame = [f \in Frames |-> {NoFrame}] /\ safe.page = [p \in Pages |-> {0}]
        /\ safe.at = 0
    BY DEF Init
  <1>3. /\ db = [p \in Pages |-> 0] /\ commits = <<>> /\ base = 0 /\ kept = 0 /\ txns = 0
        /\ \A h \in Handles : pc[h] = "idle" /\ own[h] = shm.hdr
        /\ writer = Nobody /\ ckpt.by = Nobody
    BY DEF Init, NoCkpt
  <1>4. \A p : Content(0, p) = 0
    <2>1. 1 .. 0 = {}
      OBVIOUS
    <2> QED
      BY <2>1 DEF Content
  <1>5. Versions
    <2>1. IsFiniteSet({NoFrame})
      BY FS_Singleton
    <2>2. NoFrame.txn = 0 /\ NoFrame.prev = 0 /\ NoFrame.commit = FALSE
      BY NoFrameIs
    <2>3. \A f \in Frames : safe.frame[f] = {NoFrame} /\ log.frame[f] = NoFrame
      BY <1>2
    <2>4. \A f \in Frames : log.frame[f] \in safe.frame[f] /\ IsFiniteSet(safe.frame[f])
      BY <2>1, <2>3
    <2>5. \A f \in Frames : \A x \in safe.frame[f] : x.prev <= x.txn /\ x.txn <= txns
      BY <1>3, <2>2, <2>3
    <2>6. \A f \in Frames \ {1} : f - 1 \in Frames
      BY DEF Frames
    <2> QED
      BY <2>2, <2>3, <2>4, <2>5, <2>6 DEF Versions
  <1>6. Committed
    BY <1>3 DEF Committed
  <1>7. Genuine
    <2>1. ASSUME NEW k \in Frames, NEW g, Outcome(g, k, log.salt) PROVE FALSE
      <3>1. k \in 1 .. k
        BY DEF Frames
      <3>2. k \in Frames /\ g[k] \in safe.frame[k] /\ g[k].page # 0
        BY <1>1, <2>1, <3>1, OutcomeIs
      <3>3. g[k] = NoFrame
        BY <1>2, <3>2
      <3> QED
        BY <3>2, <3>3, NoFrameIs
    <2> QED
      BY <2>1 DEF Genuine
  <1>8. Paged
    BY <1>2, <1>3, <1>4 DEF Paged
  <1>9. Stable(safe.at)
    BY <1>2, <1>3 DEF Stable
  <1>10. Published
    <2>1. Present(0)
      BY <1>3 DEF Present
    <2> QED
      BY <1>2, <1>3, <2>1 DEF Published
  <1>11. DbOk
    <2>1. /\ \A p \in Pages : db[p] = Content(shm.hdr.at, p)
          /\ \A p \in Pages : safe.page[p] = {Content(shm.hdr.at, p)}
      BY <1>2, <1>3, <1>4
    <2> QED
      BY <2>1 DEF DbOk
  <1>12. ASSUME NEW h \in Handles PROVE WriterOk(h) /\ CopierOk(h) /\ ReaderOk(h)
    <2>1. pc[h] = "idle" /\ own[h].at <= shm.hdr.at /\ writer # h
      BY <1>2, <1>3
    <2>2. WriterOk(h) /\ CopierOk(h)
      BY <2>1 DEF WriterOk, Appending, CopierOk
    <2>3. ReaderOk(h)
      BY <2>1 DEF ReaderOk, InLog, Reading
    <2> QED
      BY <2>2, <2>3
  <1>13. Idle
    BY <1>2, <1>3 DEF Idle
  <1> QED
    BY <1>1, <1>2, <1>5, <1>6, <1>7, <1>8, <1>9, <1>10, <1>11, <1>12, <1>13
    DEF DataInv, FilesOk, Lost, IndexOk

\* Nothing changes.
LEMMA SameData == ASSUME DataInv, UNCHANGED vars PROVE DataInv'
  <1>1. /\ TypeOK /\ FilesOk /\ Lost /\ Idle
        /\ shm.valid => /\ Published /\ DbOk
                        /\ \A h \in Handles : WriterOk(h) /\ CopierOk(h) /\ ReaderOk(h)
    BY DataIs
  <1>2. UNCHANGED <<shm, log, db, safe, pc, own, slot, mark, min, writer, todo, ckpt, txns, commits,
                    base, kept, crashes>>
    BY DEF vars, files, handles, history
  <1>3. TypeOK'
    BY <1>1, <1>2 DEF TypeOK
  <1>4. FilesOk'
    <2>1. txns \in Nat /\ txns' \in Nat /\ txns <= txns'
      BY <1>1, <1>2, CountsAre
    <2> QED
      BY <1>1, <1>2, <2>1, FilesKept
  <1>5. Lost'
    BY <1>1, <1>2 DEF Lost, Present, LogCommit, Has
  <1>6. Idle'
    BY <1>1, <1>2 DEF Idle
  <1>7. IndexOk'
    <2> SUFFICES ASSUME shm.valid
                 PROVE  Published' /\ DbOk' /\ \A h \in Handles : WriterOk(h)' /\ CopierOk(h)' /\ ReaderOk(h)'
      BY <1>2 DEF IndexOk
    <2>1. Published'
      BY <1>1, <1>2, PublishedKept DEF Pending
    <2>2. DbOk'
      BY <1>1, <1>2 DEF DbOk, Content
    <2>3. \A h \in Handles : WriterOk(h)'
      BY <1>1, <1>2, WriterKept
    <2>4. \A h \in Handles : CopierOk(h)'
      <3>1. Holders(0)' \subseteq Holders(0)
        BY <1>2 DEF Holders
      <3> QED
        BY <1>1, <1>2, <3>1, CopierKept
    <2>5. \A h \in Handles : ReaderOk(h)'
      BY <1>1, <1>2, ReaderKept
    <2> QED
      BY <2>1, <2>2, <2>3, <2>4, <2>5
  <1> QED
    BY <1>3, <1>4, <1>5, <1>6, <1>7 DEF DataInv

LEMMA WriteData == ASSUME IInv, IInv', DataInv, NEW h \in Handles, Write(h) PROVE DataInv'
  BY BeginWriteData, RestartLogData, ResetMarksData, BeginLogData, AppendFrameData, AbortData,
     IndexFramesData, PublishData DEF Write

LEMMA BackfillData == ASSUME IInv, IInv', DataInv, NEW h \in Handles, Backfill(h) PROVE DataInv'
  <1>1. CASE \E mode : Checkpoint(h, mode)
    BY <1>1, CheckpointData
  <1> QED
    BY <1>1, LockWriteData, ReadCkptHdrData, BuildIteratorData, PassSlotData, StartCopyData,
       CopyPageData, CopyFailsData, EndCopyData, DrainData, TruncateData DEF Backfill

LEMMA NextData == ASSUME OwnPassive, IInv, DataInv, [Next]_vars PROVE (IInv /\ DataInv)'
  <1>1. IInv'
    BY NextIInv
  <1>2. CASE UNCHANGED vars
    BY <1>1, <1>2, SameData
  <1>3. ASSUME NEW h \in Handles, Read(h) \/ Write(h) \/ Backfill(h) PROVE DataInv'
    BY <1>1, <1>3, ReadData, WriteData, BackfillData
  <1>4. CASE Crash \/ PowerLoss \/ Recover
    BY <1>1, <1>4, CrashData, PowerLossData, RecoverData
  <1> QED
    BY <1>1, <1>2, <1>3, <1>4 DEF Next

\* What a transaction finds of a page is its last frame in the published log.
LEMMA FindsPage ==
    ASSUME DataInv, shm.valid, NEW k \in 0 .. shm.hdr.mx, NEW lo \in Nat, NEW p \in Pages
    PROVE  IF FindFrame(p, lo, k) = 0 THEN \A f \in 1 .. k : lo <= f => log.frame[f].page # p
           ELSE FindFrame(p, lo, k) \in Frames /\ Latest(log.frame, k, p, FindFrame(p, lo, k))
  <1> DEFINE found == {f \in Frames : lo <= f /\ f <= k /\ shm.index[f] = p}
  <1>1. TypeOK /\ Published
    BY DataIs
  <1>2. shm.hdr.mx \in 0 .. MaxFrames /\ shm.hdr.mx \in Nat
    BY <1>1, ShmIs
  <1>3. k \in Nat /\ k <= MaxFrames
    BY <1>2
  <1>4. \A f \in 1 .. k : f \in Frames /\ shm.index[f] = log.frame[f].page
    BY <1>1, <1>2 DEF Published, Frames
  <1>5. found = {f \in 1 .. k : lo <= f /\ log.frame[f].page = p}
    <2>1. \A f \in Frames : f <= k => f \in 1 .. k
      BY <1>3 DEF Frames
    <2> QED
      BY <1>3, <1>4, <2>1
  <1>6. FindFrame(p, lo, k) = IF found = {} THEN 0 ELSE Greatest(found)
    BY DEF FindFrame
  <1>7. CASE found = {}
    BY <1>5, <1>6, <1>7
  <1>8. CASE found # {}
    <2>1. found \in SUBSET (0 .. k)
      BY <1>5
    <2> HIDE DEF found
    <2>2. Greatest(found) \in found /\ \A y \in found : y <= Greatest(found)
      BY <1>3, <1>8, <2>1, GreatestIs
    <2>3. PICK G \in found : G = Greatest(found) /\ \A y \in found : y <= G
      BY <2>2
    <2>4. G \in 1 .. k /\ lo <= G /\ log.frame[G].page = p
      BY <1>5, <2>3
    <2>5. ASSUME NEW i \in G + 1 .. k PROVE log.frame[i].page # p
      <3>1. i \in 1 .. k /\ lo <= i /\ ~(i <= G)
        BY <1>3, <2>4
      <3> QED
        BY <1>5, <2>3, <3>1
    <2>6. Latest(log.frame, k, p, G) /\ G \in Frames /\ G # 0
      BY <1>4, <2>4, <2>5 DEF Latest
    <2> QED
      BY <1>6, <1>8, <2>3, <2>6
  <1> QED
    BY <1>7, <1>8

LEMMA DataSnapshot == ASSUME IInv, DataInv PROVE Snapshot
  <1> SUFFICES ASSUME NEW h \in Handles, Reading(h), NEW p \in Pages
               PROVE  Reads(h, p) = Content(own[h].at, p)
    BY DEF Snapshot
  <1>1. shm.valid
    BY HasLock DEF Reading
  <1>2. slot[h] # NoSlot /\ SnapOk(h) /\ slot[h] \in 0 .. NoSlot
    BY <1>1, DataIs, ShmIs DEF ReaderOk
  <1>3. CASE slot[h] = 0
    BY <1>2, <1>3 DEF Reads, SnapOk
  <1>4. CASE slot[h] # 0
    <2>1. InLog(h)
      BY <1>2, <1>4 DEF InLog
    <2>2. own[h].mx <= shm.hdr.mx
      BY <2>1 DEF IInv, Safe, Protected
    <2>3. own[h].mx \in Nat /\ shm.hdr.mx \in Nat /\ min[h] \in Nat
      BY DataIs, NumbersAre
    <2>4. PICK k \in 0 .. shm.hdr.mx : k = own[h].mx
      BY <2>2, <2>3
    <2>5. PICK F : F = FindFrame(p, min[h], k)
      OBVIOUS
    <2>6. IF F = 0 THEN \A f \in 1 .. k : min[h] <= f => log.frame[f].page # p
          ELSE F \in Frames /\ Latest(log.frame, k, p, F)
      BY <1>1, <2>3, <2>5, FindsPage
    <2>7. Reads(h, p) = IF F = 0 THEN db[p] ELSE log.frame[F].txn
      BY <1>4, <2>4, <2>5 DEF Reads
    <2> QED
      BY <1>2, <1>4, <2>4, <2>6, <2>7 DEF SnapOk
  <1> QED
    BY <1>3, <1>4

\* Always: the invariant.
LEMMA DataAlways ==
    ASSUME OwnPassive
    PROVE  Spec => [](IInv /\ DataInv)
  <1>1. Init => IInv /\ DataInv
    BY InitIInv, InitData
  <1>2. IInv /\ DataInv /\ [Next]_vars => (IInv /\ DataInv)'
    BY NextData
  <1> QED
    BY <1>1, <1>2, PTL DEF Spec

\* If only the sole writer checkpoints in mode PASSIVE, the variables keep their types: no
\* frame, mark or nBackfill goes past the end of the log (nBackfill + 1 and NotUsed are the
\* most minFrame and a mark can be), a header or a crash tells of no more commits than there
\* were transactions, and a page has only what a transaction wrote, or half of it.
THEOREM TypesHold ==
    ASSUME OwnPassive
    PROVE  Spec => []TypeOK
  <1>1. IInv /\ DataInv => TypeOK
    BY DataIs
  <1> QED
    BY <1>1, DataAlways, PTL

\* If only the sole writer checkpoints in mode PASSIVE, each page a transaction reads
\* (sqlite3WalFindFrame, or the database) is as the commits up to the one it began after left
\* it, for every number of connections, pages, slots, frames and crashes, whatever others
\* append, copy back, begin anew or truncate meanwhile, and whatever a crash or a power loss
\* left for walIndexRecover.
THEOREM SnapshotHolds ==
    ASSUME OwnPassive
    PROVE  Spec => []Snapshot
  <1>1. IInv /\ DataInv => Snapshot
    BY DataSnapshot
  <1> QED
    BY <1>1, DataAlways, PTL

\* If only the sole writer checkpoints in mode PASSIVE, walIndexRecover brings back at least
\* what had been published when the process ended, and at least what had been synced when the
\* power went.
THEOREM NothingIsLost ==
    ASSUME OwnPassive
    PROVE  Spec => []NothingLost
  <1>1. IInv /\ DataInv => NothingLost
    BY DataIs DEF NothingLost, Published
  <1> QED
    BY <1>1, DataAlways, PTL
=============================================================================
