-------------------------------- MODULE Wal ---------------------------------
(***************************************************************************)
(* The write-ahead log WCDB opens every database with (wal.c).             *)
(*                                                                         *)
(* Writers append the pages of a transaction to the log, the last with a   *)
(* commit mark, and publish the new end of the log in the wal-index, a     *)
(* piece of shared memory.  A reader works on the snapshot the header of   *)
(* the wal-index described when its transaction began; it locks a slot     *)
(* whose mark tells how much of the log it may need.  A checkpoint copies  *)
(* the log back into the database as far as these marks allow, and when    *)
(* all of it is there and nobody reads it the next writer begins the log   *)
(* anew, with a new salt.                                                  *)
(*                                                                         *)
(* A step is what happens between two accesses to memory, locks or files   *)
(* that the others share.  The handles belong to one process: when it      *)
(* ends, the wal-index goes with it and is rebuilt from the log.  The log  *)
(* is synced before pages are copied and when it is begun anew, not when a *)
(* transaction commits (PRAGMA synchronous = NORMAL).  A truncation of the *)
(* log is taken to be durable at once.                                     *)
(*                                                                         *)
(* Of a page's content only the transaction that wrote it is kept, of a    *)
(* frame's checksum the frame it follows.  Spilled transactions, closing,  *)
(* page cache, sizes and the exclusive locking mode are left out.          *)
(***************************************************************************)
EXTENDS Naturals, Sequences, FiniteSets

CONSTANTS
    Handles,        \* connections, each used by a thread of its own
    Readers,        \* those that read
    Writers,        \* the readers that also write
    Checkpointers,  \* those that checkpoint
    NPages,         \* pages of the database
    NSlots,         \* WAL_NREADER - 1: slots with a mark
    Modes,          \* modes in which each of these is asked to
    MaxFrames,      \* bound: frames in the log
    MaxTxns,        \* bound: transactions that try to commit
    MaxCrashes,     \* bound: crashes and power losses
    Nobody

ASSUME RolesAssumption ==
    /\ Readers \cup Checkpointers = Handles /\ Writers \subseteq Readers
    /\ Nobody \notin Handles
ASSUME FiniteAssumption == IsFiniteSet(Handles)
ASSUME ModesAssumption ==
    Modes \in [Checkpointers -> SUBSET {"PASSIVE", "FULL", "RESTART", "TRUNCATE"}]
ASSUME BoundsAssumption ==
    /\ NPages \in Nat \ {0} /\ NSlots \in Nat \ {0}
    /\ MaxFrames \in Nat /\ MaxTxns \in Nat /\ MaxCrashes \in Nat

VARIABLES
    shm,     \* the wal-index: header, page of each frame, nBackfill, aReadMark
    log,     \* the log file: salt of its header, frames
    db,      \* the database file
    safe,    \* what a power loss may leave of each frame and page, commits it leaves
    pc,      \* where each handle is
    own,     \* Wal.hdr: the handle's copy of the header
    slot,    \* Wal.readLock: the slot each handle uses
    mark,    \* the mark a handle chose with its slot
    min,     \* Wal.minFrame
    writer,  \* who has WAL_WRITE_LOCK
    todo,    \* the pages of the writer's transaction, and those still to append
    ckpt,    \* who has WAL_CKPT_LOCK, and how far the checkpoint is
    txns,    \* transactions that tried to commit
    commits, \* auxiliary: the committed transactions, in order
    base,    \* auxiliary: how many of them were committed when the log was begun
    kept,    \* auxiliary: how many of them the last crash must not take
    crashes

files == <<log, db, safe>>
handles == <<pc, own, slot, mark, min>>
history == <<commits, base, kept, crashes>>
vars == <<shm, files, handles, writer, todo, ckpt, txns, history>>

Pages == 1 .. NPages
Frames == 1 .. MaxFrames
Slots == 1 .. NSlots
NoSlot == NSlots + 1       \* readLock -1
NotUsed == MaxFrames + 1   \* READMARK_NOT_USED
Torn == MaxTxns + 1        \* a page of which a power loss left half

Hdr == [mx : 0 .. MaxFrames, salt : Nat, at : 0 .. MaxTxns]
NoFrame == [page |-> 0, txn |-> 0, prev |-> 0, salt |-> 0, commit |-> FALSE]
Frame == [page : Pages, txn : 1 .. MaxTxns, prev : 0 .. MaxTxns, salt : Nat, commit : BOOLEAN]
         \cup {NoFrame}

Greatest(S) == CHOOSE x \in S : \A y \in S : y <= x
Least(S) == CHOOSE x \in S : \A y \in S : x <= y

(***************************************************************************)
(* What a page contains.                                                   *)
(***************************************************************************)

\* After the first c commits.
Content(c, p) ==
    LET wrote == {i \in 1 .. c : p \in commits[i].pages} IN
    IF wrote = {} THEN 0 ELSE commits[Greatest(wrote)].txn

\* The last frame of p from lo to hi, or 0.
FindFrameOrNotUsed(p, lo, hi) ==
    LET found == {f \in Frames : lo <= f /\ f <= hi /\ shm.index[f] = p} IN
    IF found = {} THEN NotUsed ELSE Greatest(found)
FindFrame(p, lo, hi) ==
    LET found == {f \in Frames : lo <= f /\ f <= hi /\ shm.index[f] = p} IN
    IF found = {} THEN 0 ELSE Greatest(found)

\* What handle h reads: through slot 0, only the database.
Reads(h, p) ==
    LET f == IF slot[h] = 0 THEN 0 ELSE FindFrame(p, min[h], own[h].mx) IN
    IF f = 0 THEN db[p] ELSE log.frame[f].txn

(***************************************************************************)
(* Locks.  A handle that chose a slot has not locked it yet.               *)
(***************************************************************************)
Holders(i) == {h \in Handles : slot[h] = i /\ pc[h] # "lock"}

\* Somebody holds all slots with a mark alone, to begin the log anew.
Restarting == \E h \in Handles : pc[h] = "reset"

SlotFree(i) == Holders(i) = {} /\ ~Restarting
Unlocked(h) == TRUE
MarkedFree(h) == \A i \in Slots : Holders(i) \subseteq {h}

\* A checkpoint holds slot 0 alone while it copies.
Copying == \E h \in Handles : pc[h] = "copy"

NoTodo == [all |-> {}, left |-> {}]
NoCkpt == [by |-> Nobody, mode |-> "PASSIVE", next |-> 0, upTo |-> 0, left |-> {}]

Init ==
    /\ shm = [valid |-> TRUE, hdr |-> [mx |-> 0, salt |-> 0, at |-> 0],
              index |-> [f \in Frames |-> 0], nBackfill |-> 0,
              mark |-> [i \in Slots |-> NotUsed]]
    /\ log = [salt |-> 0, frame |-> [f \in Frames |-> NoFrame]]
    /\ db = [p \in Pages |-> 0]
    /\ safe = [frame |-> [f \in Frames |-> {NoFrame}], page |-> [p \in Pages |-> {0}],
               at |-> 0]
    /\ pc = [h \in Handles |-> "idle"]
    /\ own = [h \in Handles |-> shm.hdr]
    /\ slot = [h \in Handles |-> NoSlot]
    /\ mark = [h \in Handles |-> 0]
    /\ min = [h \in Handles |-> 0]
    /\ writer = Nobody
    /\ todo = NoTodo
    /\ ckpt = NoCkpt
    /\ txns = 0
    /\ commits = <<>>
    /\ base = 0 /\ kept = 0 /\ crashes = 0

Goto(h, l) == pc' = [pc EXCEPT ![h] = l]

\* Back to idle.  The copy of the header and what goes with it are not looked at
\* again before they are refreshed: they are dropped.
Leave(h) ==
    /\ Goto(h, "idle")
    /\ own' = [own EXCEPT ![h] = [mx |-> 0, salt |-> 0, at |-> 0]]
    /\ slot' = [slot EXCEPT ![h] = NoSlot]
    /\ mark' = [mark EXCEPT ![h] = 0]
    /\ min' = [min EXCEPT ![h] = 0]

\* The log synced.
SyncedLog == [safe EXCEPT !.frame = [f \in Frames |-> {log.frame[f]}], !.at = Len(commits)]

(***************************************************************************)
(* Readers: sqlite3WalBeginReadTransaction.                                *)
(***************************************************************************)

\* walIndexReadHdr.
ReadHdr(h) ==
    /\ pc[h] = "idle" /\ h \in Readers /\ shm.valid
    /\ own' = [own EXCEPT ![h] = shm.hdr]
    /\ Goto(h, "hdr")
    /\ UNCHANGED <<shm, files, slot, mark, min, writer, todo, ckpt, txns, history>>

\* All of the log is in the database: the log can be ignored.  (Not by a writer that
\* has let go of slot 0: useWal.)
MayIgnoreLog(h) == writer # h /\ shm.nBackfill = own[h].mx

LockZero(h) ==
    /\ pc[h] = "hdr" /\ MayIgnoreLog(h) /\ ~Copying
    /\ slot' = [slot EXCEPT ![h] = 0]
    /\ Goto(h, "check0")
    /\ UNCHANGED <<shm, files, own, mark, min, writer, todo, ckpt, txns, history>>

\* Nothing was published since the header was read.
Unchecked(h) == TRUE
StillCurrent(h) == shm.hdr = own[h]

\* WAL_RETRY: without the log in hand, from the start.
Retry(h) ==
    \/ writer = h /\ Goto(h, "hdr") /\ slot' = [slot EXCEPT ![h] = NoSlot]
       /\ UNCHANGED <<own, mark, min>>
    \/ writer # h /\ Leave(h)

CheckZero(h) ==
    /\ pc[h] = "check0"
    /\ \/ StillCurrent(h) /\ Goto(h, "read") /\ UNCHANGED <<own, slot, mark, min>>
       \/ ~StillCurrent(h) /\ Retry(h)
    /\ UNCHANGED <<shm, files, writer, todo, ckpt, txns, history>>

\* The log is needed, or a checkpoint keeps slot 0.
UseLog(h) ==
    /\ pc[h] = "hdr" /\ (MayIgnoreLog(h) => Copying)
    /\ Goto(h, "choose")
    /\ UNCHANGED <<shm, files, own, slot, mark, min, writer, todo, ckpt, txns, history>>

\* The slot with the highest mark that is not past the snapshot; if that mark is lower
\* than the snapshot, a slot nobody uses gets the mark of the snapshot.  To read the marks
\* and to set one is one step: what others do between the two ends in a retry.
ChooseSlot(h) ==
    LET mx == own[h].mx
        low == {i \in Slots : shm.mark[i] <= mx}
        best == Greatest({i \in low : \A j \in low : shm.mark[j] <= shm.mark[i]})
        exact == low # {} /\ shm.mark[best] = mx
        free == {i \in Slots : SlotFree(i)}
        take(i, m) == /\ mark' = [mark EXCEPT ![h] = m]
                      /\ slot' = [slot EXCEPT ![h] = i]
                      /\ Goto(h, "lock") /\ UNCHANGED <<own, min>>
    IN
    /\ pc[h] = "choose"
    /\ \/ ~exact /\ free # {} /\ take(Least(free), mx)
          /\ shm' = [shm EXCEPT !.mark[Least(free)] = mx]
       \/ low # {} /\ (exact \/ free = {}) /\ take(best, shm.mark[best])
          /\ UNCHANGED shm
       \/ low = {} /\ free = {} /\ Retry(h) /\ UNCHANGED shm
    /\ UNCHANGED <<files, writer, todo, ckpt, txns, history>>

\* To lock the slot and to read nBackfill is one step: what others do between the two is
\* as well done before the lock or after the reading.
LockSlot(h) ==
    /\ pc[h] = "lock"
    /\ \/ /\ ~Restarting
          /\ min' = [min EXCEPT ![h] = shm.nBackfill + 1]
          /\ Goto(h, "confirm") /\ UNCHANGED <<own, slot, mark>>
       \/ Restarting /\ Retry(h)
    /\ UNCHANGED <<shm, files, writer, todo, ckpt, txns, history>>

\* The writer that came back goes on to write, with a header when the log is empty.
FirstWrite(h) == IF own[h].mx = 0 THEN "begin" ELSE "frames"

Confirm(h) ==
    LET same == shm.mark[slot[h]] = mark[h] /\ StillCurrent(h) IN
    /\ pc[h] = "confirm"
    /\ \/ same /\ Goto(h, IF writer = h THEN FirstWrite(h) ELSE "read")
          /\ UNCHANGED <<own, slot, mark, min>>
       \/ ~same /\ Retry(h)
    /\ UNCHANGED <<shm, files, writer, todo, ckpt, txns, history>>

\* sqlite3WalEndReadTransaction.
EndRead(h) ==
    /\ pc[h] = "read" /\ Leave(h)
    /\ UNCHANGED <<shm, files, writer, todo, ckpt, txns, history>>

(***************************************************************************)
(* The writer: sqlite3WalBeginWriteTransaction, sqlite3WalFrames.          *)
(***************************************************************************)

\* A salt no trace is left of: the code increments one half and draws the other.
Fresh ==
    LET used == {0, shm.hdr.salt, log.salt} \cup {own[h].salt : h \in Handles}
                \cup UNION {{x.salt : x \in safe.frame[f] \cup {log.frame[f]}} : f \in Frames}
    IN Least((1 .. Cardinality(used)) \ (used \ {0}))

\* Nobody wrote since the transaction began to read; else BUSY_SNAPSHOT, or BUSY.
BeginWrite(h) ==
    /\ pc[h] = "read" /\ h \in Writers /\ txns < MaxTxns
    /\ writer = Nobody /\ StillCurrent(h)
    /\ writer' = h
    /\ txns' = txns + 1
    /\ \E S \in (SUBSET Pages) \ {{}} : todo' = [all |-> S, left |-> S]
    /\ Goto(h, "restart")
    /\ UNCHANGED <<shm, files, own, slot, mark, min, ckpt, history>>

\* walRestartHdr, its first half: the header.
NewHdr(h) ==
    LET hdr == [own[h] EXCEPT !.mx = 0, !.salt = Fresh] IN
    /\ own' = [own EXCEPT ![h] = hdr]
    /\ shm' = [shm EXCEPT !.hdr = hdr]
    /\ Goto(h, "reset")

\* walRestartLog: a writer that reads only the database begins the log anew if it can,
\* and in any case lets go of slot 0 and takes a slot with a mark.
RestartLog(h) ==
    LET begin == slot[h] = 0 /\ shm.nBackfill > 0 /\ MarkedFree(h) IN
    /\ pc[h] = "restart"
    /\ \/ slot[h] # 0 /\ Goto(h, FirstWrite(h)) /\ UNCHANGED <<own, slot, shm>>
       \/ begin /\ NewHdr(h) /\ UNCHANGED slot
       \/ slot[h] = 0 /\ ~begin /\ Goto(h, "hdr")
          /\ slot' = [slot EXCEPT ![h] = NoSlot] /\ UNCHANGED <<own, shm>>
    /\ UNCHANGED <<files, mark, min, writer, todo, ckpt, txns, history>>

\* walRestartHdr, its second half: the rest of the wal-index.
MarksReset ==
    shm' = [shm EXCEPT !.nBackfill = 0,
                       !.mark = [i \in Slots |-> IF i = 1 THEN 0 ELSE NotUsed]]

ResetMarks(h) ==
    /\ pc[h] = "reset" /\ ckpt.by # h
    /\ MarksReset
    /\ slot' = [slot EXCEPT ![h] = NoSlot]
    /\ Goto(h, "hdr")
    /\ UNCHANGED <<files, own, mark, min, writer, todo, ckpt, txns, history>>

\* The number of the next frame.
NextFrame(h) == own[h].mx + 1 + Cardinality(todo.all) - Cardinality(todo.left)

\* A new log has a new header, which is synced; a handle that has not begun a log before
\* draws its salt (nCkpt is the handle's own).
BeginLog(h) ==
    /\ pc[h] = "begin"
    /\ \E salt \in {own[h].salt, Fresh} \ {0} :
         /\ log' = [log EXCEPT !.salt = salt]
         /\ own' = [own EXCEPT ![h].salt = salt]
    /\ safe' = SyncedLog
    /\ base' = Len(commits)
    /\ Goto(h, "frames")
    /\ UNCHANGED <<shm, db, slot, mark, min, writer, todo, ckpt, txns, commits, kept, crashes>>

\* walWriteOneFrame.
AppendFrame(h) ==
    LET f == NextFrame(h)
        p == Least(todo.left)
        last == todo.left = {p}
        frame == [page |-> p, txn |-> txns, salt |-> own[h].salt, commit |-> last,
                  prev |-> IF f = 1 THEN 0 ELSE log.frame[f - 1].txn]
    IN
    /\ pc[h] = "frames" /\ f <= MaxFrames
    /\ log' = [log EXCEPT !.frame[f] = frame]
    /\ safe' = [safe EXCEPT !.frame[f] = @ \cup {frame}]
    /\ todo' = [todo EXCEPT !.left = @ \ {p}]
    /\ commits' = IF last THEN Append(commits, [txn |-> txns, pages |-> todo.all]) ELSE commits
    /\ Goto(h, IF last THEN "index" ELSE "frames")
    /\ UNCHANGED <<shm, db, own, slot, mark, min, writer, ckpt, txns, base, kept, crashes>>

\* Rolled back, or a write failed and left part of a frame.  sqlite3WalUndo.
Abort(h) ==
    /\ pc[h] = "frames" /\ Leave(h)
    /\ writer' = Nobody /\ todo' = NoTodo
    /\ \/ UNCHANGED <<log, safe>>
       \/ NextFrame(h) <= MaxFrames
          /\ log' = [log EXCEPT !.frame[NextFrame(h)] = NoFrame]
          /\ safe' = [safe EXCEPT !.frame[NextFrame(h)] = @ \cup {NoFrame}]
    /\ UNCHANGED <<shm, db, ckpt, txns, history>>

\* walIndexAppend: what an earlier writer left after the last published frame goes.
IndexFrames(h) ==
    /\ pc[h] = "index"
    /\ shm' = [shm EXCEPT !.index = [f \in Frames |->
                  IF f <= own[h].mx THEN @[f]
                  ELSE IF f < NextFrame(h) THEN log.frame[f].page ELSE 0]]
    /\ Goto(h, "publish")
    /\ UNCHANGED <<files, own, slot, mark, min, writer, todo, ckpt, txns, history>>

\* walIndexWriteHdr, sqlite3WalEndWriteTransaction.
Publish(h) ==
    LET hdr == [mx |-> NextFrame(h) - 1, salt |-> own[h].salt, at |-> Len(commits)] IN
    /\ pc[h] = "publish"
    /\ shm' = [shm EXCEPT !.hdr = hdr]
    /\ own' = [own EXCEPT ![h] = hdr]
    /\ writer' = Nobody /\ todo' = NoTodo
    /\ Goto(h, "read")
    /\ UNCHANGED <<files, slot, mark, min, ckpt, txns, history>>

(***************************************************************************)
(* Checkpoints: sqlite3WalCheckpoint, walCheckpoint.  The busy handler     *)
(* never gives up, so that all modes but PASSIVE wait for their locks.     *)
(***************************************************************************)
Checkpoint(h, mode) ==
    /\ pc[h] = "idle" /\ shm.valid /\ ckpt.by = Nobody
    /\ ckpt' = [NoCkpt EXCEPT !.by = h, !.mode = mode]
    /\ Goto(h, IF mode = "PASSIVE" THEN "ckptHdr" ELSE "ckptWrite")
    /\ UNCHANGED <<shm, files, own, slot, mark, min, writer, todo, txns, history>>

LockWrite(h) ==
    /\ pc[h] = "ckptWrite" /\ writer = Nobody
    /\ writer' = h
    /\ Goto(h, "ckptHdr")
    /\ UNCHANGED <<shm, files, own, slot, mark, min, todo, ckpt, txns, history>>

ReadCkptHdr(h) ==
    /\ pc[h] = "ckptHdr"
    /\ own' = [own EXCEPT ![h] = shm.hdr]
    /\ Goto(h, "iterator")
    /\ UNCHANGED <<shm, files, slot, mark, min, writer, todo, ckpt, txns, history>>

\* walIteratorInit: the last frame of each page.
BuildIterator(h) ==
    LET mx == own[h].mx
        work == shm.nBackfill < mx
    IN
    /\ pc[h] = "iterator"
    /\ ckpt' = IF ~work THEN ckpt
               ELSE [ckpt EXCEPT !.next = 1, !.upTo = mx,
                                 !.left = {FindFrame(p, 1, mx) : p \in Pages} \ {0}]
    /\ Goto(h, IF work THEN "slots" ELSE "drain")
    /\ UNCHANGED <<shm, files, own, slot, mark, min, writer, todo, txns, history>>

\* A reader may need no more than its mark: the checkpoint raises the mark if it can
\* lock the slot, and else waits, or stops at the mark.
PassSlot(h) ==
    LET i == ckpt.next
        behind == shm.mark[i] < ckpt.upTo
    IN
    /\ pc[h] = "slots" /\ i <= NSlots
    /\ \/ ~behind /\ ckpt' = [ckpt EXCEPT !.next = i + 1] /\ UNCHANGED shm
       \/ behind /\ SlotFree(i)
          /\ ckpt' = [ckpt EXCEPT !.next = i + 1]
          /\ shm' = [shm EXCEPT !.mark[i] = IF i = 1 THEN ckpt.upTo ELSE NotUsed]
       \/ behind /\ ~SlotFree(i) /\ ckpt.mode = "PASSIVE"
          /\ ckpt' = [ckpt EXCEPT !.next = i + 1, !.upTo = shm.mark[i]]
          /\ UNCHANGED shm
    /\ Goto(h, "slots")
    /\ UNCHANGED <<files, own, slot, mark, min, writer, todo, txns, history>>

\* Slot 0 is locked against readers of the database alone, and the log synced.
StartCopy(h) ==
    LET work == shm.nBackfill < ckpt.upTo
        stop == /\ Goto(h, "drain") /\ ckpt' = [ckpt EXCEPT !.left = {}]
                /\ UNCHANGED safe
    IN
    /\ pc[h] = "slots" /\ ckpt.next > NSlots
    /\ \/ ~work /\ stop
       \/ work /\ Holders(0) # {} /\ ckpt.mode = "PASSIVE" /\ stop
       \/ work /\ Holders(0) = {}
          /\ safe' = SyncedLog
          /\ ckpt' = [ckpt EXCEPT !.left =
                        {f \in @ : shm.nBackfill < f /\ f <= ckpt.upTo}]
          /\ Goto(h, "copy")
    /\ UNCHANGED <<shm, log, db, own, slot, mark, min, writer, todo, txns, history>>

\* The page that comes next.
NextCopy == CHOOSE f \in ckpt.left : \A g \in ckpt.left : shm.index[f] <= shm.index[g]

Written(p, x) ==
    /\ db' = [db EXCEPT ![p] = x]
    /\ safe' = [safe EXCEPT !.page[p] = @ \cup {x, Torn}]

CopyPage(h) ==
    /\ pc[h] = "copy" /\ ckpt.left # {}
    /\ IF shm.index[NextCopy] = 0 THEN UNCHANGED <<db, safe>>
       ELSE Written(shm.index[NextCopy], log.frame[NextCopy].txn)
    /\ ckpt' = [ckpt EXCEPT !.left = @ \ {NextCopy}]
    /\ UNCHANGED <<shm, log, handles, writer, todo, txns, history>>

EndCheckpoint(h) ==
    /\ Leave(h)
    /\ ckpt' = NoCkpt
    /\ writer' = IF writer = h THEN Nobody ELSE writer

\* A read, a write or a sync fails; a write may have left half a page.
CopyFails(h) ==
    /\ pc[h] = "copy" /\ EndCheckpoint(h)
    /\ \/ UNCHANGED <<db, safe>>
       \/ ckpt.left # {} /\ shm.index[NextCopy] # 0 /\ Written(shm.index[NextCopy], Torn)
    /\ UNCHANGED <<shm, log, todo, txns, history>>

\* When the whole log has been copied, the database is synced.
EndCopy(h) ==
    /\ pc[h] = "copy" /\ ckpt.left = {}
    /\ safe' = IF ckpt.upTo = shm.hdr.mx
               THEN [safe EXCEPT !.page = [p \in Pages |-> {db[p]}]] ELSE safe
    /\ shm' = [shm EXCEPT !.nBackfill = ckpt.upTo]
    /\ Goto(h, "drain")
    /\ UNCHANGED <<log, db, own, slot, mark, min, writer, todo, ckpt, txns, history>>

\* RESTART and TRUNCATE wait until nobody needs the log.
Drain(h) ==
    LET wait == ckpt.mode \in {"RESTART", "TRUNCATE"} /\ shm.nBackfill >= own[h].mx IN
    /\ pc[h] = "drain"
    /\ \/ (wait => ckpt.mode = "RESTART" /\ MarkedFree(h))
          /\ EndCheckpoint(h) /\ UNCHANGED shm
       \/ wait /\ ckpt.mode = "TRUNCATE" /\ MarkedFree(h)
          /\ NewHdr(h) /\ UNCHANGED <<slot, mark, min, ckpt, writer>>
    /\ UNCHANGED <<files, todo, txns, history>>

Truncate(h) ==
    /\ pc[h] = "reset" /\ ckpt.by = h
    /\ MarksReset
    /\ log' = [salt |-> 0, frame |-> [f \in Frames |-> NoFrame]]
    /\ safe' = [safe EXCEPT !.frame = [f \in Frames |-> {NoFrame}]]
    /\ base' = Len(commits)
    /\ EndCheckpoint(h)
    /\ UNCHANGED <<db, todo, txns, commits, kept, crashes>>

(***************************************************************************)
(* Crashes and recovery.                                                   *)
(***************************************************************************)

\* The handles and the wal-index are gone.
Gone ==
    /\ shm.valid /\ crashes < MaxCrashes
    /\ crashes' = crashes + 1
    /\ shm' = [valid |-> FALSE, hdr |-> [mx |-> 0, salt |-> 0, at |-> 0],
               index |-> [f \in Frames |-> 0], nBackfill |-> 0,
               mark |-> [i \in Slots |-> NotUsed]]
    /\ pc' = [h \in Handles |-> "idle"]
    /\ own' = [h \in Handles |-> [mx |-> 0, salt |-> 0, at |-> 0]]
    /\ slot' = [h \in Handles |-> NoSlot]
    /\ mark' = [h \in Handles |-> 0]
    /\ min' = [h \in Handles |-> 0]
    /\ writer' = Nobody /\ todo' = NoTodo /\ ckpt' = NoCkpt
    /\ UNCHANGED <<txns, commits, base>>

\* The process ends; the files are as they were written.
Crash == Gone /\ kept' = shm.hdr.at /\ UNCHANGED files

\* The machine ends: of a frame or a page written since the last sync, any version or none.
PowerLoss ==
    /\ Gone
    /\ kept' = safe.at
    /\ \E frame \in [Frames -> {NoFrame} \cup UNION {safe.frame[f] : f \in Frames}],
          page \in [Pages -> UNION {safe.page[p] : p \in Pages}] :
         /\ \A f \in Frames :
              \/ frame[f] \in safe.frame[f]
              \/ frame[f] = NoFrame /\ Cardinality(safe.frame[f]) > 1
         /\ \A p \in Pages : page[p] \in safe.page[p]
         /\ log' = [log EXCEPT !.frame = frame]
         /\ db' = page
         /\ safe' = [safe EXCEPT !.frame = [f \in Frames |-> {frame[f]}],
                                 !.page = [p \in Pages |-> {page[p]}]]

FollowsHeader(f) == log.frame[f].page # 0 /\ log.frame[f].salt = log.salt /\ log.frame[f].prev = 0
\* walDecodeFrame: written after the header and the frames before it.
Follows(f) ==
    /\ log.frame[f].page # 0
    /\ log.frame[f].salt = log.salt
    /\ log.frame[f].prev = IF f = 1 THEN 0 ELSE log.frame[f - 1].txn

\* walIndexRecover: the log counts up to its last commit mark before the first frame
\* that is not valid.
Recover ==
    LET valid == {f \in Frames : \A g \in 1 .. f : Follows(g)}
        last == Greatest({0} \cup {f \in valid : log.frame[f].commit})
        at == IF last = 0 THEN base
              ELSE CHOOSE i \in 1 .. Len(commits) : commits[i].txn = log.frame[last].txn
    IN
    /\ ~shm.valid
    /\ shm' = [valid |-> TRUE, hdr |-> [mx |-> last, salt |-> log.salt, at |-> at],
               index |-> [f \in Frames |-> IF f \in valid THEN log.frame[f].page ELSE 0],
               nBackfill |-> 0,
               mark |-> [i \in Slots |-> IF i = 1 /\ last > 0 THEN last ELSE NotUsed]]
    /\ commits' = SubSeq(commits, 1, at)
    /\ UNCHANGED <<files, handles, writer, todo, ckpt, txns, base, kept, crashes>>

\* What handle h does of its own.
Read(h) == ReadHdr(h) \/ LockZero(h) \/ CheckZero(h) \/ UseLog(h) \/ ChooseSlot(h)
           \/ LockSlot(h) \/ Confirm(h) \/ EndRead(h)
Write(h) == BeginWrite(h) \/ RestartLog(h) \/ ResetMarks(h) \/ BeginLog(h) \/ AppendFrame(h)
            \/ Abort(h) \/ IndexFrames(h) \/ Publish(h)
Backfill(h) == (h \in Checkpointers /\ \E mode \in Modes[h] : Checkpoint(h, mode))
               \/ LockWrite(h) \/ ReadCkptHdr(h)
               \/ BuildIterator(h) \/ PassSlot(h) \/ StartCopy(h) \/ CopyPage(h)
               \/ CopyFails(h) \/ EndCopy(h) \/ Drain(h) \/ Truncate(h)

Next == (\E h \in Handles : Read(h) \/ Write(h) \/ Backfill(h)) \/ Crash \/ PowerLoss \/ Recover

Spec == Init /\ [][Next]_vars

(***************************************************************************)
(* Properties.                                                             *)
(***************************************************************************)
Places == {"idle", "hdr", "check0", "choose", "lock", "confirm", "read", "restart", "reset",
           "begin", "frames", "index", "publish", "ckptWrite", "ckptHdr", "iterator", "slots",
           "copy", "drain"}

\* The type of the state.
TypeOK ==
    /\ shm \in [valid : BOOLEAN, hdr : Hdr, index : [Frames -> 0 .. NPages],
                nBackfill : 0 .. MaxFrames, mark : [Slots -> 0 .. NotUsed]]
    /\ log \in [salt : Nat, frame : [Frames -> Frame]]
    /\ db \in [Pages -> 0 .. Torn]
    /\ safe \in [frame : [Frames -> SUBSET Frame], page : [Pages -> SUBSET (0 .. Torn)],
                 at : 0 .. MaxTxns]
    /\ pc \in [Handles -> Places]
    /\ own \in [Handles -> Hdr]
    /\ slot \in [Handles -> 0 .. NoSlot]
    /\ mark \in [Handles -> 0 .. MaxFrames]
    /\ min \in [Handles -> 0 .. MaxFrames + 1]
    /\ writer \in Handles \cup {Nobody}
    /\ todo \in [all : SUBSET Pages, left : SUBSET Pages]
    /\ ckpt \in [by : Handles \cup {Nobody}, mode : {"PASSIVE", "FULL", "RESTART", "TRUNCATE"},
                 next : 0 .. NSlots + 1, upTo : 0 .. MaxFrames, left : SUBSET Frames]
    /\ txns \in 0 .. MaxTxns
    /\ commits \in Seq([txn : 1 .. MaxTxns, pages : SUBSET Pages])
    /\ base \in 0 .. MaxTxns /\ kept \in 0 .. MaxTxns /\ crashes \in 0 .. MaxCrashes

\* In a transaction: it has its snapshot, and may read a page at any time.
Reading(h) == pc[h] \in {"read", "restart", "begin", "frames", "index", "publish"}

\* From its first page to its last a transaction reads one snapshot: each page as the
\* commits up to the one it began after left it, whatever others append, copy into the
\* database or begin anew meanwhile, and whatever a crash left before.
Snapshot ==
    \A h \in Handles : Reading(h) => \A p \in Pages : Reads(h, p) = Content(own[h].at, p)

\* Recovery brings back at least what the crash had to leave: what had been published,
\* or, when the power went, what had been synced.
NothingLost == shm.valid => shm.hdr.at >= kept

\* No checkpoint copies past the snapshot of a transaction that reads the log, and
\* nobody begins the log anew under it.
NotOvertaken ==
    \A h \in Handles : Reading(h) /\ slot[h] \in Slots =>
        shm.nBackfill <= own[h].mx /\ (pc[h] = "read" /\ own[h].mx > 0 => own[h].salt = shm.hdr.salt)
=============================================================================
