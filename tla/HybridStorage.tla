--------------------------- MODULE HybridStorage ----------------------------
(***************************************************************************)
(* The object storage of the Cache pod: an NSCache in memory over one file *)
(* per key on disk.  The network layer keeps the first page of every feed  *)
(* in it.                                                                  *)
(*                                                                         *)
(* A call runs on the serial queue of the interface it came through, so    *)
(* the calls of one interface do not overlap.  The two interfaces, `sync'  *)
(* and `async', have a queue each and share the storage below.  A call is  *)
(* a few steps: what it does to the cache, to the set of keys kept beside  *)
(* it, and to the file system; any step on disk may fail.  Between steps   *)
(* NSCache may evict, time may pass and the program may end.               *)
(*                                                                         *)
(* A file is dated with its expiry.  Each level has a configured expiry    *)
(* for what is stored without one, and makes a date of an expiry when it   *)
(* comes to it, so the dates of the levels may differ.  Objects of one key *)
(* have one type; their encoding is left out, except that a file may be    *)
(* unreadable.                                                             *)
(***************************************************************************)
EXTENDS Naturals, FiniteSets, Functions

CONSTANTS
    Keys,      \* cache keys
    Objects,   \* what may be stored
    Size,      \* size of the file of an object
    NoKey,     \* stands for the key of a call that concerns them all
    NoObject,  \* stands for the object of an absent entry
    Broken,    \* stands for the contents of a file that cannot be decoded
    Queues,    \* the interfaces in use
    Expiries,      \* the expiries callers ask for
    NoExpiry,      \* stands for the expiry of a call that asks for none
    MemoryExpiry,  \* MemoryConfig.expiry
    DiskExpiry,    \* DiskConfig.expiry
    MaxSize,   \* DiskConfig.maxSize; 0: no limit
    MaxTime    \* bound of the clock; MaxTime + 1 is an expiry that never comes

Expiry == [kind : {"never", "seconds", "date"}, value : Nat]
Never == [kind |-> "never", value |-> 0]
Seconds(n) == [kind |-> "seconds", value |-> n]
OnDate(d) == [kind |-> "date", value |-> d]

ASSUME KeysAssumption == NoKey \notin Keys
ASSUME FiniteAssumption == IsFiniteSet(Keys)
ASSUME ObjectsAssumption == NoObject \notin Objects /\ Broken \notin Objects /\ NoObject # Broken
ASSUME SizeAssumption == Size \in [Objects -> Nat \ {0}]
ASSUME ExpiryAssumption ==
    /\ Expiries \subseteq Expiry /\ NoExpiry \notin Expiries
    /\ MemoryExpiry \in Expiry /\ DiskExpiry \in Expiry
ASSUME BoundsAssumption == MaxSize \in Nat /\ MaxTime \in Nat

VARIABLES
    memory,  \* MemoryStorage.cache
    keys,    \* MemoryStorage.keys
    disk,    \* the files, by key
    dir,     \* whether the directory of the files exists
    call,    \* the call each queue is running
    now,     \* the clock
    torn     \* auxiliary: keys of which a step on disk has failed

vars == <<memory, keys, disk, dir, call, now, torn>>

Date == 0 .. MaxTime + 1
Missing == [object |-> NoObject, date |-> 0]
Stored == [object : Objects, date : Date]
File == [object : Objects \cup {Broken}, date : Date]

Present(e) == e # Missing
Expired(e) == Present(e) /\ e.date <= now   \* inThePast

\* The date an expiry stands for at a moment; dates past the end of the clock are one.
DateOf(e, time) ==
    LET d == IF e.kind = "seconds" THEN time + e.value ELSE e.value
    IN  IF e.kind = "never" \/ d > MaxTime THEN MaxTime + 1 ELSE d

Bytes(e) == IF e.object \in Objects THEN Size[e.object] ELSE 1

Op == {"set", "entry", "remove", "removeAll", "expire"}
Stage == {"idle", "memory", "keys", "create", "date", "read", "readDate", "setBack",
          "delete", "wipe", "mkdir", "list", "purge", "trim", "ok", "error"}

\* A call: its arguments, the date it has read, the step it is at, and what an expiry has
\* listed: the files, those still to purge as expired and those that may be trimmed.
Call == [op : Op, key : Keys \cup {NoKey}, object : Objects \cup {NoObject},
         expiry : Expiries \cup {NoExpiry}, date : Date, stage : Stage, began : Date, files : [Keys -> File \cup {Missing}],
         purge : SUBSET Keys, trim : SUBSET Keys]

NewCall(o, j, x, e) ==
    [op |-> o, key |-> j, object |-> x, expiry |-> e, date |-> 0, stage |-> "memory",
     began |-> IF o \in {"set", "expire"} THEN now ELSE 0,
     files |-> [k \in Keys |-> Missing], purge |-> {}, trim |-> {}]
Idle == [NewCall("entry", NoKey, NoObject, NoExpiry) EXCEPT !.stage = "idle"]

Init ==
    /\ memory = [k \in Keys |-> Missing]
    /\ keys = {}
    /\ disk = [k \in Keys |-> Missing]
    /\ dir = TRUE
    /\ call = [q \in Queues |-> Idle]
    /\ now = 0
    /\ torn = {}

At(q, o, s) == call[q].op = o /\ call[q].stage = s
Goto(q, s) == call' = [call EXCEPT ![q].stage = s]

(***************************************************************************)
(* Calls.                                                                  *)
(***************************************************************************)
Begin(q, c) ==
    /\ call[q].stage = "idle"
    /\ call' = [call EXCEPT ![q] = c]
    /\ UNCHANGED <<memory, keys, disk, dir, now, torn>>

SetObject(q, k, x, e) == Begin(q, NewCall("set", k, x, e))
Entry(q, k) == Begin(q, NewCall("entry", k, NoObject, NoExpiry))
RemoveObject(q, k) == Begin(q, NewCall("remove", k, NoObject, NoExpiry))
RemoveAll(q) == Begin(q, NewCall("removeAll", NoKey, NoObject, NoExpiry))
RemoveExpired(q) == Begin(q, NewCall("expire", NoKey, NoObject, NoExpiry))

Return(q) ==
    /\ call[q].stage \in {"ok", "error"}
    /\ call' = [call EXCEPT ![q] = Idle]
    /\ UNCHANGED <<memory, keys, disk, dir, now, torn>>

(***************************************************************************)
(* MemoryStorage.                                                          *)
(***************************************************************************)

\* The date of an entry made at a moment; without an expiry, the one configured counts.
MemoryDate(c, time) == DateOf(IF c.expiry = NoExpiry THEN MemoryExpiry ELSE c.expiry, time)

SetMemory(q) ==
    /\ At(q, "set", "memory")
    /\ memory' = [memory EXCEPT ![call[q].key] =
                     [object |-> call[q].object, date |-> MemoryDate(call[q], now)]]
    /\ Goto(q, "keys")
    /\ UNCHANGED <<keys, disk, dir, now, torn>>

RemoveMemory(q) ==
    /\ At(q, "remove", "memory")
    /\ memory' = [memory EXCEPT ![call[q].key] = Missing]
    /\ Goto(q, "keys")
    /\ UNCHANGED <<keys, disk, dir, now, torn>>

ClearMemory(q) ==
    /\ At(q, "removeAll", "memory")
    /\ memory' = [k \in Keys |-> Missing]
    /\ Goto(q, "keys")
    /\ UNCHANGED <<keys, disk, dir, now, torn>>

\* The lookup does not ask whether the entry has expired.
ReadMemory(q) ==
    LET e == memory[call[q].key] IN
    /\ At(q, "entry", "memory")
    /\ call' = [call EXCEPT ![q] =
                   IF Present(e)
                   THEN [@ EXCEPT !.object = e.object, !.date = e.date, !.stage = "ok"]
                   ELSE [@ EXCEPT !.stage = "read"]]
    /\ UNCHANGED <<memory, keys, disk, dir, now, torn>>

\* The loop over the keys, as one step.
ExpireMemory(q) ==
    LET old == {k \in keys : Expired(memory[k])} IN
    /\ At(q, "expire", "memory")
    /\ memory' = [k \in Keys |-> IF k \in old THEN Missing ELSE memory[k]]
    /\ keys' = keys \ old
    /\ Goto(q, "list")
    /\ UNCHANGED <<disk, dir, now, torn>>

\* What the call makes of the key set, and where it goes on.
KeysForgotten(c) ==
    IF c.op = "set" THEN keys \cup {c.key}
    ELSE IF c.op = "entry" THEN keys
    ELSE keys \ {c.key}
KeysAfter(c) ==
    CASE c.op \in {"set", "entry"} -> keys \cup {c.key}
      [] c.op = "remove" -> keys \ {c.key}
      [] c.op = "removeAll" -> {}

AfterKeys(o) ==
    CASE o = "set" -> "create"
      [] o = "entry" -> "ok"
      [] o = "remove" -> "delete"
      [] o = "removeAll" -> "wipe"

\* The key set is not protected against another queue: two updates at the same time
\* leave anything.
UpdateKeys(q) ==
    /\ call[q].stage = "keys"
    /\ keys' \in IF \E r \in Queues \ {q} : call[r].stage = "keys"
                 THEN SUBSET Keys
                 ELSE {KeysAfter(call[q])}
    /\ Goto(q, AfterKeys(call[q].op))
    /\ UNCHANGED <<memory, disk, dir, now, torn>>

(***************************************************************************)
(* DiskStorage.                                                            *)
(***************************************************************************)

KeptIfThere(k, x) == IF Present(disk[k]) THEN disk[k] ELSE [object |-> x, date |-> now]
Created(k, x) == [object |-> x, date |-> now]

\* createFile reports a failure nobody looks at; the file is as it was, or broken.
CreateFile(q) ==
    LET k == call[q].key IN
    /\ At(q, "set", "create")
    /\ \/ /\ dir
          /\ disk' = [disk EXCEPT ![k] = Created(k, call[q].object)]
          /\ torn' = torn \ {k}
       \/ /\ \/ UNCHANGED disk
             \/ dir /\ disk' = [disk EXCEPT ![k] = Created(k, Broken)]
          /\ torn' = torn \cup {k}
    /\ Goto(q, "date")
    /\ UNCHANGED <<memory, keys, dir, now>>

\* The file is given its date after it has been written, and an expiry in seconds runs
\* from then.
DiskDate(c, time) == DateOf(IF c.expiry = NoExpiry THEN DiskExpiry ELSE c.expiry, time)

SetDate(q) ==
    LET k == call[q].key IN
    /\ At(q, "set", "date")
    /\ \/ /\ Present(disk[k])
          /\ disk' = [disk EXCEPT ![k].date = DiskDate(call[q], now)]
          /\ Goto(q, "ok")
          /\ UNCHANGED torn
       \/ /\ torn' = torn \cup {k}
          /\ Goto(q, "error")
          /\ UNCHANGED disk
    /\ UNCHANGED <<memory, keys, dir, now>>

AnyFile(e) == Present(e)
Readable(e) == e.object \in Objects

\* The contents and the date are read one after the other.
ReadFile(q) ==
    LET e == disk[call[q].key] IN
    /\ At(q, "entry", "read")
    /\ \/ /\ Readable(e)
          /\ call' = [call EXCEPT ![q].object = e.object, ![q].stage = "readDate"]
       \/ Goto(q, "error")
    /\ UNCHANGED <<memory, keys, disk, dir, now, torn>>

ReadDate(q) ==
    LET e == disk[call[q].key] IN
    /\ At(q, "entry", "readDate")
    /\ \/ /\ Present(e)
          /\ call' = [call EXCEPT ![q].date = e.date, ![q].stage = "setBack"]
       \/ Goto(q, "error")
    /\ UNCHANGED <<memory, keys, disk, dir, now, torn>>

\* What is put back into memory: the entry with the date of its file.
BackForEver(c) == [object |-> c.object, date |-> MaxTime + 1]
Back(c) == [object |-> c.object, date |-> c.date]

SetBack(q) ==
    LET k == call[q].key IN
    /\ At(q, "entry", "setBack")
    /\ memory' = [memory EXCEPT ![k] = Back(call[q])]
    /\ torn' = torn \ {k}
    /\ Goto(q, "keys")
    /\ UNCHANGED <<keys, disk, dir, now>>

\* Removing a file that is not there is an error too.
DeleteFile(q) ==
    LET k == call[q].key IN
    /\ At(q, "remove", "delete")
    /\ \/ /\ Present(disk[k])
          /\ disk' = [disk EXCEPT ![k] = Missing]
          /\ torn' = torn \ {k}
          /\ Goto(q, "ok")
       \/ /\ torn' = IF Present(disk[k]) THEN torn \cup {k} ELSE torn \ {k}
          /\ Goto(q, "error")
          /\ UNCHANGED disk
    /\ UNCHANGED <<memory, keys, dir, now>>

\* The directory goes with its files, or some of them go; then it is made anew.
Wipe(q) ==
    /\ At(q, "removeAll", "wipe")
    /\ \/ /\ dir
          /\ disk' = [k \in Keys |-> Missing]
          /\ dir' = FALSE
          /\ torn' = {}
          /\ Goto(q, "mkdir")
       \/ \E left \in SUBSET {k \in Keys : Present(disk[k])} :
          /\ disk' = [k \in Keys |-> IF k \in left THEN disk[k] ELSE Missing]
          /\ torn' = left
          /\ Goto(q, "error")
          /\ UNCHANGED dir
    /\ UNCHANGED <<memory, keys, now>>

MakeDir(q) ==
    /\ At(q, "removeAll", "mkdir")
    /\ \/ dir' = TRUE /\ Goto(q, "ok")
       \/ ~dir /\ UNCHANGED dir /\ Goto(q, "error")
    /\ UNCHANGED <<memory, keys, disk, now, torn>>

(***************************************************************************)
(* DiskStorage.removeExpiredObjects.                                       *)
(***************************************************************************)
List(q) ==
    LET there == {k \in Keys : Present(disk[k])}
        old == {k \in there : Expired(disk[k])}
    IN
    /\ At(q, "expire", "list")
    /\ \/ call' = [call EXCEPT ![q] = [@ EXCEPT !.files = disk, !.purge = old,
                                                !.trim = there \ old, !.stage = "purge"]]
       \/ Goto(q, "error")
    /\ UNCHANGED <<memory, keys, disk, dir, now, torn>>

Total(c) == SumFunctionOnSet([k \in Keys |-> Bytes(c.files[k])], c.trim)

OverHalf(c) == MaxSize > 0 /\ Total(c) > MaxSize * 2
OverLimit(c) == MaxSize > 0 /\ Total(c) > MaxSize

\* One file is deleted, or the call ends with an error.
Delete(q, k, next) ==
    \/ /\ Present(disk[k])
       /\ disk' = [disk EXCEPT ![k] = Missing]
       /\ torn' = torn \ {k}
       /\ call' = [call EXCEPT ![q] = next]
    \/ /\ Goto(q, "error")
       /\ UNCHANGED <<disk, torn>>

Purge(q) ==
    LET c == call[q] IN
    /\ At(q, "expire", "purge")
    /\ \/ \E k \in c.purge : Delete(q, k, [c EXCEPT !.purge = @ \ {k}])
       \/ /\ c.purge = {}
          /\ Goto(q, IF OverLimit(c) THEN "trim" ELSE "ok")
          /\ UNCHANGED <<disk, torn>>
    /\ UNCHANGED <<memory, keys, dir, now>>

\* The file that expires last goes first, until less than half the limit is left.
Trim(q) ==
    LET c == call[q] IN
    /\ At(q, "expire", "trim")
    /\ \E k \in c.trim :
          /\ \A j \in c.trim : c.files[j].date <= c.files[k].date
          /\ LET left == [c EXCEPT !.trim = @ \ {k}]
                 done == left.trim = {} \/ Total(left) < MaxSize \div 2
             IN  Delete(q, k, [left EXCEPT !.stage = IF done THEN "ok" ELSE "trim"])
    /\ UNCHANGED <<memory, keys, dir, now>>

(***************************************************************************)
(* Around the storage.                                                     *)
(***************************************************************************)

\* NSCache lets an entry go; the key set does not hear of it.
Evict(k) ==
    /\ Present(memory[k])
    /\ memory' = [memory EXCEPT ![k] = Missing]
    /\ UNCHANGED <<keys, disk, dir, call, now, torn>>

Tick ==
    /\ now < MaxTime
    /\ now' = now + 1
    /\ UNCHANGED <<memory, keys, disk, dir, call, torn>>

\* The program ends and starts again; meanwhile the system may empty its caches.
Restart ==
    /\ memory' = [k \in Keys |-> Missing]
    /\ keys' = {}
    /\ disk' \in {disk, [k \in Keys |-> Missing]}
    /\ dir' = TRUE
    /\ call' = [q \in Queues |-> Idle]
    /\ torn' = {}
    /\ UNCHANGED now

Calls(q) ==
    \/ \E k \in Keys :
          \/ \E x \in Objects, e \in Expiries \cup {NoExpiry} : SetObject(q, k, x, e)
          \/ Entry(q, k) \/ RemoveObject(q, k)
    \/ RemoveAll(q) \/ RemoveExpired(q)
Memory(q) ==
    SetMemory(q) \/ RemoveMemory(q) \/ ClearMemory(q) \/ ReadMemory(q) \/ ExpireMemory(q)
    \/ UpdateKeys(q)
Disk(q) ==
    CreateFile(q) \/ SetDate(q) \/ ReadFile(q) \/ ReadDate(q) \/ SetBack(q) \/ DeleteFile(q)
    \/ Wipe(q) \/ MakeDir(q) \/ List(q) \/ Purge(q) \/ Trim(q)

Next ==
    \/ \E q \in Queues : Calls(q) \/ Memory(q) \/ Disk(q) \/ Return(q)
    \/ \E k \in Keys : Evict(k)
    \/ Tick \/ Restart

Spec == Init /\ [][Next]_vars

(***************************************************************************)
(* Properties.                                                             *)
(***************************************************************************)
TypeOK ==
    /\ memory \in [Keys -> Stored \cup {Missing}]
    /\ keys \subseteq Keys
    /\ disk \in [Keys -> File \cup {Missing}]
    /\ dir \in BOOLEAN
    /\ call \in [Queues -> Call]
    /\ now \in 0 .. MaxTime
    /\ torn \subseteq Keys

\* A call is about to give k an object, or is doing so.
Setting(k) ==
    \E q \in Queues : call[q].op = "set" /\ call[q].key = k /\ call[q].stage \notin {"ok", "error"}

\* Memory and disk hold the same object for a key, whatever has been set, read back,
\* removed, expired, trimmed and evicted, and however often the program restarted, unless a
\* step on disk failed (HybridStorage.swift:15-44).
Coherent ==
    \A k \in Keys :
        Present(memory[k]) /\ Present(disk[k]) /\ k \notin torn /\ ~Setting(k)
        => memory[k].object = disk[k].object

\* What is stored without an expiry leaves memory no later than the disk.
MemoryFirst ==
    \A s, t \in 0 .. MaxTime : s <= t => DateOf(MemoryExpiry, s) <= DateOf(DiskExpiry, t)

\* An entry in memory is dated no later than its file, although the levels date it apart,
\* an expiry in seconds is counted twice and lookups put entries back: when the file
\* expires, so has the entry.  For configurations that put memory first
\* (MemoryStorage.swift:40, DiskStorage.swift:69-73, HybridStorage.swift:21).
FileOutlives ==
    \A k \in Keys :
        Present(memory[k]) /\ Present(disk[k]) /\ k \notin torn /\ ~Setting(k)
        => memory[k].date <= disk[k].date

\* The key set covers the cache although it is kept apart from it: no entry hides from
\* removeExpiredObjects (MemoryStorage.swift:50).
KeysCover ==
    \A k \in Keys :
        Present(memory[k]) =>
            k \in keys \/ \E q \in Queues : call[q].stage = "keys" /\ call[q].key = k

DiskSize == SumFunctionOnSet([k \in Keys |-> Bytes(disk[k])], {k \in Keys : Present(disk[k])})

\* A call that returns without an error has done what it is for: what was set is on disk
\* under the date its expiry had at some moment of the call (unless createFile failed,
\* which setObject does not look at), what was removed is in neither place, and after an
\* expiry nothing is left that had expired when it began, the files are within the limit,
\* and if it took one that has not expired, they are within half the limit.
OkMeansDone ==
    \A q \in Queues :
        LET c == call[q] IN
        /\ At(q, "set", "ok") /\ c.key \notin torn =>
              \E t \in c.began .. now :
                  disk[c.key] = [object |-> c.object, date |-> DiskDate(c, t)]
        /\ At(q, "remove", "ok") => ~Present(memory[c.key]) /\ ~Present(disk[c.key])
        /\ At(q, "removeAll", "ok") =>
              \A k \in Keys : ~Present(memory[k]) /\ ~Present(disk[k])
        /\ At(q, "expire", "ok") =>
              /\ \A k \in Keys :
                    /\ Present(memory[k]) => memory[k].date > c.began
                    /\ Present(disk[k]) => disk[k].date > c.began
              /\ MaxSize > 0 => DiskSize <= MaxSize
              /\ (\E k \in Keys : c.files[k].date > now /\ ~Present(disk[k]))
                    => MaxSize > 0 /\ DiskSize <= MaxSize \div 2

\* What entry would find for a key.
Found(k) ==
    IF Present(memory[k]) THEN memory[k].object
    ELSE IF Readable(disk[k]) THEN disk[k].object
    ELSE NoObject

\* An object that was replaced or removed does not come back, through eviction, restart or
\* any call, unless a step on disk had failed for its key or it is being set.
NothingResurfaces ==
    [][\A k \in Keys :
          Found(k)' \notin {Found(k), NoObject} => k \in torn \/ Setting(k)]_vars
=============================================================================
