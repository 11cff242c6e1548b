------------------------ MODULE HybridStorageProofs -------------------------
(***************************************************************************)
(* The object storage, for all keys, objects, sizes and limits: the type   *)
(* of its state for any number of interfaces, and for one interface, that  *)
(* the key set covers the cache, that memory and disk hold the same        *)
(* objects, and that a file outlives its entry in memory.                  *)
(***************************************************************************)
EXTENDS HybridStorage, TLAPS

USE KeysAssumption, ObjectsAssumption, ExpiryAssumption, BoundsAssumption

(***************************************************************************)
(* Types.                                                                  *)
(***************************************************************************)
LEMMA MissingTypes ==
    /\ Missing \in Stored \cup {Missing}
    /\ Missing \in File \cup {Missing}
    /\ ~Present(Missing)
    /\ Stored \subseteq File
  BY DEF Missing, Present, Stored, File

\* Whatever the expiry and the moment, there is a date, and it does not go back.
LEMMA DateOfType ==
    ASSUME NEW e \in Expiry, NEW s \in 0 .. MaxTime
    PROVE  DateOf(e, s) \in Date
  BY DEF DateOf, Date, Expiry

LEMMA DateOfGrows ==
    ASSUME NEW e \in Expiry, NEW s \in 0 .. MaxTime, NEW t \in 0 .. MaxTime, s <= t
    PROVE  DateOf(e, s) <= DateOf(e, t)
  BY DEF DateOf, Expiry

LEMMA CallDates ==
    ASSUME NEW c \in Call, NEW s \in 0 .. MaxTime
    PROVE  MemoryDate(c, s) \in Date /\ DiskDate(c, s) \in Date
  <1>1. c.expiry \in Expiries \cup {NoExpiry}
    BY DEF Call
  <1> QED
    BY <1>1, DateOfType DEF MemoryDate, DiskDate

\* An entry made before its file is dated is dated no later, by the same call.
LEMMA MemoryDateFirst ==
    ASSUME MemoryFirst, NEW c \in Call, NEW s \in 0 .. MaxTime, NEW t \in 0 .. MaxTime, s <= t
    PROVE  MemoryDate(c, s) <= DiskDate(c, t)
  <1>1. c.expiry \in Expiries \cup {NoExpiry}
    BY DEF Call
  <1> QED
    BY <1>1, DateOfGrows DEF MemoryDate, DiskDate, MemoryFirst

LEMMA NewCallType ==
    ASSUME NEW o \in Op, NEW k \in Keys \cup {NoKey}, NEW x \in Objects \cup {NoObject},
           NEW e \in Expiries \cup {NoExpiry}, now \in 0 .. MaxTime
    PROVE  NewCall(o, k, x, e) \in Call
  <1>1. now \in Date /\ 0 \in Date
    BY DEF Date
  <1>2. [j \in Keys |-> Missing] \in [Keys -> File \cup {Missing}]
    BY MissingTypes
  <1> QED
    BY <1>1, <1>2 DEF NewCall, Call, Stage

LEMMA IdleType ==
    ASSUME now \in 0 .. MaxTime
    PROVE  Idle \in Call
  <1>1. NewCall("entry", NoKey, NoObject, NoExpiry) \in Call
    BY NewCallType DEF Op, Date
  <1> QED
    BY <1>1 DEF Idle, Call, Stage

\* A call stays a call when its stage changes.
LEMMA GotoType ==
    ASSUME TypeOK, NEW q \in Queues, NEW s \in Stage, Goto(q, s)
    PROVE  call' \in [Queues -> Call]
  <1>1. [call[q] EXCEPT !.stage = s] \in Call
    BY DEF TypeOK, Call
  <1> QED
    BY <1>1 DEF TypeOK, Goto

\* What a call is about: the key of a call of one key, and who updates the key set.
About(c) ==
    /\ c.stage # "idle" /\ c.op \in {"set", "entry", "remove"} => c.key \in Keys
    /\ c.stage = "keys" => c.op # "expire"
    /\ c.op = "set" /\ c.stage # "idle" => c.object \in Objects
    /\ c.op = "entry" /\ c.stage \in {"readDate", "setBack"} => c.object \in Objects
WellFormed == \A q \in Queues : About(call[q])

\* The type of the state is inductive together with what calls are about.
Typed == TypeOK /\ WellFormed

LEMMA GotoAbout ==
    ASSUME Typed, NEW q \in Queues, NEW s \in Stage, Goto(q, s), call[q].stage # "idle",
           s = "keys" => call[q].op # "expire",
           call[q].op = "entry" => s \notin {"readDate", "setBack"}
    PROVE  WellFormed'
  <1> SUFFICES ASSUME NEW r \in Queues
               PROVE  About(call'[r])
    BY DEF WellFormed
  <1>1. call[q] \in Call /\ About(call[q]) /\ About(call[r])
    BY DEF Typed, TypeOK, WellFormed
  <1>2. CASE r = q
    BY <1>1, <1>2 DEF Goto, About, Call, Typed, TypeOK
  <1>3. CASE r # q
    BY <1>1, <1>3 DEF Goto, Typed, TypeOK
  <1> QED
    BY <1>2, <1>3

LEMMA NewTyped ==
    ASSUME Typed, NEW q \in Queues, NEW c \in Call, About(c), call' = [call EXCEPT ![q] = c]
    PROVE  call' \in [Queues -> Call] /\ WellFormed'
  BY DEF Typed, TypeOK, WellFormed

(***************************************************************************)
(* Calls that begin or return.                                             *)
(***************************************************************************)
LEMMA BeginTyped ==
    ASSUME Typed, NEW q \in Queues, NEW o \in Op, NEW k \in Keys \cup {NoKey},
           NEW x \in Objects \cup {NoObject}, NEW e \in Expiries \cup {NoExpiry},
           o \in {"set", "entry", "remove"} => k \in Keys,
           o = "set" => x \in Objects,
           Begin(q, NewCall(o, k, x, e))
    PROVE  Typed'
  <1>1. NewCall(o, k, x, e) \in Call
    BY NewCallType DEF Typed, TypeOK
  <1>2. About(NewCall(o, k, x, e))
    BY DEF About, NewCall
  <1>3. call' \in [Queues -> Call] /\ WellFormed'
    BY <1>1, <1>2, NewTyped DEF Begin
  <1> QED
    BY <1>3 DEF Begin, Typed, TypeOK

LEMMA CallsTyped ==
    ASSUME Typed, NEW q \in Queues, Calls(q)
    PROVE  Typed'
  <1>1. ASSUME NEW k \in Keys, NEW x \in Objects, NEW e \in Expiries \cup {NoExpiry},
               SetObject(q, k, x, e)
        PROVE  Typed'
    BY <1>1, BeginTyped DEF SetObject, Op
  <1>2. ASSUME NEW k \in Keys, Entry(q, k)
        PROVE  Typed'
    BY <1>2, BeginTyped DEF Entry, Op
  <1>3. ASSUME NEW k \in Keys, RemoveObject(q, k)
        PROVE  Typed'
    BY <1>3, BeginTyped DEF RemoveObject, Op
  <1>4. CASE RemoveAll(q)
    BY <1>4, BeginTyped DEF RemoveAll, Op
  <1>5. CASE RemoveExpired(q)
    BY <1>5, BeginTyped DEF RemoveExpired, Op
  <1> QED
    BY <1>1, <1>2, <1>3, <1>4, <1>5 DEF Calls

LEMMA IdleAbout == About(Idle) /\ Idle.stage = "idle" /\ Idle.op = "entry"
  BY DEF About, Idle, NewCall

LEMMA ReturnTyped ==
    ASSUME Typed, NEW q \in Queues, Return(q)
    PROVE  Typed'
  <1>1. Idle \in Call
    BY IdleType DEF Typed, TypeOK
  <1>2. call' \in [Queues -> Call] /\ WellFormed'
    BY <1>1, IdleAbout, NewTyped DEF Return
  <1> QED
    BY <1>2 DEF Return, Typed, TypeOK

(***************************************************************************)
(* Steps in memory.                                                        *)
(***************************************************************************)
LEMMA GotoTyped ==
    ASSUME Typed, NEW q \in Queues, NEW s \in Stage, Goto(q, s), call[q].stage # "idle",
           s = "keys" => call[q].op # "expire",
           call[q].op = "entry" => s \notin {"readDate", "setBack"}
    PROVE  call' \in [Queues -> Call] /\ WellFormed'
  BY GotoType, GotoAbout DEF Typed

LEMMA MemoryTyped ==
    ASSUME Typed, NEW q \in Queues, Memory(q)
    PROVE  Typed'
  <1> DEFINE c == call[q]
             k == c.key
  <1>0. c \in Call /\ About(c)
    BY DEF Typed, TypeOK, WellFormed
  <1> USE DEF At, Stage
  <1>1. CASE SetMemory(q)
    <2>1. [object |-> c.object, date |-> MemoryDate(c, now)] \in Stored
      BY <1>0, <1>1, CallDates DEF SetMemory, About, Stored, Typed, TypeOK
    <2>2. call' \in [Queues -> Call] /\ WellFormed'
      BY <1>1, GotoTyped DEF SetMemory
    <2> QED
      BY <1>1, <2>1, <2>2 DEF SetMemory, Typed, TypeOK
  <1>2. CASE RemoveMemory(q)
    <2>1. call' \in [Queues -> Call] /\ WellFormed'
      BY <1>2, GotoTyped DEF RemoveMemory
    <2> QED
      BY <1>2, <2>1 DEF RemoveMemory, Typed, TypeOK
  <1>3. CASE ClearMemory(q)
    <2>1. call' \in [Queues -> Call] /\ WellFormed'
      BY <1>3, GotoTyped DEF ClearMemory
    <2> QED
      BY <1>3, <2>1 DEF ClearMemory, Typed, TypeOK
  <1>4. CASE ReadMemory(q)
    <2>1. ASSUME Present(memory[k])
          PROVE  /\ [c EXCEPT !.object = memory[k].object, !.date = memory[k].date,
                              !.stage = "ok"] \in Call
                 /\ About([c EXCEPT !.object = memory[k].object, !.date = memory[k].date,
                                    !.stage = "ok"])
      <3>1. k \in Keys
        BY <1>0, <1>4 DEF ReadMemory, About
      <3>2. memory[k] \in Stored
        BY <2>1, <3>1 DEF Typed, TypeOK, Present
      <3> QED
        BY <1>0, <1>4, <3>1, <3>2 DEF ReadMemory, About, Call, Stored
    <2>2. [c EXCEPT !.stage = "read"] \in Call /\ About([c EXCEPT !.stage = "read"])
      BY <1>0, <1>4 DEF ReadMemory, About, Call
    <2>3. call' \in [Queues -> Call] /\ WellFormed'
      BY <1>4, <2>1, <2>2, NewTyped DEF ReadMemory
    <2> QED
      BY <1>4, <2>3 DEF ReadMemory, Typed, TypeOK
  <1>5. CASE ExpireMemory(q)
    <2>1. call' \in [Queues -> Call] /\ WellFormed'
      BY <1>5, GotoTyped DEF ExpireMemory
    <2> QED
      BY <1>5, <2>1 DEF ExpireMemory, Typed, TypeOK
  <1>6. CASE UpdateKeys(q)
    <2>1. c.op \in {"set", "entry", "remove", "removeAll"}
      BY <1>0, <1>6 DEF UpdateKeys, About, Call, Op
    <2>2. AfterKeys(c.op) \in {"create", "ok", "delete", "wipe"}
      BY <2>1 DEF AfterKeys
    <2>3. call' \in [Queues -> Call] /\ WellFormed'
      BY <1>6, <2>2, GotoTyped DEF UpdateKeys
    <2>4. KeysAfter(c) \in SUBSET Keys
      BY <1>0, <1>6, <2>1 DEF UpdateKeys, KeysAfter, About, Typed, TypeOK
    <2>5. keys' \in SUBSET Keys
      BY <1>6, <2>4 DEF UpdateKeys
    <2> QED
      BY <1>6, <2>3, <2>5 DEF UpdateKeys, Typed, TypeOK
  <1> QED
    BY <1>1, <1>2, <1>3, <1>4, <1>5, <1>6 DEF Memory

(***************************************************************************)
(* Steps on disk.                                                          *)
(***************************************************************************)
LEMMA NowIsDate == TypeOK => now \in Date
  BY DEF TypeOK, Date

LEMMA FileStepsTyped ==
    ASSUME Typed, NEW q \in Queues,
           CreateFile(q) \/ SetDate(q) \/ DeleteFile(q) \/ Wipe(q) \/ MakeDir(q)
    PROVE  Typed'
  <1> DEFINE c == call[q]
             k == c.key
  <1>0. c \in Call /\ About(c)
    BY DEF Typed, TypeOK, WellFormed
  <1> USE DEF At, Stage
  <1>1. CASE CreateFile(q)
    <2>1. c.object \in Objects /\ now \in Date
      BY <1>0, <1>1, NowIsDate DEF CreateFile, About, Typed
    <2>2. Created(k, c.object) \in File /\ Created(k, Broken) \in File
      BY <2>1 DEF Created, File
    <2>3. call' \in [Queues -> Call] /\ WellFormed'
      BY <1>1, GotoTyped DEF CreateFile
    <2>4. disk' \in [Keys -> File \cup {Missing}]
      BY <1>1, <2>2 DEF CreateFile, Typed, TypeOK
    <2>5. torn' \subseteq Keys
      BY <1>0, <1>1 DEF CreateFile, About, Typed, TypeOK
    <2> QED
      BY <1>1, <2>3, <2>4, <2>5 DEF CreateFile, Typed, TypeOK
  <1>2. CASE SetDate(q)
    <2>1. k \in Keys
      BY <1>0, <1>2 DEF SetDate, About
    <2>2. ASSUME Present(disk[k])
          PROVE  [disk[k] EXCEPT !.date = DiskDate(c, now)] \in File
      <3>1. DiskDate(c, now) \in Date
        BY <1>0, CallDates DEF Typed, TypeOK
      <3> QED
        BY <2>1, <2>2, <3>1 DEF Present, Typed, TypeOK, File
    <2>3. call' \in [Queues -> Call] /\ WellFormed'
      BY <1>2, GotoTyped DEF SetDate
    <2>4. disk' \in [Keys -> File \cup {Missing}]
      BY <1>2, <2>2 DEF SetDate, Typed, TypeOK
    <2> QED
      BY <1>2, <2>1, <2>3, <2>4 DEF SetDate, Typed, TypeOK
  <1>3. CASE DeleteFile(q)
    <2>1. k \in Keys
      BY <1>0, <1>3 DEF DeleteFile, About
    <2>2. call' \in [Queues -> Call] /\ WellFormed'
      BY <1>3, GotoTyped DEF DeleteFile
    <2>3. torn' \subseteq Keys /\ disk' \in [Keys -> File \cup {Missing}]
      BY <1>3, <2>1 DEF DeleteFile, Typed, TypeOK
    <2> QED
      BY <1>3, <2>2, <2>3 DEF DeleteFile, Typed, TypeOK
  <1>4. CASE Wipe(q)
    <2>1. call' \in [Queues -> Call] /\ WellFormed'
      BY <1>4, GotoTyped DEF Wipe
    <2>2. torn' \subseteq Keys /\ disk' \in [Keys -> File \cup {Missing}] /\ dir' \in BOOLEAN
      BY <1>4 DEF Wipe, Typed, TypeOK
    <2> QED
      BY <1>4, <2>1, <2>2 DEF Wipe, Typed, TypeOK
  <1>5. CASE MakeDir(q)
    <2>1. call' \in [Queues -> Call] /\ WellFormed'
      BY <1>5, GotoTyped DEF MakeDir
    <2> QED
      BY <1>5, <2>1 DEF MakeDir, Typed, TypeOK
  <1> QED
    BY <1>1, <1>2, <1>3, <1>4, <1>5

LEMMA ReadStepsTyped ==
    ASSUME Typed, NEW q \in Queues, ReadFile(q) \/ ReadDate(q) \/ SetBack(q)
    PROVE  Typed'
  <1> DEFINE c == call[q]
             k == c.key
  <1>0. c \in Call /\ About(c)
    BY DEF Typed, TypeOK, WellFormed
  <1> USE DEF At, Stage
  <1>1. CASE ReadFile(q)
    <2> DEFINE d == [c EXCEPT !.object = disk[k].object, !.stage = "readDate"]
    <2>1. ASSUME Readable(disk[k])
          PROVE  d \in Call /\ About(d)
      BY <1>0, <1>1, <2>1 DEF ReadFile, Readable, About, Call
    <2>2. ASSUME Goto(q, "error")
          PROVE  call' \in [Queues -> Call] /\ WellFormed'
      BY <1>1, <2>2, GotoTyped DEF ReadFile
    <2>3. call' \in [Queues -> Call] /\ WellFormed'
      <3>1. CASE Goto(q, "error")
        BY <2>2, <3>1
      <3>2. CASE Readable(disk[k]) /\ call' = [call EXCEPT ![q] = d]
        BY <2>1, <3>2, NewTyped
      <3> QED
        BY <1>1, <3>1, <3>2 DEF ReadFile, Typed, TypeOK
    <2> QED
      BY <1>1, <2>3 DEF ReadFile, Typed, TypeOK
  <1>2. CASE ReadDate(q)
    <2> DEFINE d == [c EXCEPT !.date = disk[k].date, !.stage = "setBack"]
    <2>1. k \in Keys
      BY <1>0, <1>2 DEF ReadDate, About
    <2>2. ASSUME Present(disk[k])
          PROVE  d \in Call /\ About(d)
      <3>1. disk[k].date \in Date
        BY <2>1, <2>2 DEF Present, Typed, TypeOK, File
      <3> QED
        BY <1>0, <1>2, <3>1 DEF ReadDate, About, Call
    <2>3. call' \in [Queues -> Call] /\ WellFormed'
      <3>1. CASE Goto(q, "error")
        BY <1>2, <3>1, GotoTyped DEF ReadDate
      <3>2. CASE Present(disk[k]) /\ call' = [call EXCEPT ![q] = d]
        BY <2>2, <3>2, NewTyped
      <3> QED
        BY <1>2, <3>1, <3>2 DEF ReadDate, Typed, TypeOK
    <2> QED
      BY <1>2, <2>3 DEF ReadDate, Typed, TypeOK
  <1>3. CASE SetBack(q)
    <2>1. Back(c) \in Stored
      BY <1>0, <1>3 DEF SetBack, Back, About, Call, Stored
    <2>2. call' \in [Queues -> Call] /\ WellFormed'
      BY <1>3, GotoTyped DEF SetBack
    <2> QED
      BY <1>3, <2>1, <2>2 DEF SetBack, Typed, TypeOK
  <1> QED
    BY <1>1, <1>2, <1>3

LEMMA DeleteTyped ==
    ASSUME Typed, NEW q \in Queues, NEW k \in Keys, NEW next \in Call, About(next),
           call[q].op = "expire", call[q].stage # "idle", Delete(q, k, next)
    PROVE  /\ disk' \in [Keys -> File \cup {Missing}] /\ torn' \subseteq Keys
           /\ call' \in [Queues -> Call] /\ WellFormed'
  <1>1. disk' \in [Keys -> File \cup {Missing}] /\ torn' \subseteq Keys
    BY DEF Delete, Typed, TypeOK
  <1>2. CASE Goto(q, "error")
    BY <1>1, <1>2, GotoTyped DEF Stage
  <1>3. CASE call' = [call EXCEPT ![q] = next]
    BY <1>1, <1>3, NewTyped
  <1> QED
    BY <1>2, <1>3 DEF Delete

LEMMA ExpiryTyped ==
    ASSUME Typed, NEW q \in Queues, List(q) \/ Purge(q) \/ Trim(q)
    PROVE  Typed'
  <1> DEFINE c == call[q]
  <1>0. c \in Call /\ About(c)
    BY DEF Typed, TypeOK, WellFormed
  <1> USE DEF At
  <1>1. CASE List(q)
    <2> DEFINE there == {k \in Keys : Present(disk[k])}
               old == {k \in there : Expired(disk[k])}
               d == [c EXCEPT !.files = disk, !.purge = old, !.trim = there \ old,
                              !.stage = "purge"]
    <2>1. d \in Call /\ About(d)
      BY <1>0, <1>1 DEF List, About, Call, Stage, Typed, TypeOK
    <2>2. call' \in [Queues -> Call] /\ WellFormed'
      <3>1. CASE Goto(q, "error")
        BY <1>1, <3>1, GotoTyped DEF List, Stage
      <3>2. CASE call' = [call EXCEPT ![q] = d]
        BY <2>1, <3>2, NewTyped
      <3> QED
        BY <1>1, <3>1, <3>2 DEF List
    <2> QED
      BY <1>1, <2>2 DEF List, Typed, TypeOK
  <1>2. CASE Purge(q)
    <2>1. ASSUME NEW k \in c.purge
          PROVE  k \in Keys /\ [c EXCEPT !.purge = @ \ {k}] \in Call
                 /\ About([c EXCEPT !.purge = @ \ {k}])
      BY <1>0, <1>2 DEF Purge, About, Call
    <2>2. CASE \E k \in c.purge : Delete(q, k, [c EXCEPT !.purge = @ \ {k}])
      BY <1>2, <2>1, <2>2, DeleteTyped DEF Purge, Typed, TypeOK
    <2>3. CASE Goto(q, IF OverLimit(c) THEN "trim" ELSE "ok") /\ UNCHANGED <<disk, torn>>
      <3>1. call' \in [Queues -> Call] /\ WellFormed'
        BY <1>2, <2>3, GotoTyped DEF Purge, Stage
      <3> QED
        BY <1>2, <2>3, <3>1 DEF Purge, Typed, TypeOK
    <2> QED
      BY <1>2, <2>2, <2>3 DEF Purge
  <1>3. CASE Trim(q)
    <2>1. PICK k \in c.trim : \E s \in {"ok", "trim"} :
              Delete(q, k, [[c EXCEPT !.trim = @ \ {k}] EXCEPT !.stage = s])
      BY <1>3 DEF Trim
    <2>2. PICK s \in {"ok", "trim"} :
              Delete(q, k, [[c EXCEPT !.trim = @ \ {k}] EXCEPT !.stage = s])
      BY <2>1
    <2> DEFINE d == [[c EXCEPT !.trim = @ \ {k}] EXCEPT !.stage = s]
    <2>3. k \in Keys /\ d \in Call /\ About(d)
      BY <1>0, <1>3 DEF Trim, About, Call, Stage
    <2> QED
      BY <1>3, <2>2, <2>3, DeleteTyped DEF Trim, Typed, TypeOK
  <1> QED
    BY <1>1, <1>2, <1>3

(***************************************************************************)
(* Steps around the storage, and the theorem.                              *)
(***************************************************************************)
LEMMA AroundTyped ==
    ASSUME Typed, (\E k \in Keys : Evict(k)) \/ Tick \/ Restart
    PROVE  Typed'
  <1>1. CASE \E k \in Keys : Evict(k)
    BY <1>1, MissingTypes DEF Evict, Typed, TypeOK, WellFormed
  <1>2. CASE Tick
    BY <1>2 DEF Tick, Typed, TypeOK, WellFormed
  <1>3. CASE Restart
    <2>1. Idle \in Call /\ About(Idle)
      BY IdleType, IdleAbout DEF Typed, TypeOK
    <2>2. call' \in [Queues -> Call] /\ WellFormed'
      BY <1>3, <2>1 DEF Restart, WellFormed
    <2>3. /\ memory' \in [Keys -> Stored \cup {Missing}]
          /\ disk' \in [Keys -> File \cup {Missing}]
      BY <1>3, MissingTypes DEF Restart, Typed, TypeOK
    <2> QED
      BY <1>3, <2>2, <2>3 DEF Restart, Typed, TypeOK
  <1> QED
    BY <1>1, <1>2, <1>3

LEMMA InitTyped == Init => Typed
  <1> SUFFICES ASSUME Init
               PROVE  Typed
    OBVIOUS
  <1>1. now \in 0 .. MaxTime
    BY DEF Init
  <1>2. Idle \in Call /\ About(Idle)
    BY <1>1, IdleType, IdleAbout
  <1> QED
    BY <1>1, <1>2, MissingTypes DEF Init, Typed, TypeOK, WellFormed

LEMMA StepTyped == Typed /\ [Next]_vars => Typed'
  <1> SUFFICES ASSUME Typed, [Next]_vars
               PROVE  Typed'
    OBVIOUS
  <1>1. ASSUME NEW q \in Queues, Calls(q) \/ Memory(q) \/ Disk(q) \/ Return(q)
        PROVE  Typed'
    BY <1>1, CallsTyped, MemoryTyped, ReturnTyped, FileStepsTyped, ReadStepsTyped,
       ExpiryTyped DEF Disk
  <1>2. CASE UNCHANGED vars
    BY <1>2 DEF vars, Typed, TypeOK, WellFormed, About
  <1> QED
    BY <1>1, <1>2, AroundTyped DEF Next

\* Every variable keeps its type, whatever the interfaces do and however they overlap.
THEOREM TypeCorrect == Spec => []TypeOK
  <1>1. Typed => TypeOK
    BY DEF Typed
  <1> QED
    BY <1>1, InitTyped, StepTyped, PTL DEF Spec

(***************************************************************************)
(* One interface: the key set covers the cache.                            *)
(***************************************************************************)
OneQueue == \A q, r \in Queues : q = r

\* A cached key is in the key set or about to enter it, and a key about to leave the key
\* set has left the cache.
Covered ==
    /\ \A k \in Keys : Present(memory[k]) =>
          k \in keys \/ \E q \in Queues :
                           /\ call[q].stage = "keys" /\ call[q].key = k
                           /\ call[q].op \in {"set", "entry"}
    /\ \A q \in Queues : call[q].stage = "keys" =>
          /\ call[q].op = "remove" => ~Present(memory[call[q].key])
          /\ call[q].op = "removeAll" => \A k \in Keys : ~Present(memory[k])

\* A step that keeps away from memory and from the key set, and is not at it.
LEMMA QuietCovered ==
    ASSUME OneQueue, Typed, Covered, UNCHANGED <<memory, keys>>, NEW q \in Queues,
           call[q].stage # "keys", call'[q].stage # "keys"
    PROVE  Covered'
  BY DEF OneQueue, Covered

LEMMA CallsCovered ==
    ASSUME OneQueue, Typed, Covered, NEW q \in Queues, Calls(q) \/ Return(q)
    PROVE  Covered'
  <1>1. ASSUME NEW o, NEW k, NEW x, NEW e, Begin(q, NewCall(o, k, x, e))
        PROVE  Covered'
    <2>1. call'[q].stage = "memory" /\ call[q].stage = "idle" /\ UNCHANGED <<memory, keys>>
      BY <1>1 DEF Begin, NewCall, Typed, TypeOK
    <2> QED
      BY <2>1, QuietCovered
  <1>2. CASE Return(q)
    <2>1. call'[q].stage = "idle" /\ call[q].stage # "keys" /\ UNCHANGED <<memory, keys>>
      BY <1>2, IdleAbout DEF Return, Typed, TypeOK
    <2> QED
      BY <2>1, QuietCovered
  <1> QED
    BY <1>1, <1>2 DEF Calls, SetObject, Entry, RemoveObject, RemoveAll, RemoveExpired

LEMMA MemoryCovered ==
    ASSUME OneQueue, Typed, Covered, NEW q \in Queues, Memory(q)
    PROVE  Covered'
  <1> DEFINE c == call[q]
             k == c.key
  <1>0. c \in Call /\ About(c) /\ call \in [Queues -> Call]
    BY DEF Typed, TypeOK, WellFormed
  <1>b. c.stage # "keys" => \A j \in Keys : Present(memory[j]) => j \in keys
    BY DEF OneQueue, Covered
  <1>1. CASE SetMemory(q)
    <2>1. call'[q].stage = "keys" /\ call'[q].op = "set" /\ call'[q].key = k
      BY <1>0, <1>1 DEF Goto, SetMemory, At, Call
    <2>2. \A j \in Keys \ {k} : memory'[j] = memory[j]
      BY <1>1 DEF SetMemory, Typed, TypeOK
    <2> QED
      BY <1>1, <1>b, <2>1, <2>2 DEF SetMemory, At, OneQueue, Covered
  <1>2. CASE RemoveMemory(q)
    <2>1. call'[q].stage = "keys" /\ call'[q].op = "remove" /\ call'[q].key = k /\ k \in Keys
      BY <1>0, <1>2 DEF Goto, RemoveMemory, At, Call, About
    <2>2. \A j \in Keys : memory'[j] = IF j = k THEN Missing ELSE memory[j]
      BY <1>2 DEF RemoveMemory, Typed, TypeOK
    <2> QED
      BY <1>2, <1>b, <2>1, <2>2, MissingTypes DEF RemoveMemory, At, OneQueue, Covered
  <1>3. CASE ClearMemory(q)
    <2>1. call'[q].stage = "keys" /\ call'[q].op = "removeAll"
      BY <1>0, <1>3 DEF Goto, ClearMemory, At, Call
    <2> QED
      BY <1>3, <2>1, MissingTypes DEF ClearMemory, OneQueue, Covered
  <1>4. CASE ReadMemory(q)
    <2>1. call'[q].stage # "keys" /\ c.stage # "keys"
      BY <1>0, <1>4 DEF ReadMemory, At, Typed, TypeOK, Call
    <2> QED
      BY <1>4, <2>1, QuietCovered DEF ReadMemory
  <1>5. CASE ExpireMemory(q)
    <2>1. call'[q].stage = "list"
      BY <1>0, <1>5 DEF Goto, ExpireMemory, Call
    <2>2. \A j \in Keys : Present(memory'[j]) => j \in keys'
      BY <1>5, <1>b, MissingTypes DEF ExpireMemory, At
    <2> QED
      BY <2>1, <2>2 DEF OneQueue, Covered
  <1>6. CASE UpdateKeys(q)
    <2>1. c.op \in {"set", "entry", "remove", "removeAll"} /\ c.stage = "keys"
      BY <1>0, <1>6 DEF UpdateKeys, About, Call, Op
    <2>2. AfterKeys(c.op) # "keys"
      BY <2>1 DEF AfterKeys
    <2>3. call'[q].stage # "keys"
      BY <1>0, <1>6, <2>2 DEF Goto, UpdateKeys, Call
    <2>4. keys' = KeysAfter(c) /\ memory' = memory
      BY <1>6 DEF UpdateKeys, OneQueue
    <2>5. \A j \in Keys : Present(memory[j]) => j \in KeysAfter(c)
      BY <2>1 DEF KeysAfter, OneQueue, Covered
    <2> QED
      BY <2>3, <2>4, <2>5 DEF OneQueue, Covered
  <1> QED
    BY <1>1, <1>2, <1>3, <1>4, <1>5, <1>6 DEF Memory

LEMMA DiskCovered ==
    ASSUME OneQueue, Typed, Covered, NEW q \in Queues, Disk(q)
    PROVE  Covered'
  <1> DEFINE c == call[q]
             k == c.key
  <1>0. c \in Call /\ About(c) /\ call \in [Queues -> Call]
    BY DEF Typed, TypeOK, WellFormed
  <1>1. CASE SetBack(q)
    <2>1. call'[q].stage = "keys" /\ call'[q].op = "entry" /\ call'[q].key = k
      BY <1>0, <1>1 DEF Goto, SetBack, At, Call
    <2>2. \A j \in Keys \ {k} : memory'[j] = memory[j]
      BY <1>1 DEF SetBack, Typed, TypeOK
    <2>3. \A j \in Keys : Present(memory[j]) => j \in keys
      BY <1>1 DEF SetBack, At, OneQueue, Covered
    <2> QED
      BY <1>1, <2>1, <2>2, <2>3 DEF SetBack, OneQueue, Covered
  <1>2. CASE CreateFile(q) \/ SetDate(q) \/ DeleteFile(q) \/ Wipe(q) \/ MakeDir(q)
    <2>1. UNCHANGED <<memory, keys>> /\ c.stage # "keys"
      BY <1>2 DEF CreateFile, SetDate, DeleteFile, Wipe, MakeDir, At
    <2>2. \E s \in {"date", "ok", "error", "mkdir"} : Goto(q, s)
      BY <1>2 DEF CreateFile, SetDate, DeleteFile, Wipe, MakeDir
    <2>3. call'[q].stage # "keys"
      BY <1>0, <2>2 DEF Goto, Call
    <2> QED
      BY <2>1, <2>3, QuietCovered
  <1>3. CASE ReadFile(q) \/ ReadDate(q)
    <2>1. UNCHANGED <<memory, keys>> /\ c.stage # "keys"
      BY <1>3 DEF ReadFile, ReadDate, At
    <2>2. call'[q].stage # "keys"
      BY <1>0, <1>3 DEF Goto, ReadFile, ReadDate, Call, Typed, TypeOK
    <2> QED
      BY <2>1, <2>2, QuietCovered
  <1>4. CASE List(q) \/ Purge(q) \/ Trim(q)
    <2>1. UNCHANGED <<memory, keys>> /\ c.stage # "keys"
      BY <1>4 DEF List, Purge, Trim, At
    <2>2. call'[q].stage # "keys"
      <3>1. CASE List(q)
        <4> DEFINE there == {j \in Keys : Present(disk[j])}
                   old == {j \in there : Expired(disk[j])}
                   d == [c EXCEPT !.files = disk, !.purge = old, !.trim = there \ old,
                                  !.stage = "purge"]
        <4>1. CASE Goto(q, "error")
          BY <1>0, <4>1 DEF Goto, Call
        <4>2. CASE call' = [call EXCEPT ![q] = d]
          <5>1. d.stage = "purge"
            BY <1>0 DEF Call
          <5> QED
            BY <1>0, <4>2, <5>1
        <4> QED
          BY <3>1, <4>1, <4>2 DEF List
      <3>2. CASE Purge(q)
        BY <1>0, <3>2 DEF Goto, Purge, Delete, At, Call, Typed, TypeOK
      <3>3. CASE Trim(q)
        <4>1. PICK j \in c.trim, s \in {"ok", "trim"} :
                  Delete(q, j, [[c EXCEPT !.trim = @ \ {j}] EXCEPT !.stage = s])
          BY <3>3 DEF Trim
        <4> DEFINE d == [[c EXCEPT !.trim = @ \ {j}] EXCEPT !.stage = s]
        <4>2. d.stage \in {"ok", "trim"}
          BY <1>0 DEF Call
        <4>3. CASE call' = [call EXCEPT ![q] = d]
          BY <1>0, <4>2, <4>3
        <4>4. CASE Goto(q, "error")
          BY <1>0, <4>4 DEF Goto, Call
        <4> QED
          BY <4>1, <4>3, <4>4 DEF Delete
      <3> QED
        BY <1>4, <3>1, <3>2, <3>3
    <2> QED
      BY <2>1, <2>2, QuietCovered
  <1> QED
    BY <1>1, <1>2, <1>3, <1>4 DEF Disk

LEMMA AroundCovered ==
    ASSUME OneQueue, Typed, Covered, (\E k \in Keys : Evict(k)) \/ Tick \/ Restart
    PROVE  Covered'
  <1>1. CASE \E k \in Keys : Evict(k)
    <2>1. \A j \in Keys : Present(memory'[j]) => Present(memory[j])
      BY <1>1, MissingTypes DEF Evict, Typed, TypeOK
    <2>2. UNCHANGED <<keys, call>>
      BY <1>1 DEF Evict
    <2>3. ASSUME NEW q \in Queues, call[q].stage = "keys", call[q].op = "remove"
          PROVE  call[q].key \in Keys
      BY <2>3 DEF Typed, WellFormed, About
    <2> QED
      BY <2>1, <2>2, <2>3 DEF Covered
  <1>2. CASE Tick
    BY <1>2 DEF Tick, Covered
  <1>3. CASE Restart
    BY <1>3, MissingTypes, IdleAbout DEF Restart, Covered
  <1> QED
    BY <1>1, <1>2, <1>3

LEMMA StepCovered == OneQueue /\ Typed /\ Covered /\ [Next]_vars => Covered'
  <1> SUFFICES ASSUME OneQueue, Typed, Covered, [Next]_vars
               PROVE  Covered'
    OBVIOUS
  <1>1. CASE UNCHANGED vars
    BY <1>1 DEF vars, Covered
  <1> QED
    BY <1>1, CallsCovered, MemoryCovered, DiskCovered, AroundCovered DEF Next

\* With one interface in use, no cached entry hides from removeExpiredObjects.
THEOREM KeySetCoversCache == ASSUME OneQueue PROVE Spec => []KeysCover
  <1>1. Init => Covered
    BY MissingTypes, IdleAbout DEF Init, Covered
  <1>2. Covered => KeysCover
    BY DEF Covered, KeysCover
  <1>3. Covered /\ Typed /\ [Next]_vars => Covered'
    BY StepCovered
  <1> QED
    BY <1>1, <1>2, <1>3, InitTyped, StepTyped, PTL DEF Spec

(***************************************************************************)
(* One interface: memory and disk agree.                                   *)
(***************************************************************************)

\* An entry in memory agrees with a file.
Agree(m, f) == m.object = f.object /\ (MemoryFirst => m.date <= f.date)

\* What a call knows of the entry it is at: while it sets one, memory has the new entry,
\* dated at some moment until now, or none, and the file it has created the new object;
\* while it reads one from its file, memory has none, and the file is what has been read
\* of it.
DatedBy(m, c) == \E s \in 0 .. now : m = [object |-> c.object, date |-> MemoryDate(c, s)]
Knows(c) ==
    LET k == c.key IN
    /\ c.stage = "idle" => c.op = "entry"
    /\ c.op = "set" /\ c.stage \in {"keys", "create", "date"} =>
          (Present(memory[k]) => DatedBy(memory[k], c))
    /\ c.op = "set" /\ c.stage = "date" /\ k \notin torn /\ Present(disk[k]) =>
          disk[k].object = c.object
    /\ c.op = "entry" /\ c.stage \in {"read", "readDate", "setBack"} => ~Present(memory[k])
    /\ c.op = "entry" /\ c.stage = "readDate" => disk[k].object = c.object
    /\ c.op = "entry" /\ c.stage = "setBack" =>
          disk[k] = [object |-> c.object, date |-> c.date]
AllAgree ==
    \A k \in Keys :
        Present(memory[k]) /\ Present(disk[k]) /\ k \notin torn /\ ~Setting(k)
        => Agree(memory[k], disk[k])
Agreed == AllAgree /\ \A q \in Queues : Knows(call[q])

\* A file agrees with itself, and calls that ask for the same give it the same date.
LEMMA AgreeSelf == ASSUME NEW f \in File PROVE Agree(f, f)
  BY DEF Agree, File, Date

LEMMA SameDates ==
    ASSUME NEW c, NEW d, d.expiry = c.expiry, NEW s
    PROVE  MemoryDate(d, s) = MemoryDate(c, s)
  BY DEF MemoryDate

\* A step of the call that leaves the entry and what the call asks for as they are.
LEMMA StaysDated ==
    ASSUME NEW q \in Queues, NEW j, memory'[j] = memory[j], now' = now,
           call'[q].object = call[q].object, call'[q].expiry = call[q].expiry,
           DatedBy(memory[j], call[q])
    PROVE  DatedBy(memory[j], call[q])'
  <1>1. PICK s \in 0 .. now :
            memory[j] = [object |-> call[q].object, date |-> MemoryDate(call[q], s)]
    BY DEF DatedBy
  <1>2. MemoryDate(call'[q], s) = MemoryDate(call[q], s)
    BY SameDates
  <1> QED
    BY <1>1, <1>2 DEF DatedBy

Busy(c, k) == c.op = "set" /\ c.key = k /\ c.stage \notin {"ok", "error"}

LEMMA SettingIsBusy ==
    ASSUME OneQueue, NEW q \in Queues
    PROVE  /\ \A k \in Keys : Setting(k) <=> Busy(call[q], k)
           /\ \A k \in Keys : Setting(k)' <=> Busy(call'[q], k)
  BY DEF OneQueue, Setting, Busy

\* The invariant in the terms of the one call there is.
LEMMA AgreedOne ==
    ASSUME OneQueue, NEW q \in Queues
    PROVE  /\ Agreed <=>
              /\ \A k \in Keys :
                    Present(memory[k]) /\ Present(disk[k]) /\ k \notin torn
                    /\ ~Busy(call[q], k) => Agree(memory[k], disk[k])
              /\ Knows(call[q])
           /\ Agreed' <=>
              /\ \A k \in Keys :
                    Present(memory'[k]) /\ Present(disk'[k]) /\ k \notin torn'
                    /\ ~Busy(call'[q], k) => Agree(memory'[k], disk'[k])
              /\ Knows(call[q])'
  <1>1. /\ \A k \in Keys : Setting(k) <=> Busy(call[q], k)
        /\ \A k \in Keys : Setting(k)' <=> Busy(call'[q], k)
    BY SettingIsBusy
  <1>2. (\A r \in Queues : Knows(call[r])) <=> Knows(call[q])
    BY DEF OneQueue
  <1>3. (\A r \in Queues : Knows(call[r]))' <=> Knows(call[q])'
    BY DEF OneQueue
  <1> QED
    BY <1>1, <1>2, <1>3 DEF Agreed, AllAgree

\* A step of the call that leaves memory and disk alone, and is no end of a set.
LEMMA QuietAgreed ==
    ASSUME OneQueue, Agreed, NEW q \in Queues, UNCHANGED <<memory, disk, torn>>,
           \A k \in Keys : Busy(call[q], k) => Busy(call'[q], k),
           Knows(call[q])'
    PROVE  Agreed'
  <1>1. \A k \in Keys : Present(memory[k]) /\ Present(disk[k]) /\ k \notin torn
                        /\ ~Busy(call[q], k) => Agree(memory[k], disk[k])
    BY AgreedOne
  <1>2. \A k \in Keys : Present(memory'[k]) /\ Present(disk'[k]) /\ k \notin torn'
                        /\ ~Busy(call'[q], k) => Agree(memory'[k], disk'[k])
    BY <1>1
  <1> QED
    BY <1>2, AgreedOne

LEMMA CallsAgreed ==
    ASSUME OneQueue, Typed, Agreed, NEW q \in Queues, Calls(q) \/ Return(q)
    PROVE  Agreed'
  <1>0. call[q] \in Call /\ call \in [Queues -> Call] /\ About(call[q])
    BY DEF Typed, TypeOK, WellFormed
  <1>1. ASSUME NEW o, NEW k, NEW x, NEW e, Begin(q, NewCall(o, k, x, e)), o \in Op
        PROVE  Agreed'
    <2>1. call'[q] = NewCall(o, k, x, e) /\ UNCHANGED <<memory, disk, torn>>
      BY <1>0, <1>1 DEF Begin
    <2>2. Knows(call[q])'
      BY <2>1 DEF Knows, NewCall
    <2>3. call[q].op = "entry"
      BY <1>1 DEF Begin, Agreed, Knows
    <2> QED
      BY <2>1, <2>2, <2>3, QuietAgreed DEF Busy
  <1>2. CASE Return(q)
    <2>1. call'[q] = Idle /\ call[q].stage \in {"ok", "error"}
          /\ UNCHANGED <<memory, disk, torn>>
      BY <1>0, <1>2 DEF Return
    <2>2. Knows(call[q])'
      BY <2>1, IdleAbout DEF Knows
    <2> QED
      BY <2>1, <2>2, QuietAgreed DEF Busy
  <1> QED
    BY <1>1, <1>2 DEF Calls, SetObject, Entry, RemoveObject, RemoveAll, RemoveExpired, Op

\* A step of a call that sets and reads nothing: it only takes entries away, in memory or
\* on disk, and a file on which a step had failed counts as whole again only when it is gone.
LEMMA RemovalAgreed ==
    ASSUME OneQueue, Agreed, NEW q \in Queues,
           call[q].op \notin {"set", "entry"}, call'[q].op = call[q].op,
           call'[q].stage # "idle",
           \A k \in Keys :
              /\ memory'[k] \in {memory[k], Missing}
              /\ disk'[k] \in {disk[k], Missing}
              /\ k \in torn \ torn' => ~Present(disk'[k])
    PROVE  Agreed'
  <1>1. \A k \in Keys : Present(memory[k]) /\ Present(disk[k]) /\ k \notin torn
                        /\ ~Busy(call[q], k) => Agree(memory[k], disk[k])
    BY AgreedOne
  <1>2. \A k \in Keys : Present(memory'[k]) /\ Present(disk'[k]) /\ k \notin torn'
                        /\ ~Busy(call'[q], k) => Agree(memory'[k], disk'[k])
    BY <1>1, MissingTypes DEF Busy
  <1>3. Knows(call[q])'
    BY DEF Knows
  <1> QED
    BY <1>2, <1>3, AgreedOne

LEMMA SetMemoryAgreed ==
    ASSUME OneQueue, Typed, Agreed, NEW q \in Queues, SetMemory(q)
    PROVE  Agreed'
  <1> DEFINE c == call[q]
             k == c.key
  <1>0. c \in Call /\ About(c) /\ call \in [Queues -> Call] /\ Knows(c)
    BY DEF Typed, TypeOK, WellFormed, Agreed
  <1>a. \A j \in Keys : Present(memory[j]) /\ Present(disk[j]) /\ j \notin torn /\ ~Busy(c, j)
                        => Agree(memory[j], disk[j])
    BY AgreedOne
  <1>1. call'[q] = [c EXCEPT !.stage = "keys"] /\ c.op = "set" /\ c.stage = "memory"
    BY <1>0 DEF SetMemory, At, Goto
  <1>2. /\ call'[q].op = "set" /\ call'[q].key = k /\ call'[q].stage = "keys"
        /\ call'[q].object = c.object /\ call'[q].expiry = c.expiry
        /\ now' = now /\ now \in 0 .. now
    BY <1>0, <1>1 DEF SetMemory, Call, Typed, TypeOK
  <1>3. \A j \in Keys : memory'[j] = IF j = k
                                     THEN [object |-> c.object, date |-> MemoryDate(c, now)]
                                     ELSE memory[j]
    BY DEF SetMemory, Typed, TypeOK
  <1>7. MemoryDate(call'[q], now) = MemoryDate(c, now)
    BY <1>2, SameDates
  \* The key by a name of its own, which no prime changes.
  <1>8. PICK j : j = k
    OBVIOUS
  <1>9. memory'[j] = [object |-> c.object, date |-> MemoryDate(c, now)]
    BY <1>0, <1>1, <1>3, <1>8 DEF About
  <1>10. DatedBy(memory[j], call[q])'
    BY <1>2, <1>7, <1>9 DEF DatedBy
  <1>4. Knows(call[q])'
    BY <1>2, <1>8, <1>10 DEF Knows
  <1>5. \A i \in Keys : i # k => ~Busy(c, i)
    BY DEF Busy
  <1>6. \A i \in Keys : Present(memory'[i]) /\ Present(disk'[i]) /\ i \notin torn'
                        /\ ~Busy(call'[q], i) => Agree(memory'[i], disk'[i])
    BY <1>a, <1>2, <1>3, <1>5 DEF SetMemory, Busy
  <1> QED
    BY <1>4, <1>6, AgreedOne

LEMMA MemoryAgreed ==
    ASSUME OneQueue, Typed, Agreed, NEW q \in Queues, Memory(q)
    PROVE  Agreed'
  <1> DEFINE c == call[q]
             k == c.key
  <1>0. c \in Call /\ About(c) /\ call \in [Queues -> Call] /\ Knows(c)
    BY DEF Typed, TypeOK, WellFormed, Agreed
  <1> USE DEF At
  <1>1. CASE RemoveMemory(q) \/ ClearMemory(q) \/ ExpireMemory(q)
    <2>1. c.op \notin {"set", "entry"} /\ UNCHANGED <<disk, torn>>
      BY <1>1 DEF RemoveMemory, ClearMemory, ExpireMemory
    <2>2. call'[q].op = c.op /\ call'[q].stage # "idle"
      BY <1>0, <1>1 DEF RemoveMemory, ClearMemory, ExpireMemory, Goto, Call
    <2>3. \A j \in Keys : memory'[j] \in {memory[j], Missing}
      BY <1>1 DEF RemoveMemory, ClearMemory, ExpireMemory, Typed, TypeOK
    <2> QED
      BY <2>1, <2>2, <2>3, RemovalAgreed
  <1>2. CASE ReadMemory(q)
    <2>1. c.op = "entry" /\ k \in Keys /\ UNCHANGED <<memory, disk, torn>>
      BY <1>0, <1>2 DEF ReadMemory, About
    <2>2. /\ call'[q].op = "entry" /\ call'[q].key = k
          /\ call'[q].stage \in {"ok", "read"}
          /\ call'[q].stage = "read" => ~Present(memory[k])
      BY <1>0, <1>2 DEF ReadMemory, Call
    <2>3. Knows(call[q])'
      BY <2>1, <2>2 DEF Knows
    <2> QED
      BY <2>1, <2>3, QuietAgreed DEF Busy
  <1>3. CASE UpdateKeys(q)
    <2>1. c.op \in {"set", "entry", "remove", "removeAll"} /\ c.stage = "keys"
          /\ UNCHANGED <<memory, disk, torn, now>>
      BY <1>0, <1>3 DEF UpdateKeys, About, Call, Op
    <2>2. /\ call'[q].op = c.op /\ call'[q].key = k /\ call'[q].object = c.object
          /\ call'[q].expiry = c.expiry /\ call'[q].stage = AfterKeys(c.op)
      BY <1>0, <1>3 DEF UpdateKeys, Goto, Call
    <2>6. PICK j : j = k
      OBVIOUS
    <2>5. c.op = "set" /\ Present(memory[j]) => DatedBy(memory[j], call[q])'
      BY <1>0, <2>1, <2>2, <2>6, StaysDated DEF Knows
    <2>3. Knows(call[q])'
      BY <2>1, <2>2, <2>5, <2>6 DEF Knows, AfterKeys
    <2>4. \A i \in Keys : Busy(c, i) => Busy(call'[q], i)
      BY <2>1, <2>2 DEF Busy, AfterKeys
    <2> QED
      BY <2>1, <2>3, <2>4, QuietAgreed
  <1> QED
    BY <1>1, <1>2, <1>3, SetMemoryAgreed DEF Memory

LEMMA SetDiskAgreed ==
    ASSUME OneQueue, Typed, Agreed, NEW q \in Queues, CreateFile(q) \/ SetDate(q)
    PROVE  Agreed'
  <1> DEFINE c == call[q]
             k == c.key
  <1>0. c \in Call /\ About(c) /\ call \in [Queues -> Call] /\ Knows(c)
    BY DEF Typed, TypeOK, WellFormed, Agreed
  <1>a. \A j \in Keys : Present(memory[j]) /\ Present(disk[j]) /\ j \notin torn /\ ~Busy(c, j)
                        => Agree(memory[j], disk[j])
    BY AgreedOne
  <1>b. c.op = "set" /\ k \in Keys /\ memory' = memory
    BY <1>0 DEF CreateFile, SetDate, At, About
  <1>c. \A j \in Keys : j # k => ~Busy(c, j) /\ disk'[j] = disk[j]
                                 /\ (j \in torn' <=> j \in torn)
    BY <1>b DEF Busy, CreateFile, SetDate, Typed, TypeOK
  <1>1. CASE CreateFile(q)
    <2>1. /\ call'[q].op = "set" /\ call'[q].key = k /\ call'[q].stage = "date"
          /\ call'[q].object = c.object /\ call'[q].expiry = c.expiry /\ c.stage = "create"
          /\ now' = now
      BY <1>0, <1>1 DEF CreateFile, At, Goto, Call
    <2>6. PICK j : j = k
      OBVIOUS
    <2>5. Present(memory[j]) => DatedBy(memory[j], call[q])'
      BY <1>0, <1>b, <2>1, <2>6, StaysDated DEF Knows
    <2>2. k \in torn' \/ disk'[k].object = c.object
      BY <1>1, <1>b DEF CreateFile, Created, Typed, TypeOK
    <2>3. Knows(call[q])'
      BY <1>b, <2>1, <2>2, <2>5, <2>6 DEF Knows
    <2>4. \A i \in Keys : Present(memory'[i]) /\ Present(disk'[i]) /\ i \notin torn'
                          /\ ~Busy(call'[q], i) => Agree(memory'[i], disk'[i])
      BY <1>a, <1>b, <1>c, <2>1 DEF Busy
    <2> QED
      BY <2>3, <2>4, AgreedOne
  <1>2. CASE SetDate(q)
    <2>1. /\ call'[q].op = "set" /\ call'[q].key = k /\ call'[q].stage \in {"ok", "error"}
          /\ c.stage = "date" /\ now \in 0 .. MaxTime
      BY <1>0, <1>2 DEF SetDate, At, Goto, Call, Typed, TypeOK
    <2>2. ASSUME Present(memory[k]), k \notin torn'
          PROVE  Agree(memory[k], disk'[k])
      <3>1. /\ Present(disk[k]) /\ k \notin torn
            /\ disk' = [disk EXCEPT ![k].date = DiskDate(c, now)]
        BY <1>2, <2>2 DEF SetDate
      <3>2. disk[k] \in File /\ disk[k].object = c.object
        BY <1>0, <1>b, <2>1, <3>1 DEF Knows, Present, Typed, TypeOK
      <3>3. disk'[k].object = c.object /\ disk'[k].date = DiskDate(c, now)
        BY <1>b, <3>1, <3>2 DEF File, Typed, TypeOK
      <3>4. PICK s \in 0 .. now : memory[k] = [object |-> c.object, date |-> MemoryDate(c, s)]
        BY <1>0, <1>b, <2>1, <2>2 DEF Knows, DatedBy
      <3>5. s \in 0 .. MaxTime /\ s <= now
        BY <2>1, <3>4
      <3>6. MemoryFirst => MemoryDate(c, s) <= DiskDate(c, now)
        BY <1>0, <2>1, <3>5, MemoryDateFirst
      <3> QED
        BY <3>3, <3>4, <3>6 DEF Agree
    <2>3. Knows(call[q])'
      BY <2>1 DEF Knows
    <2>4. \A j \in Keys : Present(memory'[j]) /\ Present(disk'[j]) /\ j \notin torn'
                          /\ ~Busy(call'[q], j) => Agree(memory'[j], disk'[j])
      BY <1>a, <1>b, <1>c, <2>2
    <2> QED
      BY <2>3, <2>4, AgreedOne
  <1> QED
    BY <1>1, <1>2

LEMMA ReadAgreed ==
    ASSUME OneQueue, Typed, Agreed, NEW q \in Queues, ReadFile(q) \/ ReadDate(q) \/ SetBack(q)
    PROVE  Agreed'
  <1> DEFINE c == call[q]
             k == c.key
  <1>0. c \in Call /\ About(c) /\ call \in [Queues -> Call] /\ Knows(c)
    BY DEF Typed, TypeOK, WellFormed, Agreed
  <1>b. c.op = "entry" /\ k \in Keys /\ disk' = disk
    BY <1>0 DEF ReadFile, ReadDate, SetBack, At, About
  <1>1. CASE ReadFile(q)
    <2>1. /\ call'[q].op = "entry" /\ call'[q].key = k
          /\ \/ call'[q].stage = "readDate" /\ call'[q].object = disk[k].object
             \/ call'[q].stage = "error"
          /\ c.stage = "read" /\ UNCHANGED <<memory, torn>>
      BY <1>0, <1>1 DEF ReadFile, At, Goto, Call
    <2>2. Knows(call[q])'
      BY <1>0, <1>b, <2>1 DEF Knows
    <2> QED
      BY <1>b, <2>1, <2>2, QuietAgreed DEF Busy
  <1>2. CASE ReadDate(q)
    <2>1. /\ call'[q].op = "entry" /\ call'[q].key = k /\ call'[q].object = c.object
          /\ \/ call'[q].stage = "setBack" /\ call'[q].date = disk[k].date /\ Present(disk[k])
             \/ call'[q].stage = "error"
          /\ c.stage = "readDate" /\ UNCHANGED <<memory, torn>>
      BY <1>0, <1>2 DEF ReadDate, At, Goto, Call
    <2>2. Present(disk[k]) => disk[k] = [object |-> c.object, date |-> disk[k].date]
      BY <1>0, <1>b, <2>1 DEF Knows, Present, File, Typed, TypeOK
    <2>3. Knows(call[q])'
      BY <1>0, <1>b, <2>1, <2>2 DEF Knows
    <2> QED
      BY <1>b, <2>1, <2>3, QuietAgreed DEF Busy
  <1>3. CASE SetBack(q)
    <2>1. /\ call'[q].op = "entry" /\ call'[q].key = k /\ call'[q].stage = "keys"
          /\ c.stage = "setBack"
      BY <1>0, <1>3 DEF SetBack, At, Goto, Call
    <2>2. \A j \in Keys : memory'[j] = IF j = k THEN disk[k] ELSE memory[j]
      BY <1>0, <1>3, <1>b, <2>1 DEF SetBack, Back, Knows, Typed, TypeOK
    <2>3. \A j \in Keys : j # k => (j \in torn' <=> j \in torn)
      BY <1>3 DEF SetBack
    <2>4. \A j \in Keys : Present(memory[j]) /\ Present(disk[j]) /\ j \notin torn /\ ~Busy(c, j)
                          => Agree(memory[j], disk[j])
      BY AgreedOne
    <2>7. Present(disk[k]) => Agree(disk[k], disk[k])
      BY <1>b, AgreeSelf DEF Present, Typed, TypeOK
    <2>5. \A j \in Keys : Present(memory'[j]) /\ Present(disk'[j]) /\ j \notin torn'
                          /\ ~Busy(call'[q], j) => Agree(memory'[j], disk'[j])
      BY <1>b, <2>2, <2>3, <2>4, <2>7 DEF Busy
    <2>6. Knows(call[q])'
      BY <2>1 DEF Knows
    <2> QED
      BY <2>5, <2>6, AgreedOne
  <1> QED
    BY <1>1, <1>2, <1>3

LEMMA DiskAgreed ==
    ASSUME OneQueue, Typed, Agreed, NEW q \in Queues, Disk(q)
    PROVE  Agreed'
  <1> DEFINE c == call[q]
             k == c.key
  <1>0. c \in Call /\ About(c) /\ call \in [Queues -> Call]
    BY DEF Typed, TypeOK, WellFormed
  <1> USE DEF At
  <1>1. CASE DeleteFile(q) \/ Wipe(q) \/ MakeDir(q)
    <2>1. c.op \notin {"set", "entry"} /\ memory' = memory
      BY <1>1 DEF DeleteFile, Wipe, MakeDir
    <2>2. call'[q].op = c.op /\ call'[q].stage # "idle"
      BY <1>0, <1>1 DEF DeleteFile, Wipe, MakeDir, Goto, Call
    <2>3. \A j \in Keys : disk'[j] \in {disk[j], Missing}
      BY <1>1 DEF DeleteFile, Wipe, MakeDir, Typed, TypeOK
    <2>4. \A j \in Keys : j \in torn \ torn' => ~Present(disk'[j])
      BY <1>1, MissingTypes DEF DeleteFile, Wipe, MakeDir, Typed, TypeOK
    <2> QED
      BY <2>1, <2>2, <2>3, <2>4, RemovalAgreed
  <1>2. CASE List(q)
    <2>1. c.op = "expire" /\ UNCHANGED <<memory, disk, torn>>
      BY <1>2 DEF List
    <2>2. call'[q].op = c.op /\ call'[q].stage # "idle"
      <3> DEFINE there == {j \in Keys : Present(disk[j])}
                 old == {j \in there : Expired(disk[j])}
                 d == [c EXCEPT !.files = disk, !.purge = old, !.trim = there \ old,
                                !.stage = "purge"]
      <3>1. d.op = c.op /\ d.stage = "purge"
        BY <1>0 DEF Call
      <3>2. CASE Goto(q, "error")
        BY <1>0, <3>2 DEF Goto, Call
      <3>3. CASE call' = [call EXCEPT ![q] = d]
        BY <1>0, <3>1, <3>3
      <3> QED
        BY <1>2, <3>2, <3>3 DEF List
    <2> QED
      BY <2>1, <2>2, RemovalAgreed
  <1>3. ASSUME NEW j \in Keys, NEW d, Delete(q, j, d), d.op = c.op, d.stage # "idle",
               c.op = "expire", memory' = memory
        PROVE  Agreed'
    <2>1. call'[q].op = c.op /\ call'[q].stage # "idle"
      BY <1>0, <1>3 DEF Delete, Goto, Call
    <2>2. \A i \in Keys : disk'[i] \in {disk[i], Missing}
                          /\ (i \in torn \ torn' => ~Present(disk'[i]))
      BY <1>3, MissingTypes DEF Delete, Typed, TypeOK
    <2> QED
      BY <1>3, <2>1, <2>2, RemovalAgreed
  <1>4. CASE Purge(q)
    <2>1. c.op = "expire" /\ c.stage = "purge" /\ memory' = memory
      BY <1>4 DEF Purge
    <2>2. ASSUME NEW j \in c.purge
          PROVE  /\ j \in Keys
                 /\ [c EXCEPT !.purge = @ \ {j}].op = c.op
                 /\ [c EXCEPT !.purge = @ \ {j}].stage = "purge"
      BY <1>0, <2>1 DEF Call
    <2>3. CASE \E j \in c.purge : Delete(q, j, [c EXCEPT !.purge = @ \ {j}])
      BY <1>3, <2>1, <2>2, <2>3
    <2>4. CASE Goto(q, IF OverLimit(c) THEN "trim" ELSE "ok") /\ UNCHANGED <<disk, torn>>
      <3>1. call'[q].op = c.op /\ call'[q].stage # "idle"
        BY <1>0, <2>4 DEF Goto, Call
      <3> QED
        BY <2>1, <2>4, <3>1, RemovalAgreed
    <2> QED
      BY <1>4, <2>3, <2>4 DEF Purge
  <1>5. CASE Trim(q)
    <2>1. PICK j \in c.trim, s \in {"ok", "trim"} :
              Delete(q, j, [[c EXCEPT !.trim = @ \ {j}] EXCEPT !.stage = s])
      BY <1>5 DEF Trim
    <2> DEFINE d == [[c EXCEPT !.trim = @ \ {j}] EXCEPT !.stage = s]
    <2>2. j \in Keys /\ d.op = c.op /\ d.stage # "idle"
      BY <1>0 DEF Call
    <2> QED
      BY <1>3, <1>5, <2>1, <2>2 DEF Trim
  <1> QED
    BY <1>1, <1>2, <1>4, <1>5, SetDiskAgreed, ReadAgreed DEF Disk

LEMMA AroundAgreed ==
    ASSUME Typed, Agreed, (\E k \in Keys : Evict(k)) \/ Tick \/ Restart
    PROVE  Agreed'
  <1>1. CASE \E k \in Keys : Evict(k)
    <2>1. \A j \in Keys : memory'[j] \in {memory[j], Missing}
      BY <1>1 DEF Evict, Typed, TypeOK
    <2>2. UNCHANGED <<disk, torn, call, now>>
      BY <1>1 DEF Evict
    <2>3. AllAgree'
      BY <2>1, <2>2, MissingTypes DEF Agreed, AllAgree, Setting
    <2>4. ASSUME NEW q \in Queues
          PROVE  Knows(call[q])'
      <3>1. Knows(call[q]) /\ About(call[q])
        BY DEF Agreed, Typed, WellFormed
      <3>2. call[q].op \in {"set", "entry"} /\ call[q].stage # "idle" =>
                memory'[call[q].key] \in {memory[call[q].key], Missing}
        BY <2>1, <3>1 DEF About
      <3> QED
        BY <2>2, <3>1, <3>2, MissingTypes DEF Knows, DatedBy
    <2> QED
      BY <2>3, <2>4 DEF Agreed
  <1>2. CASE Tick
    <2>1. now' = now + 1 /\ now \in Nat /\ UNCHANGED <<memory, disk, torn, call>>
      BY <1>2 DEF Tick, Typed, TypeOK
    <2>2. \A m, c : DatedBy(m, c) => DatedBy(m, c)'
      BY <2>1 DEF DatedBy
    <2>3. ASSUME NEW q \in Queues
          PROVE  Knows(call[q])'
      <3>1. Knows(call[q])
        BY DEF Agreed
      <3> QED
        BY <2>1, <2>2, <3>1 DEF Knows
    <2>4. AllAgree'
      BY <2>1 DEF Agreed, AllAgree, Setting
    <2> QED
      BY <2>3, <2>4 DEF Agreed
  <1>3. CASE Restart
    <2>1. \A k \in Keys : ~Present(memory'[k])
      BY <1>3, MissingTypes DEF Restart
    <2>2. \A q \in Queues : call'[q].stage = "idle" /\ call'[q].op = "entry"
      BY <1>3, IdleAbout DEF Restart
    <2> QED
      BY <2>1, <2>2 DEF Agreed, AllAgree, Knows
  <1> QED
    BY <1>1, <1>2, <1>3

LEMMA StepAgreed == OneQueue /\ Typed /\ Agreed /\ [Next]_vars => Agreed'
  <1> SUFFICES ASSUME OneQueue, Typed, Agreed, [Next]_vars
               PROVE  Agreed'
    OBVIOUS
  <1>1. CASE UNCHANGED vars
    <2>1. UNCHANGED <<memory, disk, torn, call, now>>
      BY <1>1 DEF vars
    <2>2. \A m, c : DatedBy(m, c) => DatedBy(m, c)'
      BY <2>1 DEF DatedBy
    <2>3. (\A q \in Queues : Knows(call[q])) => (\A q \in Queues : Knows(call[q]))'
      BY <2>1, <2>2 DEF Knows
    <2> QED
      BY <2>1, <2>3 DEF Agreed, AllAgree, Setting
  <1> QED
    BY <1>1, CallsAgreed, MemoryAgreed, DiskAgreed, AroundAgreed DEF Next

LEMMA AgreedAlways == ASSUME OneQueue PROVE Spec => []Agreed
  <1>1. Init => Agreed
    BY MissingTypes, IdleAbout DEF Init, Agreed, AllAgree, Knows
  <1>2. Agreed /\ Typed /\ [Next]_vars => Agreed'
    BY StepAgreed
  <1> QED
    BY <1>1, <1>2, InitTyped, StepTyped, PTL DEF Spec

\* With one interface in use, memory and disk hold the same object for every key that is in
\* both, unless a step on disk has failed for it or it is being set.
THEOREM ObjectsAgree == ASSUME OneQueue PROVE Spec => []Coherent
  <1>1. Agreed => Coherent
    BY DEF Agreed, AllAgree, Agree, Coherent
  <1> QED
    BY <1>1, AgreedAlways, PTL

\* With one interface in use, and if what is stored without an expiry leaves memory no later
\* than the disk, no entry in memory is dated later than its file, whatever expiries callers
\* ask for and however long a call takes from one level to the other.
THEOREM FilesOutlive == ASSUME OneQueue, MemoryFirst PROVE Spec => []FileOutlives
  <1>1. Agreed => FileOutlives
    BY DEF Agreed, AllAgree, Agree, FileOutlives
  <1> QED
    BY <1>1, AgreedAlways, PTL
=============================================================================
