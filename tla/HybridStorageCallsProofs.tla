---------------------- MODULE HybridStorageCallsProofs ----------------------
(***************************************************************************)
(* What the calls of one interface achieve, for all keys, objects, sizes   *)
(* and limits: no object that was replaced or removed comes back, and a    *)
(* call that returns without an error has done what it is for.             *)
(***************************************************************************)
EXTENDS HybridStorageProofs, FiniteSetTheorems, WellFoundedInduction

USE KeysAssumption, ObjectsAssumption, BoundsAssumption

(***************************************************************************)
(* Nothing that was replaced comes back.                                   *)
(***************************************************************************)

\* What entry would find for k is what it found before, or nothing.
NotBack(k) == Found(k)' \in {Found(k), NoObject}

\* A step that only takes entries away, in memory or on disk.
LEMMA TakesAway ==
    ASSUME Typed, Agreed, NEW k \in Keys, k \notin torn, ~Setting(k),
           memory'[k] \in {memory[k], Missing}, disk'[k] \in {disk[k], Missing}
    PROVE  NotBack(k)
  <1>1. Present(memory[k]) /\ Present(disk[k]) => memory[k].object = disk[k].object
    BY DEF Agreed, AllAgree, Agree
  <1>2. ~Present(Missing) /\ ~Readable(Missing) /\ Missing.object = NoObject
    BY DEF Missing, Present, Readable
  <1>3. Readable(disk[k]) => Present(disk[k])
    BY <1>2 DEF Present
  <1> QED
    BY <1>1, <1>2, <1>3 DEF NotBack, Found, Readable

\* A call that sets an object is at the key being set.
LEMMA SetsItsKey ==
    ASSUME Typed, NEW q \in Queues, SetMemory(q) \/ CreateFile(q) \/ SetDate(q),
           NEW k \in Keys, ~Setting(k)
    PROVE  memory'[k] = memory[k] /\ disk'[k] = disk[k]
  <1>1. k # call[q].key
    BY DEF Setting, SetMemory, CreateFile, SetDate, At
  <1> QED
    BY <1>1 DEF SetMemory, CreateFile, SetDate, Typed, TypeOK

\* What a lookup puts back is what its file holds.
LEMMA PutsBackFile ==
    ASSUME Typed, Agreed, NEW q \in Queues, SetBack(q), NEW k \in Keys
    PROVE  NotBack(k)
  <1> DEFINE c == call[q]
  <1>0. /\ c \in Call /\ About(c) /\ Knows(c) /\ disk' = disk
        /\ c.op = "entry" /\ c.stage = "setBack"
    BY DEF Typed, TypeOK, WellFormed, Agreed, SetBack, At
  <1>1. CASE k # c.key
    BY <1>0, <1>1 DEF SetBack, NotBack, Found, Typed, TypeOK
  <1>2. CASE k = c.key
    <2>1. /\ ~Present(memory[k]) /\ disk[k] = [object |-> c.object, date |-> c.date]
          /\ c.object \in Objects
      BY <1>0, <1>2 DEF Knows, About
    <2>2. memory'[k] = disk[k]
      BY <1>0, <1>2, <2>1 DEF SetBack, Back, Typed, TypeOK
    <2>3. Found(k) = c.object /\ Found(k)' = c.object
      BY <1>0, <2>1, <2>2 DEF Found, Present, Readable, Missing
    <2> QED
      BY <2>3 DEF NotBack
  <1> QED
    BY <1>1, <1>2

LEMMA StepNotBack ==
    ASSUME Typed, Agreed, [Next]_vars, NEW k \in Keys, k \notin torn, ~Setting(k)
    PROVE  NotBack(k)
  <1> USE DEF Typed, TypeOK
  <1>1. ASSUME NEW q \in Queues, Calls(q) \/ Return(q) \/ ReadMemory(q) \/ UpdateKeys(q)
                                 \/ ReadFile(q) \/ ReadDate(q) \/ MakeDir(q) \/ List(q)
        PROVE  UNCHANGED <<memory, disk>>
    BY <1>1 DEF Calls, SetObject, Entry, RemoveObject, RemoveAll, RemoveExpired, Begin, Return,
                ReadMemory, UpdateKeys, ReadFile, ReadDate, MakeDir, List
  <1>2. ASSUME NEW q \in Queues, RemoveMemory(q) \/ ClearMemory(q) \/ ExpireMemory(q)
        PROVE  memory'[k] \in {memory[k], Missing} /\ disk' = disk
    BY <1>2 DEF RemoveMemory, ClearMemory, ExpireMemory
  <1>3. ASSUME NEW q \in Queues, DeleteFile(q) \/ Wipe(q)
        PROVE  disk'[k] \in {disk[k], Missing} /\ memory' = memory
    BY <1>3 DEF DeleteFile, Wipe
  <1>4. ASSUME NEW q \in Queues, Purge(q) \/ Trim(q)
        PROVE  disk'[k] \in {disk[k], Missing} /\ memory' = memory
    BY <1>4 DEF Purge, Trim, Delete
  <1>5. ASSUME (\E j \in Keys : Evict(j)) \/ Tick \/ Restart \/ UNCHANGED vars
        PROVE  memory'[k] \in {memory[k], Missing} /\ disk'[k] \in {disk[k], Missing}
    BY <1>5 DEF Evict, Tick, Restart, vars
  <1> QED
    BY <1>1, <1>2, <1>3, <1>4, <1>5, TakesAway, SetsItsKey, PutsBackFile
    DEF Next, Memory, Disk

\* With one interface in use, an object that was replaced or removed does not come back:
\* what a lookup puts into memory is what the file held all the while, and what eviction or
\* a restart uncovers is what memory had (HybridStorage.swift:15-44).
THEOREM ReplacedStaysGone == ASSUME OneQueue PROVE Spec => NothingResurfaces
  <1>1. Init => Agreed
    BY MissingTypes, IdleAbout DEF Init, Agreed, AllAgree, Knows
  <1>2. Agreed /\ Typed /\ [Next]_vars => Agreed'
    BY StepAgreed
  <1>3. Agreed /\ Typed /\ [Next]_vars =>
            [\A k \in Keys :
                Found(k)' \notin {Found(k), NoObject} => k \in torn \/ Setting(k)]_vars
    BY StepNotBack DEF NotBack
  <1> QED
    BY <1>1, <1>2, <1>3, InitTyped, StepTyped, PTL DEF Spec, NothingResurfaces

(***************************************************************************)
(* Sums: SumFunctionOnSet of the community modules picks one index after   *)
(* the other.                                                              *)
(***************************************************************************)
Some(s) == CHOOSE x \in s : TRUE
Sums(g, f, S) == g = [s \in SUBSET S |-> IF s = {} THEN 0 ELSE f[Some(s)] + g[s \ {Some(s)}]]

LEMMA SumIsLast ==
    ASSUME NEW f, NEW S
    PROVE  SumFunctionOnSet(f, S) = (CHOOSE g : Sums(g, f, S))[S]
  BY DEF SumFunctionOnSet, FoldFunctionOnSet, MapThenFoldSet, Sums, Some

\* A property of sets that fails for a finite set fails for one of whose subsets, itself
\* excepted, it holds.
LEMMA SmallestBad ==
    ASSUME NEW S, IsFiniteSet(S), NEW Bad \in SUBSET (SUBSET S), Bad # {}
    PROVE  \E s \in Bad : \A r \in Bad : ~(r \subseteq s /\ r # s)
  <1>1. Bad \subseteq FiniteSubsetsOf(S)
    BY FS_Subset DEF FiniteSubsetsOf
  <1>2. PICK s \in Bad : \A r \in Bad : ~(<<r, s>> \in StrictSubsetOrdering(S))
    BY <1>1, FS_StrictSubsetOrderingWellFounded, WFMin, Zenon
  <1> QED
    BY <1>2 DEF StrictSubsetOrdering

LEMMA SomeIn == ASSUME NEW s, s # {} PROVE Some(s) \in s
  BY DEF Some

\* A sum depends on no more than the numbers that are added.
LEMMA SumsAgree ==
    ASSUME NEW S, NEW T, NEW U \in SUBSET (S \cap T), IsFiniteSet(U),
           NEW a, NEW b, NEW f, NEW g, Sums(a, f, S), Sums(b, g, T), \A i \in U : f[i] = g[i]
    PROVE  a[U] = b[U]
  <1>0. PICK Bad : Bad = {s \in SUBSET U : a[s] # b[s]}
    OBVIOUS
  <1>1. ASSUME Bad # {} PROVE FALSE
    <2>1. PICK s \in Bad : \A r \in Bad : ~(r \subseteq s /\ r # s)
      BY <1>0, <1>1, SmallestBad
    <2>2. s \in SUBSET S /\ s \in SUBSET T /\ s \in SUBSET U
      BY <1>0, <2>1
    <2>3. /\ a[s] = IF s = {} THEN 0 ELSE f[Some(s)] + a[s \ {Some(s)}]
          /\ b[s] = IF s = {} THEN 0 ELSE g[Some(s)] + b[s \ {Some(s)}]
      BY <1>0, <2>2 DEF Sums
    <2>4. s # {}
      BY <1>0, <2>1, <2>3
    <2>5. Some(s) \in s
      BY <2>4, SomeIn
    <2>6. s \ {Some(s)} \notin Bad
      BY <1>0, <2>1, <2>5
    <2>7. a[s \ {Some(s)}] = b[s \ {Some(s)}] /\ f[Some(s)] = g[Some(s)]
      BY <1>0, <2>2, <2>5, <2>6
    <2> QED
      BY <1>0, <2>1, <2>3, <2>7
  <1> QED
    BY <1>0, <1>1

LEMMA SumsExist ==
    ASSUME NEW S, IsFiniteSet(S), NEW f
    PROVE  \E g : Sums(g, f, S)
  <1>0. PICK Bad : Bad = {s \in SUBSET S : ~\E g : Sums(g, f, s)}
    OBVIOUS
  <1>a. Bad \in SUBSET (SUBSET S)
    BY <1>0
  <1> DEFINE G(s) == CHOOSE g : Sums(g, f, s)
  <1>1. ASSUME Bad # {} PROVE FALSE
    <2>1. PICK t \in Bad : \A r \in Bad : ~(r \subseteq t /\ r # t)
      BY <1>a, <1>1, SmallestBad
    <2>t. IsFiniteSet(t)
      BY <1>a, <2>1, FS_Subset
    <2>2. ASSUME NEW s \in SUBSET t, s # t PROVE Sums(G(s), f, s)
      <3>1. \E g : Sums(g, f, s)
        BY <1>0, <2>1, <2>2, FS_Subset
      <3> QED
        BY <3>1, Zenon
    <2> DEFINE rest(s) == s \ {Some(s)}
               h == [s \in SUBSET t |->
                        IF s = {} THEN 0
                        ELSE IF s = t THEN f[Some(s)] + G(rest(s))[rest(s)] ELSE G(s)[s]]
    <2> HIDE DEF G
    <2>3. ASSUME NEW s \in SUBSET t, s # {}
          PROVE  h[s] = f[Some(s)] + h[rest(s)]
      <3>1. Some(s) \in s /\ rest(s) \in SUBSET t /\ rest(s) # t
        BY <2>3, SomeIn
      <3>2. h[rest(s)] = G(rest(s))[rest(s)]
        <4>1. CASE rest(s) = {}
          <5>1. Sums(G({}), f, {})
            BY <2>2, <3>1, <4>1
          <5>2. G({})[{}] = 0
            BY <5>1 DEF Sums
          <5> QED
            BY <3>1, <4>1, <5>2
        <4>2. CASE rest(s) # {}
          BY <3>1, <4>2
        <4> QED
          BY <4>1, <4>2
      <3>3. CASE s = t
        BY <2>3, <3>2, <3>3
      <3>4. CASE s # t
        <4>1. Sums(G(s), f, s) /\ Sums(G(rest(s)), f, rest(s))
          BY <2>2, <3>1, <3>4
        <4>2. G(s)[s] = f[Some(s)] + G(s)[rest(s)]
          BY <2>3, <4>1 DEF Sums
        <4>3. IsFiniteSet(rest(s))
          BY <2>t, <3>1, FS_Subset
        <4>4. PICK u : u = rest(s)
          OBVIOUS
        <4>5. u \in SUBSET (s \cap u) /\ Sums(G(u), f, u) /\ IsFiniteSet(u)
          BY <3>1, <4>1, <4>3, <4>4
        <4>6. G(s)[u] = G(u)[u]
          BY <4>1, <4>5, SumsAgree
        <4> QED
          BY <2>3, <3>2, <3>4, <4>2, <4>4, <4>6
      <3> QED
        BY <3>3, <3>4
    <2>4. h[{}] = 0
      OBVIOUS
    <2>5. h = [s \in SUBSET t |-> IF s = {} THEN 0 ELSE f[Some(s)] + h[rest(s)]]
      <3>1. h = [s \in SUBSET t |-> h[s]]
        OBVIOUS
      <3> HIDE DEF h, rest
      <3> QED
        BY <2>3, <2>4, <3>1
    <2>6. Sums(h, f, t)
      BY <2>5 DEF Sums
    <2> QED
      BY <1>0, <2>1, <2>6
  <1> QED
    BY <1>0, <1>1

LEMMA SumIsNat ==
    ASSUME NEW S, IsFiniteSet(S), NEW f, \A i \in S : f[i] \in Nat
    PROVE  SumFunctionOnSet(f, S) \in Nat
  <1>1. PICK a : a = CHOOSE g : Sums(g, f, S)
    OBVIOUS
  <1>2. Sums(a, f, S)
    BY <1>1, SumsExist
  <1>0. PICK Bad : Bad = {s \in SUBSET S : a[s] \notin Nat}
    OBVIOUS
  <1>3. ASSUME Bad # {} PROVE FALSE
    <2>1. PICK s \in Bad : \A r \in Bad : ~(r \subseteq s /\ r # s)
      BY <1>0, <1>3, SmallestBad
    <2>2. a[s] = IF s = {} THEN 0 ELSE f[Some(s)] + a[s \ {Some(s)}]
      BY <1>0, <1>2, <2>1 DEF Sums
    <2>3. s # {}
      BY <1>0, <2>1, <2>2
    <2>4. Some(s) \in s
      BY <2>3, SomeIn
    <2>5. a[s \ {Some(s)}] \in Nat /\ f[Some(s)] \in Nat
      BY <1>0, <2>1, <2>4
    <2> QED
      BY <1>0, <2>1, <2>2, <2>3, <2>5
  <1>4. a[S] \in Nat
    BY <1>0, <1>3
  <1> QED
    BY <1>1, <1>4, SumIsLast

LEMMA SumOfNone == ASSUME NEW f PROVE SumFunctionOnSet(f, {}) = 0
  <1>1. PICK a : a = CHOOSE g : Sums(g, f, {})
    OBVIOUS
  <1>2. Sums(a, f, {})
    BY <1>1, SumsExist, FS_EmptySet
  <1>3. a[{}] = 0
    BY <1>2 DEF Sums
  <1> QED
    BY <1>1, <1>3, SumIsLast

LEMMA SumAgrees ==
    ASSUME NEW S, IsFiniteSet(S), NEW f, NEW g, \A i \in S : f[i] = g[i]
    PROVE  SumFunctionOnSet(f, S) = SumFunctionOnSet(g, S)
  <1>1. PICK a, b : a = (CHOOSE h : Sums(h, f, S)) /\ b = (CHOOSE h : Sums(h, g, S))
    OBVIOUS
  <1>2. Sums(a, f, S) /\ Sums(b, g, S)
    BY <1>1, SumsExist
  <1>3. S \in SUBSET (S \cap S) /\ IsFiniteSet(S)
    OBVIOUS
  <1>4. (\A i \in S : f[i] = g[i]) => a[S] = b[S]
    BY ONLY <1>2, <1>3, SumsAgree
  <1> QED
    BY <1>1, <1>4, SumIsLast

(***************************************************************************)
(* A call that returns without an error has done what it is for.           *)
(***************************************************************************)

\* A call that sets or removes: what it has done is not undone under it.
Did(c) ==
    LET k == c.key IN
    /\ c.op = "set" => c.began <= now
    /\ c.op = "set" /\ c.stage = "ok" /\ k \notin torn =>
          \E t \in c.began .. now : disk[k] = [object |-> c.object, date |-> DiskDate(c, t)]
    /\ c.op = "remove" /\ c.stage \in {"keys", "delete", "ok"} => ~Present(memory[k])
    /\ c.op = "remove" /\ c.stage = "ok" => ~Present(disk[k])
    /\ c.op = "removeAll" /\ c.stage \in {"keys", "wipe", "mkdir", "ok"} =>
          \A j \in Keys : ~Present(memory[j])
    /\ c.op = "removeAll" /\ c.stage \in {"mkdir", "ok"} => \A j \in Keys : ~Present(disk[j])

\* An expiry: no entry in memory had expired when it began, and the files there are are
\* those it has listed and not deleted; those to trim had not expired.  It keeps every file
\* that has not expired, until it trims; then it goes on to half the limit.
Listed(c) ==
    /\ \A k \in Keys : /\ Present(disk[k]) <=> k \in c.purge \cup c.trim
                       /\ Present(disk[k]) => disk[k] = c.files[k]
    /\ \A k \in c.trim : c.files[k].date > c.began
    /\ c.purge \cap c.trim = {}
Kept(c) == \A k \in Keys : c.files[k].date > now => k \in c.trim
WithinHalf(c) == MaxSize > 0 /\ Total(c) <= MaxSize \div 2
Expires(c) ==
    /\ c.began <= now
    /\ c.stage \in {"list", "purge", "trim", "ok"} =>
          \A k \in Keys : Present(memory[k]) => memory[k].date > c.began
    /\ c.stage \in {"purge", "trim", "ok"} => Listed(c)
    /\ c.stage \in {"trim", "ok"} => c.purge = {}
    /\ c.stage = "ok" /\ MaxSize > 0 => Total(c) <= MaxSize
    /\ c.stage = "purge" => Kept(c)
    /\ c.stage = "trim" => MaxSize > 0
    /\ c.stage = "ok" => Kept(c) \/ WithinHalf(c)
Done == \A q \in Queues : Did(call[q]) /\ (call[q].op = "expire" => Expires(call[q]))

LEMMA DoneOne ==
    ASSUME OneQueue, NEW q \in Queues
    PROVE  /\ Done <=> Did(call[q]) /\ (call[q].op = "expire" => Expires(call[q]))
           /\ Done' <=> Did(call[q])' /\ (call'[q].op = "expire" => Expires(call[q])')
  BY DEF OneQueue, Done

LEMMA CallsDone ==
    ASSUME OneQueue, Typed, NEW q \in Queues, Calls(q) \/ Return(q)
    PROVE  Done'
  <1>0. call \in [Queues -> Call] /\ now \in Nat
    BY DEF Typed, TypeOK
  <1>1. ASSUME NEW o, NEW k, NEW x, NEW e, Begin(q, NewCall(o, k, x, e))
        PROVE  Done'
    <2>1. call'[q] = NewCall(o, k, x, e) /\ now' = now
      BY <1>0, <1>1 DEF Begin
    <2>2. /\ call'[q].stage = "memory" /\ call'[q].op = o
          /\ call'[q].op \in {"set", "expire"} => call'[q].began = now
      BY <2>1 DEF NewCall
    <2>3. Did(call[q])' /\ (call'[q].op = "expire" => Expires(call[q])')
      BY <1>0, <2>1, <2>2 DEF Did, Expires
    <2> QED
      BY <2>3, DoneOne
  <1>2. CASE Return(q)
    <2>1. call'[q].op = "entry"
      BY <1>0, <1>2, IdleAbout DEF Return
    <2> QED
      BY <2>1, DoneOne DEF Did
  <1> QED
    BY <1>1, <1>2 DEF Calls, SetObject, Entry, RemoveObject, RemoveAll, RemoveExpired

\* A lookup owes nothing.
LEMMA LookupDone ==
    ASSUME OneQueue, NEW q \in Queues, call'[q].op = "entry"
    PROVE  Done'
  BY DoneOne DEF Did

LEMMA ExpireMemoryDone ==
    ASSUME OneQueue, Typed, Covered, Done, NEW q \in Queues, ExpireMemory(q)
    PROVE  Done'
  <1> DEFINE c == call[q]
             old == {k \in keys : Expired(memory[k])}
  <1>0. /\ c \in Call /\ call \in [Queues -> Call] /\ now \in Nat /\ c.began \in Nat
        /\ c.began <= now
    BY DoneOne DEF Typed, TypeOK, ExpireMemory, At, Expires, Call, Date
  <1>1. /\ c.op = "expire" /\ c.stage = "memory" /\ now' = now
        /\ memory' = [k \in Keys |-> IF k \in old THEN Missing ELSE memory[k]]
    BY DEF ExpireMemory, At
  <1>2. call'[q].op = "expire" /\ call'[q].stage = "list" /\ call'[q].began = c.began
    BY <1>0, <1>1 DEF ExpireMemory, Goto, Call
  <1>3. \A k \in Keys : Present(memory[k]) => k \in keys
    BY <1>1 DEF Covered, OneQueue
  <1>4. ASSUME NEW k \in Keys, Present(memory'[k]) PROVE memory'[k].date > c.began
    <2>1. k \notin old /\ memory'[k] = memory[k] /\ Present(memory[k])
      BY <1>1, <1>4, MissingTypes
    <2>2. ~Expired(memory[k])
      BY <1>3, <2>1
    <2>3. memory[k].date \in Nat
      BY <2>1 DEF Typed, TypeOK, Present, Stored, Date
    <2> QED
      BY <1>0, <2>1, <2>2, <2>3 DEF Expired
  <1>5. Did(call[q])' /\ Expires(call[q])'
    BY <1>0, <1>1, <1>2, <1>4 DEF Did, Expires
  <1> QED
    BY <1>5, DoneOne

LEMMA MemoryDone ==
    ASSUME OneQueue, Typed, Covered, Done, NEW q \in Queues, Memory(q)
    PROVE  Done'
  <1> DEFINE c == call[q]
             k == c.key
  <1>0. c \in Call /\ About(c) /\ call \in [Queues -> Call] /\ Did(c)
    BY DEF Typed, TypeOK, WellFormed, Done
  <1>1. CASE SetMemory(q)
    <2>1. /\ call'[q].op = "set" /\ call'[q].stage = "keys" /\ c.op = "set"
          /\ call'[q].began = c.began /\ now' = now
      BY <1>0, <1>1 DEF SetMemory, At, Goto, Call
    <2> QED
      BY <1>0, <2>1, DoneOne DEF Did
  <1>2. CASE RemoveMemory(q)
    <2>1. call'[q].op = "remove" /\ call'[q].stage = "keys" /\ call'[q].key = k
      BY <1>0, <1>2 DEF RemoveMemory, At, Goto, Call
    <2>2. memory'[k] = Missing
      BY <1>0, <1>2 DEF RemoveMemory, At, About, Typed, TypeOK
    <2> QED
      BY <2>1, <2>2, DoneOne, MissingTypes DEF Did
  <1>3. CASE ClearMemory(q)
    <2>1. call'[q].op = "removeAll" /\ call'[q].stage = "keys"
      BY <1>0, <1>3 DEF ClearMemory, At, Goto, Call
    <2>2. \A j \in Keys : memory'[j] = Missing
      BY <1>3 DEF ClearMemory
    <2> QED
      BY <2>1, <2>2, DoneOne, MissingTypes DEF Did
  <1>4. CASE ReadMemory(q)
    <2>1. call'[q].op = "entry"
      BY <1>0, <1>4 DEF ReadMemory, At, Call
    <2> QED
      BY <2>1, LookupDone
  <1>5. CASE UpdateKeys(q)
    <2>1. c.op \in {"set", "entry", "remove", "removeAll"} /\ c.stage = "keys"
          /\ UNCHANGED <<memory, disk, torn, now>>
      BY <1>0, <1>5 DEF UpdateKeys, About, Call, Op
    <2>2. /\ call'[q].op = c.op /\ call'[q].key = k /\ call'[q].stage = AfterKeys(c.op)
          /\ call'[q].began = c.began
      BY <1>0, <1>5 DEF UpdateKeys, Goto, Call
    <2>3. Did(call[q])' /\ call'[q].op # "expire"
      BY <1>0, <2>1, <2>2 DEF Did, AfterKeys
    <2> QED
      BY <2>3, DoneOne
  <1> QED
    BY <1>1, <1>2, <1>3, <1>4, <1>5, ExpireMemoryDone DEF Memory

LEMMA FilesDone ==
    ASSUME OneQueue, Typed, Agreed, Done, NEW q \in Queues,
           CreateFile(q) \/ SetDate(q) \/ DeleteFile(q) \/ Wipe(q) \/ MakeDir(q)
    PROVE  Done'
  <1> DEFINE c == call[q]
             k == c.key
  <1>0. c \in Call /\ About(c) /\ call \in [Queues -> Call] /\ Did(c) /\ Knows(c)
    BY DEF Typed, TypeOK, WellFormed, Done, Agreed
  <1> USE DEF At, Goto
  <1>1. CASE CreateFile(q)
    <2>1. /\ call'[q].op = "set" /\ call'[q].stage = "date" /\ c.op = "set"
          /\ call'[q].began = c.began /\ now' = now
      BY <1>0, <1>1 DEF CreateFile, Call
    <2> QED
      BY <1>0, <2>1, DoneOne DEF Did
  <1>2. CASE SetDate(q)
    <2>1. /\ call'[q].op = "set" /\ call'[q].key = k /\ call'[q].stage \in {"ok", "error"}
          /\ call'[q].object = c.object /\ call'[q].expiry = c.expiry
          /\ call'[q].began = c.began /\ now' = now
          /\ c.op = "set" /\ c.stage = "date" /\ k \in Keys
      BY <1>0, <1>2 DEF SetDate, Call, About
    <2>2. DiskDate(call'[q], now) = DiskDate(c, now)
      BY <2>1 DEF DiskDate
    <2>3. c.began <= now /\ c.began \in Nat /\ now \in Nat
      BY <1>0, <2>1 DEF Did, Call, Date, Typed, TypeOK
    <2>4. ASSUME k \notin torn'
          PROVE  disk'[k] = [object |-> c.object, date |-> DiskDate(c, now)]
      <3>1. /\ Present(disk[k]) /\ disk' = [disk EXCEPT ![k].date = DiskDate(c, now)]
            /\ k \notin torn
        BY <1>2, <2>4 DEF SetDate
      <3>2. disk[k] \in File /\ disk[k].object = c.object
        BY <1>0, <2>1, <3>1 DEF Knows, Present, Typed, TypeOK
      <3> QED
        BY <2>1, <3>1, <3>2 DEF File, Typed, TypeOK
    <2>5. k \notin torn' => \E t \in c.began .. now :
                  disk'[k] = [object |-> c.object, date |-> DiskDate(call'[q], t)]
      BY <2>2, <2>3, <2>4
    <2> QED
      BY <2>1, <2>3, <2>5, DoneOne DEF Did
  <1>3. CASE DeleteFile(q)
    <2>1. /\ call'[q].op = "remove" /\ call'[q].key = k /\ call'[q].stage \in {"ok", "error"}
          /\ c.op = "remove" /\ c.stage = "delete" /\ k \in Keys /\ memory' = memory
      BY <1>0, <1>3 DEF DeleteFile, Call, About
    <2>2. call'[q].stage = "ok" => disk'[k] = Missing
      BY <1>0, <1>3, <2>1 DEF DeleteFile, Call, Typed, TypeOK
    <2> QED
      BY <1>0, <2>1, <2>2, DoneOne, MissingTypes DEF Did
  <1>4. CASE Wipe(q)
    <2>1. /\ call'[q].op = "removeAll" /\ call'[q].stage \in {"mkdir", "error"}
          /\ c.op = "removeAll" /\ c.stage = "wipe" /\ memory' = memory
      BY <1>0, <1>4 DEF Wipe, Call
    <2>2. call'[q].stage = "mkdir" => \A j \in Keys : disk'[j] = Missing
      BY <1>0, <1>4 DEF Wipe, Call
    <2> QED
      BY <1>0, <2>1, <2>2, DoneOne, MissingTypes DEF Did
  <1>5. CASE MakeDir(q)
    <2>1. /\ call'[q].op = "removeAll" /\ call'[q].stage \in {"ok", "error"}
          /\ c.op = "removeAll" /\ c.stage = "mkdir" /\ UNCHANGED <<memory, disk>>
      BY <1>0, <1>5 DEF MakeDir, Call
    <2> QED
      BY <1>0, <2>1, DoneOne DEF Did
  <1> QED
    BY <1>1, <1>2, <1>3, <1>4, <1>5

LEMMA ListDone ==
    ASSUME OneQueue, Typed, Done, NEW q \in Queues, List(q)
    PROVE  Done'
  <1> DEFINE c == call[q]
  <1>1. PICK there, old : /\ there = {k \in Keys : Present(disk[k])}
                          /\ old = {k \in there : Expired(disk[k])}
    OBVIOUS
  <1>2. PICK d : d = [c EXCEPT !.files = disk, !.purge = old, !.trim = there \ old,
                               !.stage = "purge"]
    OBVIOUS
  <1>0. /\ c \in Call /\ call \in [Queues -> Call] /\ Expires(c) /\ now \in Nat
        /\ c.op = "expire" /\ c.stage = "list" /\ UNCHANGED <<memory, disk, now>>
    BY DoneOne DEF Typed, TypeOK, List, At
  <1>3. CASE Goto(q, "error")
    <2>1. call'[q].op = "expire" /\ call'[q].stage = "error" /\ call'[q].began = c.began
      BY <1>0, <1>3 DEF Goto, Call
    <2>2. Did(call[q])' /\ Expires(call[q])'
      BY <1>0, <2>1 DEF Did, Expires
    <2> QED
      BY <2>2, DoneOne
  <1>4. CASE call' = [call EXCEPT ![q] = d]
    <2>1. /\ d.op = "expire" /\ d.stage = "purge" /\ d.began = c.began
          /\ d.files = disk /\ d.purge = old /\ d.trim = there \ old
      BY <1>0, <1>2 DEF Call
    <2>2. call'[q] = d
      BY <1>0, <1>4
    <2>3. c.began \in Nat /\ c.began <= now
      BY <1>0 DEF Call, Date, Expires
    <2>4. ASSUME NEW k \in there \ old PROVE disk[k].date > c.began
      <3>1. disk[k].date \in Nat /\ ~Expired(disk[k])
        BY <1>1, <2>4 DEF Typed, TypeOK, Present, File, Date
      <3> QED
        BY <1>0, <1>1, <2>3, <2>4, <3>1 DEF Expired
    <2>5. Listed(d)'
      BY <1>0, <1>1, <2>1, <2>4 DEF Listed
    <2>6. Listed(call[q])'
      BY <2>2, <2>5
    <2>7. \A k \in Keys : Present(memory'[k]) => memory'[k].date > call'[q].began
      BY <1>0, <2>1, <2>2 DEF Expires
    <2>9. ASSUME NEW k \in Keys, disk[k].date > now PROVE k \in there \ old
      <3>1. Present(disk[k])
        BY <1>0, <2>9 DEF Present, Missing
      <3>2. disk[k].date \in Nat
        BY <3>1 DEF Typed, TypeOK, Present, File, Date
      <3> QED
        BY <1>0, <1>1, <2>9, <3>1, <3>2 DEF Expired
    <2>10. Kept(call[q])'
      BY <1>0, <2>1, <2>2, <2>9 DEF Kept
    <2>8. Did(call[q])' /\ Expires(call[q])'
      BY <1>0, <2>1, <2>2, <2>3, <2>6, <2>7, <2>10 DEF Did, Expires
    <2> QED
      BY <2>8, DoneOne
  <1> QED
    BY <1>1, <1>2, <1>3, <1>4 DEF List

\* One file that was listed is deleted.
LEMMA DeleteListed ==
    ASSUME Typed, NEW c \in Call, NEW d, NEW k \in c.purge \cup c.trim, Listed(c),
           d.files = c.files, d.began = c.began, d.purge = c.purge \ {k}, d.trim = c.trim \ {k},
           disk' = [disk EXCEPT ![k] = Missing]
    PROVE  Listed(d)'
  <1>1. \A j \in Keys : disk'[j] = IF j = k THEN Missing ELSE disk[j]
    BY DEF Typed, TypeOK
  <1> QED
    BY <1>1, MissingTypes DEF Listed

USE FiniteAssumption, SizeAssumption

LEMMA TotalIsNat == ASSUME NEW c \in Call PROVE Total(c) \in Nat
  <1>1. PICK f : f = [k \in Keys |-> Bytes(c.files[k])]
    OBVIOUS
  <1>2. c.trim \subseteq Keys
    BY DEF Call
  <1>3. IsFiniteSet(c.trim)
    BY <1>2, FS_Subset
  <1>4. \A k \in c.trim : f[k] \in Nat
    BY <1>1, <1>2 DEF Bytes
  <1>5. SumFunctionOnSet(f, c.trim) \in Nat
    BY <1>3, <1>4, SumIsNat
  <1> QED
    BY <1>1, <1>5 DEF Total

\* The deletion of a file that fails ends the call.
LEMMA ErrorDone ==
    ASSUME OneQueue, Typed, Done, NEW q \in Queues, call[q].op = "expire", Goto(q, "error"),
           now' = now
    PROVE  Done'
  <1> DEFINE c == call[q]
  <1>1. c \in Call /\ call \in [Queues -> Call] /\ c.began <= now
    BY DoneOne DEF Typed, TypeOK, Expires
  <1>2. call'[q].op = "expire" /\ call'[q].stage = "error" /\ call'[q].began = c.began
    BY <1>1 DEF Goto, Call
  <1>3. Did(call[q])' /\ Expires(call[q])'
    BY <1>1, <1>2 DEF Did, Expires
  <1> QED
    BY <1>3, DoneOne

\* An expiry goes on with what it has listed.
LEMMA ExpiryGoesOn ==
    ASSUME OneQueue, Typed, Done, NEW q \in Queues, call[q].op = "expire",
           call[q].stage \in {"purge", "trim"}, UNCHANGED <<memory, now>>,
           NEW d, call' = [call EXCEPT ![q] = d], d.op = "expire", d.began = call[q].began,
           d.stage \in {"purge", "trim", "ok"}, Listed(d)',
           d.stage \in {"trim", "ok"} => d.purge = {},
           d.stage = "ok" /\ MaxSize > 0 => Total(d) <= MaxSize,
           d.stage = "purge" => Kept(d), d.stage = "trim" => MaxSize > 0,
           d.stage = "ok" => Kept(d) \/ WithinHalf(d)
    PROVE  Done'
  <1>1. call'[q] = d /\ Expires(call[q])
    BY DoneOne DEF Typed, TypeOK
  <1>2. Listed(call[q])'
    BY <1>1
  <1>4. (Kept(d) => Kept(call[q])') /\ (WithinHalf(d) => WithinHalf(call[q])')
    BY <1>1 DEF Kept, WithinHalf, Total, Bytes
  <1>3. Did(call[q])' /\ Expires(call[q])'
    BY <1>1, <1>2, <1>4 DEF Did, Expires, Total, Bytes
  <1> QED
    BY <1>3, DoneOne

LEMMA PurgeDone ==
    ASSUME OneQueue, Typed, Done, NEW q \in Queues, Purge(q)
    PROVE  Done'
  <1> DEFINE c == call[q]
  <1>0. /\ c \in Call /\ call \in [Queues -> Call] /\ Expires(c)
        /\ c.op = "expire" /\ c.stage = "purge" /\ UNCHANGED <<memory, now>>
        /\ Listed(c)
    BY DoneOne DEF Typed, TypeOK, Purge, At, Expires
  <1>1. ASSUME NEW k \in c.purge, Delete(q, k, [c EXCEPT !.purge = @ \ {k}])
        PROVE  Done'
    <2>1. PICK d : d = [c EXCEPT !.purge = @ \ {k}]
      OBVIOUS
    <2>2. /\ d.op = "expire" /\ d.stage = "purge" /\ d.began = c.began /\ d.files = c.files
          /\ d.purge = c.purge \ {k} /\ d.trim = c.trim
      BY <1>0, <2>1 DEF Call
    <2>3. c.trim = c.trim \ {k}
      BY <1>0, <1>1 DEF Listed
    <2>4. CASE disk' = [disk EXCEPT ![k] = Missing] /\ call' = [call EXCEPT ![q] = d]
      <3>1. Listed(d)'
        BY <1>0, <1>1, <2>2, <2>3, <2>4, DeleteListed
      <3>2. Kept(d)
        BY <1>0, <2>2 DEF Expires, Kept
      <3> QED
        BY <1>0, <2>2, <2>4, <3>1, <3>2, ExpiryGoesOn
    <2>5. CASE Goto(q, "error")
      BY <1>0, <2>5, ErrorDone
    <2> QED
      BY <1>1, <2>1, <2>4, <2>5 DEF Delete
  <1>2. ASSUME c.purge = {}, Goto(q, IF OverLimit(c) THEN "trim" ELSE "ok"),
               UNCHANGED <<disk, torn>>
        PROVE  Done'
    <2>1. PICK s : s = IF OverLimit(c) THEN "trim" ELSE "ok"
      OBVIOUS
    <2>2. PICK d : d = [c EXCEPT !.stage = s]
      OBVIOUS
    <2>3. /\ d.op = "expire" /\ d.stage = s /\ d.began = c.began /\ d.files = c.files
          /\ d.purge = c.purge /\ d.trim = c.trim
      BY <1>0, <2>2 DEF Call
    <2>4. call' = [call EXCEPT ![q] = d]
      BY <1>2, <2>1, <2>2 DEF Goto
    <2>5. Total(d) = Total(c)
      BY <2>3 DEF Total
    <2>6. /\ s = "ok" /\ MaxSize > 0 => Total(d) <= MaxSize
          /\ s = "trim" => MaxSize > 0
      BY <1>0, <2>1, <2>5, TotalIsNat DEF OverLimit
    <2>8. Kept(d)
      BY <1>0, <2>3 DEF Expires, Kept
    <2>7. Listed(d)'
      BY <1>0, <1>2, <2>3 DEF Listed
    <2> QED
      BY <1>0, <1>2, <2>1, <2>3, <2>4, <2>6, <2>7, <2>8, ExpiryGoesOn
  <1> QED
    BY <1>1, <1>2 DEF Purge

LEMMA TrimDone ==
    ASSUME OneQueue, Typed, Done, NEW q \in Queues, Trim(q)
    PROVE  Done'
  <1> DEFINE c == call[q]
  <1>0. /\ c \in Call /\ call \in [Queues -> Call] /\ Expires(c)
        /\ c.op = "expire" /\ c.stage = "trim" /\ UNCHANGED <<memory, now>>
        /\ Listed(c) /\ c.purge = {} /\ MaxSize > 0
    BY DoneOne DEF Typed, TypeOK, Trim, At, Expires
  <1>a. PICK k \in c.trim : \E left, s, d :
           /\ left = [c EXCEPT !.trim = @ \ {k}]
           /\ s = IF left.trim = {} \/ Total(left) < MaxSize \div 2 THEN "ok" ELSE "trim"
           /\ d = [left EXCEPT !.stage = s]
           /\ Delete(q, k, d)
    BY DEF Trim
  <1>1. PICK left, s, d :
           /\ left = [c EXCEPT !.trim = @ \ {k}]
           /\ s = IF left.trim = {} \/ Total(left) < MaxSize \div 2 THEN "ok" ELSE "trim"
           /\ d = [left EXCEPT !.stage = s]
           /\ Delete(q, k, d)
    BY <1>a
  <1>2. /\ left.trim = c.trim \ {k}
        /\ d.op = "expire" /\ d.stage = s /\ d.began = c.began /\ d.files = c.files
        /\ d.purge = c.purge \ {k} /\ d.trim = c.trim \ {k}
    BY <1>0, <1>1 DEF Call
  <1>3. left \in Call /\ Total(d) = Total(left)
    <2>1. left \in Call /\ d.trim = left.trim /\ d.files = left.files
      BY <1>0, <1>1, <1>2 DEF Call
    <2> QED
      BY <2>1 DEF Total
  <1>4. s = "ok" => Total(d) <= MaxSize /\ WithinHalf(d)
    <2>1. Total(left) \in Nat /\ MaxSize \in Nat
      BY <1>3, TotalIsNat
    <2>2. \A x, y \in Nat : x = 0 \/ x < y \div 2 => x <= y /\ x <= y \div 2
      OBVIOUS
    <2>3. left.trim = {} => Total(left) = 0
      BY SumOfNone DEF Total
    <2>4. s = "ok" => Total(left) = 0 \/ Total(left) < MaxSize \div 2
      BY <1>1, <2>3
    <2> QED
      BY <1>0, <1>3, <2>1, <2>2, <2>4 DEF WithinHalf
  <1>5. CASE disk' = [disk EXCEPT ![k] = Missing] /\ call' = [call EXCEPT ![q] = d]
    <2>1. Listed(d)'
      BY <1>0, <1>2, <1>5, DeleteListed
    <2>2. d.stage \in {"trim", "ok"} /\ (d.stage = "ok" <=> s = "ok") /\ d.purge = {}
      BY <1>0, <1>1, <1>2
    <2> QED
      BY <1>0, <1>2, <1>4, <1>5, <2>1, <2>2, ExpiryGoesOn
  <1>6. CASE Goto(q, "error")
    BY <1>0, <1>6, ErrorDone
  <1> QED
    BY <1>1, <1>5, <1>6 DEF Delete

LEMMA DiskDone ==
    ASSUME OneQueue, Typed, Agreed, Done, NEW q \in Queues, Disk(q)
    PROVE  Done'
  <1>1. CASE ReadFile(q) \/ ReadDate(q) \/ SetBack(q)
    <2>1. call[q] \in Call /\ call \in [Queues -> Call]
      BY DEF Typed, TypeOK
    <2>2. call'[q].op = "entry"
      BY <1>1, <2>1 DEF ReadFile, ReadDate, SetBack, At, Goto, Call
    <2> QED
      BY <2>2, LookupDone
  <1> QED
    BY <1>1, FilesDone, ListDone, PurgeDone, TrimDone DEF Disk

LEMMA AroundDone ==
    ASSUME Typed, Done, (\E k \in Keys : Evict(k)) \/ Tick \/ Restart
    PROVE  Done'
  <1>1. ASSUME NEW k \in Keys, Evict(k) PROVE Done'
    <2>1. /\ \A j \in Keys : memory'[j] \in {memory[j], Missing}
          /\ UNCHANGED <<disk, torn, call, now>>
      BY <1>1 DEF Evict, Typed, TypeOK
    <2>2. ASSUME NEW q \in Queues
          PROVE  Did(call[q])' /\ (call'[q].op = "expire" => Expires(call[q])')
      <3>1. Did(call[q]) /\ (call[q].op = "expire" => Expires(call[q])) /\ About(call[q])
        BY DEF Done, Typed, WellFormed
      <3>2. Listed(call[q]) => Listed(call[q])'
        BY <2>1 DEF Listed
      <3>3. Did(call[q])'
        BY <2>1, <3>1, MissingTypes DEF Did, About
      <3>4. call'[q].op = "expire" => Expires(call[q])'
        BY <2>1, <3>1, <3>2, MissingTypes DEF Expires, Kept, WithinHalf, Total, Bytes
      <3> QED
        BY <3>3, <3>4
    <2> QED
      BY <2>2 DEF Done
  <1>2. CASE Tick
    <2>1. now' = now + 1 /\ now \in Nat /\ UNCHANGED <<memory, disk, torn, call>>
      BY <1>2 DEF Tick, Typed, TypeOK
    <2>2. ASSUME NEW q \in Queues
          PROVE  Did(call[q])' /\ (call'[q].op = "expire" => Expires(call[q])')
      <3>1. Did(call[q]) /\ (call[q].op = "expire" => Expires(call[q]))
            /\ call[q].began \in Nat
        BY DEF Done, Typed, TypeOK, Call, Date
      <3>2. Listed(call[q]) => Listed(call[q])'
        BY <2>1 DEF Listed
      <3>3. Did(call[q])'
        BY <2>1, <3>1 DEF Did
      <3>5. (Kept(call[q]) => Kept(call[q])') /\ (WithinHalf(call[q]) => WithinHalf(call[q])')
        <4>1. \A k \in Keys : call[q].files[k].date \in Nat
          BY DEF Typed, TypeOK, Call, File, Missing, Date
        <4> QED
          BY <2>1, <4>1 DEF Kept, WithinHalf, Total, Bytes
      <3>4. call'[q].op = "expire" => Expires(call[q])'
        BY <2>1, <3>1, <3>2, <3>5 DEF Expires, Total, Bytes
      <3> QED
        BY <3>3, <3>4
    <2> QED
      BY <2>2 DEF Done
  <1>3. CASE Restart
    <2>1. \A q \in Queues : call'[q].op = "entry"
      BY <1>3, IdleAbout DEF Restart
    <2> QED
      BY <2>1 DEF Done, Did
  <1> QED
    BY <1>1, <1>2, <1>3

LEMMA StepDone == OneQueue /\ Typed /\ Covered /\ Agreed /\ Done /\ [Next]_vars => Done'
  <1> SUFFICES ASSUME OneQueue, Typed, Covered, Agreed, Done, [Next]_vars
               PROVE  Done'
    OBVIOUS
  <1>1. CASE UNCHANGED vars
    <2>1. UNCHANGED <<memory, disk, torn, call, now>>
      BY <1>1 DEF vars
    <2>2. ASSUME NEW q \in Queues
          PROVE  /\ Did(call[q]) => Did(call[q])'
                 /\ Listed(call[q]) => Listed(call[q])'
                 /\ Kept(call[q]) => Kept(call[q])'
                 /\ WithinHalf(call[q]) => WithinHalf(call[q])'
                 /\ Total(call[q])' = Total(call[q])
      BY <2>1 DEF Did, Listed, Kept, WithinHalf, Total, Bytes
    <2>3. ASSUME NEW q \in Queues, Expires(call[q]) PROVE Expires(call[q])'
      BY <2>1, <2>2, <2>3 DEF Expires
    <2> QED
      BY <2>1, <2>2, <2>3 DEF Done
  <1> QED
    BY <1>1, CallsDone, MemoryDone, DiskDone, AroundDone DEF Next

\* The files that are left are those not trimmed: their sum is what the call has counted.
LEMMA LeftIsCounted ==
    ASSUME Typed, NEW c \in Call, Listed(c), c.purge = {}
    PROVE  DiskSize = Total(c)
  <1>1. PICK f, g : /\ f = [k \in Keys |-> Bytes(disk[k])]
                    /\ g = [k \in Keys |-> Bytes(c.files[k])]
    OBVIOUS
  <1>2. {k \in Keys : Present(disk[k])} = c.trim
    BY DEF Listed, Call
  <1>3. IsFiniteSet(c.trim) /\ c.trim \subseteq Keys
    BY FS_Subset DEF Call
  <1>4. \A k \in c.trim : f[k] = g[k]
    <2>1. \A k \in c.trim : disk[k] = c.files[k]
      BY <1>3 DEF Listed
    <2> QED
      BY <1>1, <1>3, <2>1
  <1>5. SumFunctionOnSet(f, c.trim) = SumFunctionOnSet(g, c.trim)
    BY <1>3, <1>4, SumAgrees
  <1> QED
    BY <1>1, <1>2, <1>5 DEF DiskSize, Total

LEMMA DoneIsDone == OneQueue /\ Typed /\ Done => OkMeansDone
  <1> SUFFICES ASSUME OneQueue, Typed, Done
               PROVE  OkMeansDone
    OBVIOUS
  <1>1. ASSUME NEW q \in Queues
        PROVE  call[q] \in Call /\ Did(call[q]) /\ (call[q].op = "expire" => Expires(call[q]))
    BY <1>1 DEF Typed, TypeOK, Done
  <1>2. ASSUME NEW q \in Queues, call[q].op = "expire", call[q].stage = "ok"
        PROVE  LET c == call[q] IN
               /\ \A k \in Keys :
                     /\ Present(memory[k]) => memory[k].date > c.began
                     /\ Present(disk[k]) => disk[k].date > c.began
               /\ MaxSize > 0 => DiskSize <= MaxSize
               /\ (\E k \in Keys : c.files[k].date > now /\ ~Present(disk[k]))
                     => MaxSize > 0 /\ DiskSize <= MaxSize \div 2
    <2> DEFINE c == call[q]
    <2>1. c \in Call /\ Expires(c) /\ Listed(c) /\ c.purge = {}
      BY <1>1, <1>2 DEF Expires
    <2>2. ASSUME NEW k \in Keys
          PROVE  /\ Present(memory[k]) => memory[k].date > c.began
                 /\ Present(disk[k]) => disk[k].date > c.began
      <3>1. Present(disk[k]) => k \in c.trim /\ disk[k] = c.files[k]
        BY <2>1 DEF Listed
      <3> QED
        BY <1>2, <2>1, <3>1 DEF Expires, Listed
    <2>3. DiskSize = Total(c)
      BY <2>1, LeftIsCounted
    <2>4. MaxSize > 0 => DiskSize <= MaxSize
      BY <1>2, <2>1, <2>3 DEF Expires
    <2>5. ASSUME NEW k \in Keys, c.files[k].date > now, ~Present(disk[k])
          PROVE  MaxSize > 0 /\ DiskSize <= MaxSize \div 2
      <3>1. ~Kept(c)
        BY <2>1, <2>5 DEF Kept, Listed
      <3> QED
        BY <1>2, <2>1, <2>3, <3>1 DEF Expires, WithinHalf
    <2> QED
      BY <2>2, <2>4, <2>5
  <1> QED
    BY <1>1, <1>2 DEF OkMeansDone, At, Did

\* With one interface in use, a call that returns without an error has done what it is for,
\* whatever is evicted and however late the clock is read: what was set is on disk under a
\* date its expiry had during the call, unless the file could not be created; what was
\* removed is nowhere; after an expiry nothing is left that had expired when it began and
\* the files are within the limit, and within half of it if one had to go that has not
\* expired (HybridStorage.swift:26-44, DiskStorage.swift:68-131, 192-213).
THEOREM SuccessMeansDone == ASSUME OneQueue PROVE Spec => []OkMeansDone
  <1>1. Init => Agreed /\ Covered /\ Done
    BY MissingTypes, IdleAbout DEF Init, Agreed, AllAgree, Knows, Covered, Done, Did
  <1>2. Agreed /\ Typed /\ [Next]_vars => Agreed'
    BY StepAgreed
  <1>3. Covered /\ Typed /\ [Next]_vars => Covered'
    BY StepCovered
  <1>4. Typed /\ Covered /\ Agreed /\ Done /\ [Next]_vars => Done'
    BY StepDone
  <1>5. Typed /\ Done => OkMeansDone
    BY DoneIsDone
  <1> QED
    BY <1>1, <1>2, <1>3, <1>4, <1>5, InitTyped, StepTyped, PTL DEF Spec
=============================================================================
