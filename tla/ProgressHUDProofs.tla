------------------------- MODULE ProgressHUDProofs -------------------------
(***************************************************************************)
(* Proofs about ProgressHUD, for every number of calls.  The assumptions   *)
(* on Spaced and Preempted are those of each theorem.                      *)
(***************************************************************************)
EXTENDS ProgressHUD, SequenceTheorems, TLAPS

\* A show block has a kind, and its next block is a block.
LEMMA ShowBlock ==
    ASSUME mainQueue \in Seq(Block), mainQueue # <<>>,
           Head(mainQueue).op \in {"prepare", "reveal"}
    PROVE  /\ Head(mainQueue).kind \in Kind
           /\ [Head(mainQueue) EXCEPT !.op = "reveal"] \in Block
           /\ [Head(mainQueue) EXCEPT !.op = "reveal"].op = "reveal"
  <1>1. Head(mainQueue) \in Block
    OBVIOUS
  <1>2. Head(mainQueue) \notin [op : {"fadeOut"}]
    OBVIOUS
  <1>3. Head(mainQueue) \in [op : {"prepare", "reveal"}, kind : Kind]
    BY <1>1, <1>2 DEF Block
  <1>4. QED
    BY <1>3 DEF Block

\* Cancelling an item keeps the type and arms nothing.
LEMMA AfterCancelType ==
    ASSUME items \in [Item -> ItemState], NEW t \in Item \cup {NoItem}
    PROVE  /\ AfterCancel(t) \in [Item -> ItemState]
           /\ AfterCancel(t)[t] # "armed" \/ t = NoItem
           /\ \A u \in Item : u # t => AfterCancel(t)[u] = items[u]
           /\ \A u \in Item : AfterCancel(t)[u] # items[u]
                                => items[u] = "armed" /\ AfterCancel(t)[u] = "cancelled"
  <1>1. "cancelled" \in ItemState
    BY DEF ItemState
  <1>2. CASE t # NoItem /\ items[t] = "armed"
    BY <1>1, <1>2 DEF AfterCancel
  <1>3. CASE ~(t # NoItem /\ items[t] = "armed")
    BY <1>3 DEF AfterCancel
  <1>4. QED
    BY <1>2, <1>3

(***************************************************************************)
(* The windows                                                             *)
(***************************************************************************)

Windows == TypeOK /\ WindowRestored

LEMMA WindowsInit == Init => Windows
  <1>1. SUFFICES ASSUME Init PROVE Windows
    OBVIOUS
  <1>2. MaxCalls \in Nat
    BY MaxCallsAssumption
  <1>3. TypeOK
    <2>1. mainQueue \in Seq(Block)
      BY <1>1 DEF Init
    <2>2. /\ items \in [Item -> ItemState]
          /\ held \in [Item -> Item \cup {NoItem}]
          /\ dismissHandler \in Item \cup {NoItem}
      BY <1>1 DEF Init, ItemState
    <2>3. /\ fades \in Nat
          /\ visible \in BOOLEAN
          /\ keyWindow \in {"app", "hud"}
          /\ appWindow \in {"app", "none"}
          /\ layout \in Layout
          /\ lastCall \in Kind \cup {"dismiss", "none"}
      BY <1>1 DEF Init, Kind, Layout
    <2>4. calls \in 0..MaxCalls
      BY <1>1, <1>2 DEF Init
    <2>5. QED
      BY <2>1, <2>2, <2>3, <2>4 DEF TypeOK
  <1>4. QED
    BY <1>1, <1>3 DEF Init, Windows, WindowRestored

\* Types and windows go together: the window remembered by fadeInView is the
\* application's only because the overlay is attached when it is not on screen.
LEMMA WindowsStep == Windows /\ [Next]_vars => Windows'
  <1> SUFFICES ASSUME Windows, [Next]_vars PROVE Windows'
    OBVIOUS
  <1> USE MaxCallsAssumption
  <1>1. TypeOK /\ WindowRestored
    BY DEF Windows
  <1>2. ASSUME NEW kind \in Kind, Show(kind) PROVE Windows'
    <2>1. [op |-> "prepare", kind |-> kind] \in Block
      BY <1>2 DEF Block
    <2>2. mainQueue' \in Seq(Block)
      BY <1>1, <1>2, <2>1 DEF TypeOK, Show
    <2>3. calls' \in 0..MaxCalls /\ lastCall' \in Kind \cup {"dismiss", "none"}
      BY <1>1, <1>2 DEF TypeOK, Show, MayCall
    <2>4. QED
      BY <1>1, <1>2, <2>2, <2>3
      DEF TypeOK, WindowRestored, Windows, Show, windows, timer
  <1>3. CASE Dismiss
    <2>1. mainQueue' \in Seq(Block)
      BY <1>1, <1>3 DEF TypeOK, Dismiss, Block, FadeOutBlock
    <2>2. calls' \in 0..MaxCalls /\ lastCall' \in Kind \cup {"dismiss", "none"}
      BY <1>1, <1>3 DEF TypeOK, Dismiss, MayCall
    <2>3. QED
      BY <1>1, <1>3, <2>1, <2>2
      DEF TypeOK, WindowRestored, Windows, Dismiss, windows, timer
  <1>4. CASE Prepare
    <2>1. mainQueue' \in Seq(Block)
      <3>1. [Head(mainQueue) EXCEPT !.op = "reveal"] \in Block
        BY <1>1, <1>4, ShowBlock DEF TypeOK, Prepare
      <3>2. Tail(mainQueue) \in Seq(Block)
        BY <1>1, <1>4 DEF TypeOK, Prepare
      <3>3. QED
        BY <1>4, <3>1, <3>2 DEF Prepare
    <2>2. items' \in [Item -> ItemState] /\ dismissHandler' \in Item \cup {NoItem}
      BY <1>1, <1>4, AfterCancelType DEF TypeOK, Prepare
    <2>3. layout' \in Layout
      BY <1>1, <1>4, ShowBlock DEF TypeOK, Prepare, Layout
    <2>4. QED
      BY <1>1, <1>4, <2>1, <2>2, <2>3
      DEF TypeOK, WindowRestored, Windows, Prepare, windows, history
  <1>5. CASE Reveal
    <2>1. mainQueue' \in Seq(Block)
      BY <1>1, <1>5 DEF TypeOK, Reveal
    <2>2. items' \in [Item -> ItemState] /\ dismissHandler' \in Item \cup {NoItem}
      <3>1. "armed" \in ItemState
        BY DEF ItemState
      <3>2. CASE Head(mainQueue).kind = "loading"
        BY <1>1, <1>5, <3>2 DEF TypeOK, Reveal
      <3>3. CASE Head(mainQueue).kind # "loading"
        BY <1>1, <1>5, <3>1, <3>3 DEF TypeOK, Reveal
      <3>4. QED
        BY <3>2, <3>3
    <2>3. /\ visible' = TRUE
          /\ keyWindow' = "hud"
          /\ appWindow' = "app"
      BY <1>1, <1>5 DEF TypeOK, WindowRestored, Reveal, AttachesNow
    <2>4. QED
      BY <1>1, <1>5, <2>1, <2>2, <2>3
      DEF TypeOK, WindowRestored, Windows, Reveal, history
  <1>6. CASE FadeOut
    <2>1. mainQueue' \in Seq(Block) /\ fades' \in Nat
      BY <1>1, <1>6 DEF TypeOK, FadeOut
    <2>2. QED
      BY <1>1, <1>6, <2>1
      DEF TypeOK, WindowRestored, Windows, FadeOut, windows, timer, history
  <1>7. CASE FadeEnds
    <2>1. fades' \in Nat /\ layout' \in Layout
      BY <1>1, <1>7 DEF TypeOK, FadeEnds, Layout
    <2>2. visible' = FALSE /\ keyWindow' = "app" /\ appWindow' = "none"
      BY <1>1, <1>7 DEF TypeOK, WindowRestored, FadeEnds
    <2>3. QED
      BY <1>1, <1>7, <2>1, <2>2
      DEF TypeOK, WindowRestored, Windows, FadeEnds, timer, history
  <1>8. ASSUME NEW t \in Item, ItemStep(t) PROVE Windows'
    <2>1. CASE Fire(t)
      <3>1. mainQueue' \in Seq(Block)
        BY <1>1, <2>1 DEF TypeOK, Fire, Block, FadeOutBlock
      <3>2. items' \in [Item -> ItemState]
        BY <1>1, <2>1 DEF TypeOK, Fire, ItemState
      <3>3. QED
        BY <1>1, <2>1, <3>1, <3>2
        DEF TypeOK, WindowRestored, Windows, Fire, windows, history
    <2>2. CASE ReadHandler(t)
      <3>1. items' \in [Item -> ItemState] /\ held' \in [Item -> Item \cup {NoItem}]
        BY <1>1, <2>2 DEF TypeOK, ReadHandler, ItemState
      <3>2. QED
        BY <1>1, <2>2, <3>1
        DEF TypeOK, WindowRestored, Windows, ReadHandler, windows, history
    <2>3. CASE CancelHeld(t)
      <3>1. AfterCancel(held[t]) \in [Item -> ItemState]
        BY <1>1, AfterCancelType DEF TypeOK
      <3>2. items' \in [Item -> ItemState] /\ dismissHandler' \in Item \cup {NoItem}
        BY <2>3, <3>1 DEF CancelHeld, ItemState
      <3>3. QED
        BY <1>1, <2>3, <3>2
        DEF TypeOK, WindowRestored, Windows, CancelHeld, windows, history
    <2>4. QED
      BY <1>8, <2>1, <2>2, <2>3 DEF ItemStep
  <1>9. CASE UNCHANGED vars
    BY <1>1, <1>9
    DEF TypeOK, WindowRestored, Windows, vars
  <1>10. QED
    BY <1>2, <1>3, <1>4, <1>5, <1>6, <1>7, <1>8, <1>9 DEF Next, MainStep, AllOver

LEMMA WindowsInvariant == Spec => []Windows
  BY WindowsInit, WindowsStep, PTL DEF Spec

\* The variables of KRProgressHUD keep their types; a window remembered by
\* appWindow is the application's, never the overlay's own.
THEOREM TypeCorrect == Spec => []TypeOK
  BY WindowsInvariant, PTL DEF Windows

\* fadeInView and the completion of fadeOutView hand the key window over and
\* back, however shows, dismissals and fades overlap and whatever thread runs.
THEOREM WindowAlwaysRestored == Spec => []WindowRestored
  BY WindowsInvariant, PTL DEF Windows

(***************************************************************************)
(* Messages end                                                            *)
(***************************************************************************)

\* Place i of the queue holds a reveal, and no later place does.
LastReveal(i) ==
    /\ i \in DOMAIN mainQueue
    /\ mainQueue[i].op = "reveal"
    /\ \A j \in DOMAIN mainQueue : j > i => mainQueue[j].op # "reveal"

\* A message that is laid out belongs to the last reveal in the queue, and while a
\* work item has posted its dismissal and still runs, the main thread is kept from
\* the block it posted.
MessageInductive ==
    /\ MessageHasEnd
    /\ layout = "message" => \A i \in DOMAIN mainQueue :
                                LastReveal(i) => mainQueue[i].kind = "message"
    /\ Underway => mainQueue # <<>>

LEMMA MessageInit == Init => MessageInductive
  BY DEF Init, MessageInductive, MessageHasEnd, Underway

\* A posted block that is no reveal leaves the last reveal where it was.
LEMMA LastRevealAppend ==
    ASSUME mainQueue \in Seq(Block), NEW b \in Block, b.op # "reveal",
           mainQueue' = Append(mainQueue, b), NEW i \in DOMAIN mainQueue', LastReveal(i)'
    PROVE  i \in DOMAIN mainQueue /\ LastReveal(i) /\ mainQueue'[i] = mainQueue[i]
  <1>1. /\ Len(mainQueue') = Len(mainQueue) + 1
        /\ mainQueue'[Len(mainQueue) + 1] = b
        /\ \A k \in 1..Len(mainQueue) : mainQueue'[k] = mainQueue[k]
    BY AppendProperties
  <1>2. i \in 1..Len(mainQueue)
    BY <1>1 DEF LastReveal
  <1>3. \A j \in 1..Len(mainQueue) : j \in DOMAIN mainQueue'
    BY <1>1
  <1>4. QED
    BY <1>1, <1>2, <1>3 DEF LastReveal

\* Running the oldest block leaves the last of the others the last.
LEMMA LastRevealTail ==
    ASSUME mainQueue \in Seq(Block), mainQueue # <<>>, mainQueue' = Tail(mainQueue),
           NEW i \in DOMAIN mainQueue', LastReveal(i)'
    PROVE  /\ i + 1 \in DOMAIN mainQueue
           /\ LastReveal(i + 1)
           /\ mainQueue'[i] = mainQueue[i + 1]
  <1>1. /\ Len(mainQueue) \in Nat \ {0}
        /\ DOMAIN mainQueue = 1..Len(mainQueue)
        /\ DOMAIN mainQueue' = 1..(Len(mainQueue) - 1)
        /\ \A k \in DOMAIN mainQueue' : mainQueue'[k] = mainQueue[k + 1]
    OBVIOUS
  <1>2. ASSUME NEW j \in DOMAIN mainQueue, j > i + 1
        PROVE  mainQueue[j].op # "reveal"
    <2>1. j - 1 \in DOMAIN mainQueue' /\ j - 1 > i /\ (j - 1) + 1 = j
      BY <1>1, <1>2
    <2>2. QED
      BY <1>1, <2>1 DEF LastReveal
  <1>3. QED
    BY <1>1, <1>2 DEF LastReveal

LEMMA MessageStep ==
    ASSUME ~Preempted, TypeOK, MessageInductive, [Next]_vars
    PROVE  MessageInductive'
  <1>0. mainQueue \in Seq(Block)
    BY DEF TypeOK
  <1>a. /\ MessageHasEnd
        /\ layout = "message" => \A i \in DOMAIN mainQueue :
                                    LastReveal(i) => mainQueue[i].kind = "message"
        /\ Underway => mainQueue # <<>>
    BY DEF MessageInductive
  \* Posting a block that is no reveal.
  <1>1. ASSUME NEW b \in Block, b.op # "reveal", mainQueue' = Append(mainQueue, b),
               layout' = layout
        PROVE  MessageInductive'
    <2>1. mainQueue' # <<>>
      BY <1>0, <1>1, AppendProperties
    <2>2. layout' = "message" => \A i \in DOMAIN mainQueue' :
                                    LastReveal(i)' => mainQueue'[i].kind = "message"
      BY <1>0, <1>1, <1>a, LastRevealAppend
    <2>3. QED
      BY <2>1, <2>2 DEF MessageInductive, MessageHasEnd
  <1>2. ASSUME NEW kind \in Kind, Show(kind) PROVE MessageInductive'
    <2> DEFINE b == [op |-> "prepare", kind |-> kind]
    <2>1. b \in Block /\ b.op # "reveal"
      BY DEF Block
    <2>2. mainQueue' = Append(mainQueue, b) /\ layout' = layout
      BY <1>2 DEF Show
    <2>3. QED
      BY <1>1, <2>1, <2>2
  <1>3. CASE Dismiss
    <2>1. FadeOutBlock \in Block /\ FadeOutBlock.op # "reveal"
      BY DEF Block, FadeOutBlock
    <2>2. mainQueue' = Append(mainQueue, FadeOutBlock) /\ layout' = layout
      BY <1>3 DEF Dismiss
    <2>3. QED
      BY <1>1, <2>1, <2>2
  <1>4. CASE Prepare
    <2> DEFINE b == [Head(mainQueue) EXCEPT !.op = "reveal"]
               q == Tail(mainQueue)
    <2>1. /\ b \in Block /\ b.op = "reveal" /\ b.kind = Head(mainQueue).kind
          /\ q \in Seq(Block)
          /\ mainQueue' = Append(q, b)
          /\ layout' = Head(mainQueue).kind
      <3>1. b \in Block /\ b.op = "reveal"
        BY <1>0, <1>4, ShowBlock DEF Prepare
      <3>2. b.kind = Head(mainQueue).kind
        BY <1>0, <1>4 DEF Prepare
      <3>3. QED
        BY <1>0, <1>4, <3>1, <3>2 DEF Prepare
    <2> HIDE DEF b, q
    <2>2. /\ mainQueue' # <<>>
          /\ DOMAIN mainQueue' = 1..(Len(q) + 1)
          /\ mainQueue'[Len(q) + 1] = b
          /\ Len(q) \in Nat
      BY <2>1, AppendProperties
    <2>3. \A i \in DOMAIN mainQueue' : LastReveal(i)' => i = Len(q) + 1
      BY <2>1, <2>2 DEF LastReveal
    <2>4. layout' = "message" => \A i \in DOMAIN mainQueue' :
                                    LastReveal(i)' => mainQueue'[i].kind = "message"
      BY <2>1, <2>2, <2>3
    <2>5. QED
      BY <2>2, <2>4 DEF MessageInductive, MessageHasEnd
  \* Running the oldest block, which posts none and lays nothing out.
  <1>5. ASSUME mainQueue # <<>>, mainQueue' = Tail(mainQueue), layout' = layout
        PROVE  layout' = "message" => \A i \in DOMAIN mainQueue' :
                                         LastReveal(i)' => mainQueue'[i].kind = "message"
    BY <1>0, <1>5, <1>a, LastRevealTail
  <1>6. CASE Reveal
    <2>1. ~Underway /\ mainQueue # <<>> /\ Head(mainQueue).op = "reveal"
      BY <1>6 DEF Reveal, MainMayRun
    <2>2. layout' = "message" => \A i \in DOMAIN mainQueue' :
                                    LastReveal(i)' => mainQueue'[i].kind = "message"
      BY <1>5, <1>6 DEF Reveal
    <2>3. CASE Head(mainQueue).kind = "loading"
      <3>1. ~Underway'
        BY <1>6, <2>1, <2>3 DEF Reveal, Underway
      <3>2. ASSUME layout = "message" PROVE mainQueue' # <<>>
        <4>1. SUFFICES ASSUME mainQueue' = <<>> PROVE FALSE
          OBVIOUS
        <4>2. DOMAIN mainQueue = {1} /\ mainQueue[1] = Head(mainQueue)
          <5>1. Tail(mainQueue) = <<>>
            BY <1>6, <4>1 DEF Reveal
          <5>2. Len(mainQueue) = Len(Tail(mainQueue)) + 1
            BY <1>0, <2>1
          <5>3. Len(Tail(mainQueue)) = 0
            BY <5>1, EmptySeq, Zenon
          <5>4. Len(mainQueue) = 1
            BY <5>2, <5>3
          <5>5. QED
            BY <1>0, <5>4
        <4>3. LastReveal(1)
          BY <2>1, <4>2 DEF LastReveal
        <4>4. QED
          BY <1>a, <2>3, <3>2, <4>2, <4>3
      <3>3. layout' = layout
        BY <1>6 DEF Reveal
      <3>4. QED
        BY <2>2, <3>1, <3>2, <3>3 DEF MessageInductive, MessageHasEnd
    <2>4. CASE Head(mainQueue).kind # "loading"
      <3>1. PICK t \in Item : items[t] = "unused" /\ items' = [items EXCEPT ![t] = "armed"]
        BY <1>6, <2>4 DEF Reveal
      <3>2. items'[t] = "armed" /\ \A u \in Item : u # t => items'[u] = items[u]
        BY <3>1 DEF TypeOK
      <3>3. Armed' /\ ~Underway'
        BY <2>1, <3>2 DEF Armed, Underway
      <3>4. QED
        BY <2>2, <3>3 DEF MessageInductive, MessageHasEnd
    <2>5. QED
      BY <2>3, <2>4
  <1>7. CASE FadeOut
    <2>1. fades' > 0
      BY <1>7 DEF TypeOK, FadeOut
    <2>2. ~Underway'
      BY <1>7 DEF FadeOut, MainMayRun, Underway, timer
    <2>3. layout' = "message" => \A i \in DOMAIN mainQueue' :
                                    LastReveal(i)' => mainQueue'[i].kind = "message"
      BY <1>5, <1>7 DEF FadeOut
    <2>4. QED
      BY <2>1, <2>2, <2>3 DEF MessageInductive, MessageHasEnd
  <1>8. CASE FadeEnds
    <2>1. ~visible' /\ ~Underway'
      BY <1>8 DEF FadeEnds, MainMayRun, Underway, timer
    <2>2. mainQueue' = mainQueue /\ (layout' = "message" => layout = "message")
      BY <1>8 DEF FadeEnds
    <2>3. QED
      BY <1>a, <2>1, <2>2 DEF MessageInductive, MessageHasEnd, LastReveal
  <1>9. ASSUME NEW t \in Item, ItemStep(t) PROVE MessageInductive'
    <2>1. CASE Fire(t)
      <3>1. FadeOutBlock \in Block /\ FadeOutBlock.op # "reveal"
        BY DEF Block, FadeOutBlock
      <3>2. mainQueue' = Append(mainQueue, FadeOutBlock) /\ layout' = layout
        BY <2>1 DEF Fire
      <3>3. QED
        BY <1>1, <3>1, <3>2
    <2>2. CASE ReadHandler(t) \/ CancelHeld(t)
      <3>1. mainQueue # <<>> /\ UNCHANGED <<mainQueue, layout>>
        BY <1>a, <2>2 DEF ReadHandler, CancelHeld, Underway
      <3>2. QED
        BY <1>a, <3>1 DEF MessageInductive, MessageHasEnd, LastReveal
    <2>3. QED
      BY <1>9, <2>1, <2>2 DEF ItemStep
  <1>10. CASE UNCHANGED vars
    BY <1>a, <1>10
    DEF MessageInductive, MessageHasEnd, LastReveal, Underway, Armed, vars
  <1>11. QED
    BY <1>2, <1>3, <1>4, <1>6, <1>7, <1>8, <1>9, <1>10 DEF Next, MainStep, AllOver

\* As long as a work item is not interrupted between KRProgressHUD.dismiss() and
\* the end of cancelCurrentDismissHandler, no message stays on the screen with
\* nothing ahead to end it, whatever calls and fades overlap.
THEOREM MessageAlwaysHasEnd ==
    ASSUME ~Preempted
    PROVE  Spec => []MessageHasEnd
  <1>1. Init => MessageInductive
    BY MessageInit
  <1>2. TypeOK /\ MessageInductive /\ [Next]_vars => MessageInductive'
    BY MessageStep
  <1>3. MessageInductive => MessageHasEnd
    BY DEF MessageInductive
  <1>4. QED
    BY <1>1, <1>2, <1>3, TypeCorrect, PTL DEF Spec

(***************************************************************************)
(* The armed item is the registered one                                    *)
(***************************************************************************)

\* The places of the queue that hold a block of show.
Shows == {i \in DOMAIN mainQueue : mainQueue[i].op # "fadeOut"}

\* One show at a time is in the queue, nothing is registered while it waits to
\* reveal, and a work item that is under way is alone and holds what is registered.
TimerInductive ==
    /\ ArmedIsRegistered
    /\ \A i, j \in Shows : i = j
    /\ \A i \in Shows : mainQueue[i].op = "reveal" => dismissHandler = NoItem
    /\ \A t, u \in Item : items[t] \in {"running", "holding"}
                            /\ items[u] \in {"running", "holding"} => t = u
    /\ \A t \in Item : items[t] = "holding" => held[t] = dismissHandler

LEMMA TimerInit == Init => TimerInductive
  BY DEF Init, TimerInductive, ArmedIsRegistered, Shows

\* A block at the end of the queue is the only new place.
LEMMA ShowsAppend ==
    ASSUME mainQueue \in Seq(Block), NEW b \in Block, mainQueue' = Append(mainQueue, b)
    PROVE  /\ b.op = "fadeOut" => Shows' = Shows
           /\ b.op # "fadeOut" => Shows' = Shows \cup {Len(mainQueue) + 1}
           /\ \A i \in Shows : mainQueue'[i] = mainQueue[i]
           /\ mainQueue'[Len(mainQueue) + 1] = b
  BY DEF Shows

\* The oldest block leaves, the others move one place forward.
LEMMA ShowsTail ==
    ASSUME mainQueue \in Seq(Block), mainQueue # <<>>, mainQueue' = Tail(mainQueue)
    PROVE  \A i \in Shows' : /\ i \in Nat \ {0}
                             /\ i + 1 \in Shows
                             /\ mainQueue'[i] = mainQueue[i + 1]
  BY DEF Shows

\* A show that leaves the queue leaves no other behind.
LEMMA OnlyShowLeaves ==
    ASSUME mainQueue \in Seq(Block), mainQueue # <<>>, Head(mainQueue).op # "fadeOut",
           \A i, j \in Shows : i = j
    PROVE  \A i \in DOMAIN Tail(mainQueue) : Tail(mainQueue)[i].op = "fadeOut"
  <1>1. 1 \in Shows
    BY DEF Shows
  <1>2. SUFFICES ASSUME NEW i \in DOMAIN Tail(mainQueue),
                        Tail(mainQueue)[i].op # "fadeOut"
                 PROVE  FALSE
    OBVIOUS
  <1>3. i \in Nat \ {0} /\ i + 1 \in DOMAIN mainQueue /\ mainQueue[i + 1] = Tail(mainQueue)[i]
    OBVIOUS
  <1>4. i + 1 \in Shows
    BY <1>2, <1>3 DEF Shows
  <1>5. QED
    BY <1>1, <1>3, <1>4

LEMMA TimerStep ==
    ASSUME Spaced, ~Preempted, TypeOK, TimerInductive, [Next]_vars
    PROVE  TimerInductive'
  <1>0. /\ mainQueue \in Seq(Block)
        /\ items \in [Item -> ItemState]
        /\ held \in [Item -> Item \cup {NoItem}]
        /\ dismissHandler \in Item \cup {NoItem}
    BY DEF TypeOK
  <1>a. /\ ArmedIsRegistered
        /\ \A i, j \in Shows : i = j
        /\ \A i \in Shows : mainQueue[i].op = "reveal" => dismissHandler = NoItem
        /\ \A t, u \in Item : items[t] \in {"running", "holding"}
                                /\ items[u] \in {"running", "holding"} => t = u
        /\ \A t \in Item : items[t] = "holding" => held[t] = dismissHandler
    BY DEF TimerInductive
  <1>b. NoItem \notin Item
    BY DEF Item, NoItem
  <1>2. ASSUME NEW kind \in Kind, Show(kind) PROVE TimerInductive'
    <2>1. Shows = {}
      BY <1>2 DEF Show, MayCall, MainIdle, Shows
    <2>2. [op |-> "prepare", kind |-> kind] \in Block
      BY DEF Block
    <2>3. Shows' = {Len(mainQueue) + 1} /\ mainQueue'[Len(mainQueue) + 1].op = "prepare"
      BY <1>0, <1>2, <2>1, <2>2, ShowsAppend DEF Show
    <2>4. UNCHANGED <<items, held, dismissHandler>>
      BY <1>2 DEF Show, timer
    <2>5. QED
      BY <1>a, <2>3, <2>4 DEF TimerInductive, ArmedIsRegistered
  <1>3. CASE Dismiss
    <2>1. FadeOutBlock \in Block
      BY DEF FadeOutBlock, Block
    <2>2. Shows' = Shows /\ \A i \in Shows : mainQueue'[i] = mainQueue[i]
      BY <1>0, <1>3, <2>1, ShowsAppend DEF Dismiss, FadeOutBlock
    <2>3. UNCHANGED <<items, held, dismissHandler>>
      BY <1>3 DEF Dismiss, timer
    <2>4. QED
      BY <1>a, <2>2, <2>3 DEF TimerInductive, ArmedIsRegistered
  <1>4. CASE Prepare
    <2>1. ~Underway /\ Head(mainQueue).op = "prepare" /\ mainQueue # <<>>
      BY <1>4 DEF Prepare, MainMayRun
    <2>2. \A u \in Item : items'[u] # "armed" /\ items'[u] \notin {"running", "holding"}
      <3>1. \A u \in Item : items[u] \notin {"running", "holding"}
        BY <2>1 DEF Underway
      <3>2. \A u \in Item : u # dismissHandler => items[u] # "armed"
        BY <1>a DEF ArmedIsRegistered
      <3>3. QED
        BY <1>0, <1>4, <1>b, <3>1, <3>2, AfterCancelType DEF Prepare
    <2>3. dismissHandler' = NoItem
      BY <1>4 DEF Prepare
    <2>4. \A i, j \in Shows' : i = j
      <3> DEFINE b == [Head(mainQueue) EXCEPT !.op = "reveal"]
                 q == Tail(mainQueue)
      <3>1. b \in Block /\ q \in Seq(Block) /\ mainQueue' = Append(q, b)
        BY <1>0, <1>4, <2>1, ShowBlock DEF Prepare
      <3>2. \A i \in DOMAIN q : q[i].op = "fadeOut"
        BY <1>0, <1>a, <2>1, OnlyShowLeaves
      <3> HIDE DEF b, q
      <3>3. \A i \in Shows' : i = Len(q) + 1
        BY <3>1, <3>2 DEF Shows
      <3>4. QED
        BY <3>3
    <2>5. QED
      BY <2>2, <2>3, <2>4 DEF TimerInductive, ArmedIsRegistered
  <1>5. CASE Reveal
    <2>1. ~Underway /\ Head(mainQueue).op = "reveal" /\ mainQueue # <<>>
      BY <1>5 DEF Reveal, MainMayRun
    <2>2. dismissHandler = NoItem
      <3>1. 1 \in Shows /\ mainQueue[1].op = "reveal"
        BY <1>0, <2>1 DEF Shows
      <3>2. QED
        BY <1>a, <3>1
    <2>3. \A u \in Item : items[u] # "armed" /\ items[u] \notin {"running", "holding"}
      BY <1>a, <1>b, <2>1, <2>2 DEF ArmedIsRegistered, Underway
    <2>4. Shows' = {}
      <3>1. mainQueue' = Tail(mainQueue)
        BY <1>5 DEF Reveal
      <3>2. QED
        BY <1>0, <1>a, <2>1, <3>1, OnlyShowLeaves DEF Shows
    <2>5. /\ \A u \in Item : items'[u] = "armed" => dismissHandler' = u
          /\ \A u \in Item : items'[u] \notin {"running", "holding"}
      <3>1. CASE Head(mainQueue).kind = "loading"
        BY <1>5, <2>3, <3>1 DEF Reveal
      <3>2. CASE Head(mainQueue).kind # "loading"
        <4>1. PICK t \in Item : /\ items' = [items EXCEPT ![t] = "armed"]
                                /\ dismissHandler' = t
          BY <1>5, <3>2 DEF Reveal
        <4>2. QED
          BY <1>0, <2>3, <4>1
      <3>3. QED
        BY <3>1, <3>2
    <2>6. QED
      BY <2>4, <2>5 DEF TimerInductive, ArmedIsRegistered
  <1>6. CASE FadeOut
    <2>1. mainQueue # <<>> /\ mainQueue' = Tail(mainQueue)
      BY <1>6 DEF FadeOut
    <2>2. UNCHANGED <<items, held, dismissHandler>>
      BY <1>6 DEF FadeOut, timer
    <2>3. \A i, j \in Shows' : i = j
      BY <1>0, <1>a, <2>1, ShowsTail
    <2>4. \A i \in Shows' : mainQueue'[i].op = "reveal" => dismissHandler = NoItem
      BY <1>0, <1>a, <2>1, ShowsTail
    <2>5. QED
      BY <1>a, <2>2, <2>3, <2>4 DEF TimerInductive, ArmedIsRegistered
  <1>7. CASE FadeEnds
    BY <1>7, <1>a DEF FadeEnds, timer, TimerInductive, ArmedIsRegistered, Shows
  <1>8. ASSUME NEW t \in Item, ItemStep(t) PROVE TimerInductive'
    <2>1. CASE Fire(t)
      <3>1. ~Underway /\ items[t] = "armed"
        BY <2>1 DEF Fire
      <3>2. items' = [items EXCEPT ![t] = "running"] /\ UNCHANGED <<dismissHandler, held>>
        BY <2>1 DEF Fire
      <3>3. Shows' = Shows /\ \A i \in Shows : mainQueue'[i] = mainQueue[i]
        <4>1. FadeOutBlock \in Block
          BY DEF FadeOutBlock, Block
        <4>2. QED
          BY <1>0, <2>1, <4>1, ShowsAppend DEF Fire, FadeOutBlock
      <3>4. \A u \in Item : u # t => items'[u] = items[u]
        BY <1>0, <3>2
      <3>5. items'[t] = "running" /\ \A u \in Item : items[u] \notin {"running", "holding"}
        BY <1>0, <3>1, <3>2 DEF Underway
      <3>6. QED
        BY <1>a, <3>2, <3>3, <3>4, <3>5 DEF TimerInductive, ArmedIsRegistered
    <2>2. CASE ReadHandler(t)
      <3>1. items[t] = "running" /\ UNCHANGED <<mainQueue, dismissHandler>>
        BY <2>2 DEF ReadHandler
      <3>2. /\ items'[t] \in {"done", "holding"}
            /\ held'[t] = dismissHandler
            /\ \A u \in Item : u # t => items'[u] = items[u] /\ held'[u] = held[u]
        BY <1>0, <2>2 DEF ReadHandler
      <3>3. Shows' = Shows
        BY <3>1 DEF Shows
      <3>4. \A u \in Item : items'[u] = "armed" => dismissHandler' = u
        BY <1>a, <3>1, <3>2 DEF ArmedIsRegistered
      <3>5. \A u \in Item : items'[u] = "holding" => held'[u] = dismissHandler'
        BY <1>a, <3>1, <3>2
      <3>6. \A u, v \in Item : items'[u] \in {"running", "holding"}
                                /\ items'[v] \in {"running", "holding"} => u = v
        BY <1>a, <3>1, <3>2
      <3>7. QED
        BY <1>a, <3>1, <3>3, <3>4, <3>5, <3>6 DEF TimerInductive, ArmedIsRegistered
    <2>3. CASE CancelHeld(t)
      <3>1. /\ items[t] = "holding"
            /\ items' = [AfterCancel(held[t]) EXCEPT ![t] = "done"]
            /\ dismissHandler' = NoItem
            /\ UNCHANGED <<mainQueue, held>>
        BY <2>3 DEF CancelHeld
      <3>2. held[t] = dismissHandler
        BY <1>a, <3>1
      <3>3. \A u \in Item : u # dismissHandler => items[u] # "armed"
        BY <1>a DEF ArmedIsRegistered
      <3>4. \A u \in Item : u # t => items[u] \notin {"running", "holding"}
        BY <1>a, <3>1
      <3> DEFINE f == AfterCancel(held[t])
      <3>5. /\ f \in [Item -> ItemState]
            /\ \A u \in Item : f[u] # "armed"
            /\ \A u \in Item : u # t => f[u] \notin {"running", "holding"}
        BY <1>0, <1>b, <3>2, <3>3, <3>4, AfterCancelType
      <3> HIDE DEF f
      <3>6. \A u \in Item : items'[u] \notin {"armed", "running", "holding"}
        <4>1. items' = [f EXCEPT ![t] = "done"]
          BY <3>1 DEF f
        <4>2. QED
          BY <3>5, <4>1
      <3>7. Shows' = Shows
        BY <3>1 DEF Shows
      <3>8. QED
        BY <1>a, <3>1, <3>6, <3>7 DEF TimerInductive, ArmedIsRegistered
    <2>4. QED
      BY <1>8, <2>1, <2>2, <2>3 DEF ItemStep
  <1>9. CASE UNCHANGED vars
    BY <1>a, <1>9 DEF TimerInductive, ArmedIsRegistered, Shows, vars
  <1>10. QED
    BY <1>2, <1>3, <1>4, <1>5, <1>6, <1>7, <1>8, <1>9 DEF Next, MainStep, AllOver

\* When calls are spaced and work items are not interrupted, a timer that may
\* still hide the overlay is the one the next show cancels.
THEOREM ArmedAlwaysRegistered ==
    ASSUME Spaced, ~Preempted
    PROVE  Spec => []ArmedIsRegistered
  <1>1. Init => TimerInductive
    BY TimerInit
  <1>2. TypeOK /\ TimerInductive /\ [Next]_vars => TimerInductive'
    BY TimerStep
  <1>3. TimerInductive => ArmedIsRegistered
    BY DEF TimerInductive
  <1>4. QED
    BY <1>1, <1>2, <1>3, TypeCorrect, PTL DEF Spec
(***************************************************************************)
(* Only a loading overlay remains                                          *)
(***************************************************************************)

\* A show in the queue is that of the last call, and unless that is to stay, what
\* is on the screen has something ahead of it.
RemainInductive ==
    /\ \A i \in Shows : mainQueue[i].kind = lastCall
    /\ visible /\ lastCall # "loading" => Armed \/ fades > 0 \/ mainQueue # <<>>

LEMMA RemainInit == Init => RemainInductive
  BY DEF Init, RemainInductive, Shows

LEMMA RemainStep ==
    ASSUME Spaced, ~Preempted, TypeOK, RemainInductive, [Next]_vars,
           Underway => mainQueue # <<>>
    PROVE  RemainInductive'
  <1>0. mainQueue \in Seq(Block) /\ items \in [Item -> ItemState] /\ fades \in Nat
    BY DEF TypeOK
  <1>a. /\ \A i \in Shows : mainQueue[i].kind = lastCall
        /\ visible /\ lastCall # "loading" => Armed \/ fades > 0 \/ mainQueue # <<>>
    BY DEF RemainInductive
  \* A block posted last leaves something ahead.
  <1>1. ASSUME NEW b \in Block, mainQueue' = Append(mainQueue, b),
               \A i \in Shows' : mainQueue'[i].kind = lastCall'
        PROVE  RemainInductive'
    <2>1. mainQueue' # <<>>
      BY <1>0, <1>1, AppendProperties
    <2>2. QED
      BY <1>1, <2>1 DEF RemainInductive
  <1>2. ASSUME NEW kind \in Kind, Show(kind) PROVE RemainInductive'
    <2> DEFINE b == [op |-> "prepare", kind |-> kind]
    <2>1. b \in Block /\ b.op # "fadeOut" /\ b.kind = kind
      BY DEF Block
    <2>2. mainQueue' = Append(mainQueue, b) /\ lastCall' = kind
      BY <1>2 DEF Show
    <2>3. Shows = {}
      BY <1>2 DEF Show, MayCall, MainIdle, Shows
    <2> HIDE DEF b
    <2>4. \A i \in Shows' : mainQueue'[i].kind = lastCall'
      BY <1>0, <2>1, <2>2, <2>3, ShowsAppend
    <2>5. QED
      BY <1>1, <2>1, <2>2, <2>4
  \* Posting a dismissal while the shows in the queue keep their call.
  <1>3. ASSUME mainQueue' = Append(mainQueue, FadeOutBlock),
               \A i \in Shows : mainQueue[i].kind = lastCall'
        PROVE  RemainInductive'
    <2>1. FadeOutBlock \in Block /\ FadeOutBlock.op = "fadeOut"
      BY DEF FadeOutBlock, Block
    <2>2. \A i \in Shows' : mainQueue'[i].kind = lastCall'
      BY <1>0, <1>3, <2>1, ShowsAppend
    <2>3. QED
      BY <1>1, <1>3, <2>1, <2>2
  <1>4. CASE Dismiss
    <2>1. Shows = {}
      BY <1>4 DEF Dismiss, MayCall, MainIdle, Shows
    <2>2. QED
      BY <1>3, <1>4, <2>1 DEF Dismiss
  <1>5. CASE Prepare
    <2> DEFINE b == [Head(mainQueue) EXCEPT !.op = "reveal"]
               q == Tail(mainQueue)
    <2>1. mainQueue # <<>> /\ Head(mainQueue).op = "prepare"
      BY <1>5 DEF Prepare
    <2>2. /\ b \in Block /\ b.kind = Head(mainQueue).kind
          /\ q \in Seq(Block)
          /\ mainQueue' = Append(q, b)
          /\ lastCall' = lastCall
      <3>1. b \in Block
        BY <1>0, <2>1, ShowBlock
      <3>2. b.kind = Head(mainQueue).kind
        BY <1>0, <2>1
      <3>3. QED
        BY <1>0, <1>5, <3>1, <3>2 DEF Prepare, history
    <2>3. Head(mainQueue).kind = lastCall
      <3>1. 1 \in Shows /\ mainQueue[1] = Head(mainQueue)
        BY <1>0, <2>1 DEF Shows
      <3>2. QED
        BY <1>a, <3>1
    <2>4. \A i \in Shows : i # 1 => mainQueue[i].kind = lastCall
      BY <1>a
    <2>5. \A i \in DOMAIN q : i + 1 \in DOMAIN mainQueue /\ q[i] = mainQueue[i + 1]
      BY <1>0, <2>1
    <2> HIDE DEF b, q
    <2>6. /\ DOMAIN mainQueue' = 1..(Len(q) + 1)
          /\ mainQueue'[Len(q) + 1] = b
          /\ \A i \in 1..Len(q) : i \in DOMAIN q /\ mainQueue'[i] = q[i]
          /\ mainQueue' # <<>>
      BY <2>2, AppendProperties
    <2>7. ASSUME NEW i \in Shows' PROVE mainQueue'[i].kind = lastCall
      <3>1. i \in 1..(Len(q) + 1) /\ mainQueue'[i].op # "fadeOut" /\ Len(q) \in Nat
        BY <2>2, <2>6 DEF Shows
      <3>2. CASE i = Len(q) + 1
        BY <2>2, <2>3, <2>6, <3>2
      <3>3. CASE i # Len(q) + 1
        <4>1. i \in 1..Len(q)
          BY <3>1, <3>3
        <4>2. i + 1 \in Shows /\ mainQueue'[i] = mainQueue[i + 1]
          BY <2>5, <2>6, <3>1, <4>1 DEF Shows
        <4>3. QED
          BY <1>a, <4>2
      <3>4. QED
        BY <3>2, <3>3
    <2>8. QED
      BY <2>2, <2>6, <2>7 DEF RemainInductive
  \* Running the oldest block, which posts none.
  <1>6. ASSUME mainQueue # <<>>, mainQueue' = Tail(mainQueue), lastCall' = lastCall
        PROVE  \A i \in Shows' : mainQueue'[i].kind = lastCall'
    <2>1. \A i \in Shows' : i + 1 \in Shows /\ mainQueue'[i] = mainQueue[i + 1]
      BY <1>0, <1>6, ShowsTail
    <2>2. QED
      BY <1>6, <1>a, <2>1
  <1>7. CASE Reveal
    <2>1. mainQueue # <<>> /\ mainQueue' = Tail(mainQueue) /\ lastCall' = lastCall
      BY <1>7 DEF Reveal, history
    <2>2. CASE Head(mainQueue).kind = "loading"
      <3>1. 1 \in Shows /\ mainQueue[1] = Head(mainQueue)
        BY <1>0, <1>7, <2>1 DEF Shows, Reveal
      <3>2. lastCall = "loading"
        BY <1>a, <2>2, <3>1
      <3>3. QED
        BY <1>6, <2>1, <3>2 DEF RemainInductive
    <2>3. CASE Head(mainQueue).kind # "loading"
      <3>1. PICK t \in Item : items' = [items EXCEPT ![t] = "armed"]
        BY <1>7, <2>3 DEF Reveal
      <3>2. Armed'
        BY <1>0, <3>1 DEF Armed
      <3>3. QED
        BY <1>6, <2>1, <3>2 DEF RemainInductive
    <2>4. QED
      BY <2>2, <2>3
  <1>8. CASE FadeOut
    <2>1. mainQueue # <<>> /\ mainQueue' = Tail(mainQueue) /\ lastCall' = lastCall
      BY <1>8 DEF FadeOut, history
    <2>2. fades' > 0
      BY <1>0, <1>8 DEF FadeOut
    <2>3. QED
      BY <1>6, <2>1, <2>2 DEF RemainInductive
  <1>9. CASE FadeEnds
    BY <1>9, <1>a DEF FadeEnds, history, RemainInductive, Shows
  <1>10. ASSUME NEW t \in Item, ItemStep(t) PROVE RemainInductive'
    <2>1. CASE Fire(t)
      BY <1>3, <1>a, <2>1 DEF Fire, history
    <2>2. CASE ReadHandler(t) \/ CancelHeld(t)
      <3>1. mainQueue # <<>> /\ UNCHANGED <<mainQueue, lastCall>>
        BY <2>2 DEF ReadHandler, CancelHeld, Underway, history
      <3>2. QED
        BY <1>a, <3>1 DEF RemainInductive, Shows
    <2>3. QED
      BY <1>10, <2>1, <2>2 DEF ItemStep
  <1>11. CASE UNCHANGED vars
    BY <1>a, <1>11 DEF RemainInductive, Shows, Armed, vars
  <1>12. QED
    BY <1>2, <1>4, <1>5, <1>7, <1>8, <1>9, <1>10, <1>11 DEF Next, MainStep, AllOver

\* When calls are spaced and work items not interrupted, what is left on the screen
\* once everything is over is a loading overlay shown last: the completion of each
\* fade and each armed dismissal take everything else away.
THEOREM OnlyLoadingEverRemains ==
    ASSUME Spaced, ~Preempted
    PROVE  Spec => []OnlyLoadingRemains
  <1>1. Init => MessageInductive /\ RemainInductive
    BY MessageInit, RemainInit
  <1>2. TypeOK /\ MessageInductive /\ RemainInductive /\ [Next]_vars
            => MessageInductive' /\ RemainInductive'
    <2>1. MessageInductive => (Underway => mainQueue # <<>>)
      BY DEF MessageInductive
    <2>2. QED
      BY <2>1, MessageStep, RemainStep
  <1>3. RemainInductive => OnlyLoadingRemains
    BY DEF RemainInductive, OnlyLoadingRemains, Over, MainIdle
  <1>4. QED
    BY <1>1, <1>2, <1>3, TypeCorrect, PTL DEF Spec

=============================================================================
