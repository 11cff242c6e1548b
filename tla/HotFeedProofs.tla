--------------------------- MODULE HotFeedProofs ---------------------------
(***************************************************************************)
(* Proofs about HotFeed for every page size, every number of pulls, every  *)
(* user and every set of faults.                                           *)
(***************************************************************************)
EXTENDS MCHotFeed, SequenceTheorems, TLAPS

(***************************************************************************)
(* The main queue                                                          *)
(***************************************************************************)

\* The waiting blocks are places of the queue, and the first one is its head.
LEMMA WaitingHead ==
    ASSUME mainQueue \in Seq(Block), NEW c \in Control
    PROVE  /\ Waiting(c) \subseteq 1..Len(mainQueue)
           /\ mainQueue # <<>> => (1 \in Waiting(c) <=> Head(mainQueue).of = c)
  BY DEF Waiting

\* Posting a block adds one place, at the end, for the control it is about.
LEMMA WaitingAppend ==
    ASSUME mainQueue \in Seq(Block), NEW b \in Block,
           mainQueue' = Append(mainQueue, b), NEW c \in Control
    PROVE  /\ mainQueue' \in Seq(Block)
           /\ b.of = c => Waiting(c)' = Waiting(c) \cup {Len(mainQueue) + 1}
           /\ b.of # c => Waiting(c)' = Waiting(c)
  BY DEF Waiting

\* Running the oldest block moves the others one place forward.
LEMMA WaitingTail ==
    ASSUME mainQueue \in Seq(Block), mainQueue # <<>>,
           mainQueue' = Tail(mainQueue), NEW c \in Control
    PROVE  /\ mainQueue' \in Seq(Block)
           /\ \A i \in Nat \ {0} : i \in Waiting(c)' <=> i + 1 \in Waiting(c)
           /\ Waiting(c)' \subseteq Nat \ {0}
  BY DEF Waiting

\* Running the oldest block of another control keeps c's blocks, in number too.
LEMMA WaitingTailOther ==
    ASSUME mainQueue \in Seq(Block), mainQueue # <<>>,
           mainQueue' = Tail(mainQueue), NEW c \in Control,
           Head(mainQueue).of # c
    PROVE  /\ Waiting(c)' # {} <=> Waiting(c) # {}
           /\ (\A i, j \in Waiting(c) : i = j) => (\A i, j \in Waiting(c)' : i = j)
  <1>1. 1 \notin Waiting(c)
    BY WaitingHead
  <1>2. ASSUME NEW i \in Waiting(c)
        PROVE  i \in Nat /\ i - 1 \in Waiting(c)'
    <2>1. i \in 1..Len(mainQueue) /\ Len(mainQueue) \in Nat /\ i # 1
      BY <1>1, WaitingHead
    <2>2. i - 1 \in Nat \ {0} /\ (i - 1) + 1 = i
      BY <2>1
    <2>3. QED
      BY <2>1, <2>2, WaitingTail
  <1>3. \A i \in Waiting(c)' : i \in Nat /\ i + 1 \in Waiting(c)
    BY WaitingTail
  <1>4. QED
    BY <1>2, <1>3

\* Running the only block of c leaves none.
LEMMA WaitingTailOnly ==
    ASSUME mainQueue \in Seq(Block), mainQueue # <<>>,
           mainQueue' = Tail(mainQueue), NEW c \in Control,
           Head(mainQueue).of = c, \A i, j \in Waiting(c) : i = j
    PROVE  Waiting(c)' = {}
  <1>1. 1 \in Waiting(c)
    BY WaitingHead
  <1>2. \A i \in Waiting(c)' : i \in Nat \ {0} /\ i + 1 \in Waiting(c)
    BY WaitingTail
  <1>3. QED
    BY <1>1, <1>2

(***************************************************************************)
(* Type correctness                                                        *)
(***************************************************************************)

\* The model's variables keep their types, whatever Step, MaxPulls, Patient and
\* Faults are: in particular refreshes only ever ask for page 0 and load-mores
\* never do (HotViewModel.startIndex).
THEOREM TypeCorrect == Spec => []TypeOK
  <1>1. Init => TypeOK
    BY DEF Init, TypeOK, None, Earlier, Request, Control, ControlState
  <1>2. TypeOK /\ [Next]_vars => TypeOK'
    <2> SUFFICES ASSUME TypeOK, [Next]_vars
                 PROVE  TypeOK'
      OBVIOUS
    <2> USE DEF TypeOK, Control, ControlState, Block, Do, feed, controls
    <2>1. ASSUME NEW c \in Control, Drag(c)
          PROVE  TypeOK'
      BY <2>1 DEF Drag
    <2>2. ASSUME NEW c \in Control, DragBack(c)
          PROVE  TypeOK'
      BY <2>2 DEF DragBack
    <2>3. CASE BeginHeader
      BY <2>3 DEF BeginHeader
    <2>4. CASE BeginFooter
      BY <2>4 DEF BeginFooter
    <2>5. CASE RunAnimate
      BY <2>5 DEF RunAnimate
    <2>6. ASSUME NEW c \in Control, AnimationEnds(c)
          PROVE  TypeOK'
      BY <2>6 DEF AnimationEnds
    <2>7. ASSUME NEW c \in Control, RunEnd(c)
          PROVE  TypeOK'
      BY <2>7 DEF RunEnd
    <2>8. CASE RunRefresh
      <3>0. Tail(mainQueue) \in Seq(Block) /\ Do("end", "header") \in Block
        BY <2>8 DEF RunRefresh
      <3>1. /\ mainQueue' \in Seq(Block)
            /\ sections' \in Seq(Request)
        <4>1. CASE cache = None
          BY <2>8, <3>0, <4>1 DEF RunRefresh
        <4>2. CASE cache # None
          <5>1. /\ mainQueue' = Append(Tail(mainQueue), Do("end", "header"))
                /\ sections' = <<cache>>
            BY <2>8, <4>2 DEF RunRefresh, Ended, RefreshedSections
          <5>2. mainQueue' \in Seq(Block)
            BY <3>0, <5>1, AppendProperties
          <5>3. QED
            BY <5>1, <5>2
        <4>3. QED
          BY <4>1, <4>2
      <3>2. /\ refreshes' \subseteq [id : 2..issued', start : {0}]
            /\ issued' \in Nat \ {0}
        BY <2>8 DEF RunRefresh
      <3>3. more' \in [id : 2..issued', start : Nat \ {0}] \cup {None}
        BY <2>8 DEF RunRefresh
      <3>4. QED
        BY <2>8, <3>1, <3>2, <3>3 DEF RunRefresh
    <2>9. CASE RunMore
      BY <2>9, StepAssumption DEF RunMore, MoreStart
    <2>10. ASSUME NEW r \in refreshes, RefreshSucceeds(r)
           PROVE  TypeOK'
      BY <2>10 DEF RefreshSucceeds, Ended, RefreshedSections, StoredPage, Request
    <2>11. ASSUME NEW r \in refreshes, RefreshFails(r)
           PROVE  TypeOK'
      BY <2>11 DEF RefreshFails, Ended, FailedSections, RefreshedSections, None, Request
    <2>12. CASE MoreSucceeds
      BY <2>12 DEF MoreSucceeds, Ended, ExtendedSections, None, Request
    <2>13. CASE MoreFails
      BY <2>13 DEF MoreFails, Ended, ExtendedSections, None, Request
    <2>14. CASE UNCHANGED vars
      BY <2>14 DEF vars
    <2>15. QED
      BY <2>1, <2>2, <2>3, <2>4, <2>5, <2>6, <2>7, <2>8, <2>9, <2>10, <2>11,
         <2>12, <2>13, <2>14
         DEF Next, User, Draw, ReleaseHeader, ReleaseFooter, RunBlock,
             RefreshAnswered, MoreAnswered
  <1>3. QED
    BY <1>1, <1>2, PTL DEF Spec

(***************************************************************************)
(* The spinner of the header                                               *)
(***************************************************************************)

\* The header never spins for nothing (HotChildViewController.bindViewModel with
\* trackState): each way out of a cause posts the next one, up to the block that
\* sets the header to Idle.
THEOREM SpinnerAlwaysHasCause == Spec => []SpinnerHasCause
  <1>1. Init => SpinnerHasCause
    BY DEF Init, SpinnerHasCause, Control
  <1>2. TypeOK /\ SpinnerHasCause /\ [Next]_vars => SpinnerHasCause'
    <2> SUFFICES ASSUME TypeOK, SpinnerHasCause, [Next]_vars
                 PROVE  SpinnerHasCause'
      OBVIOUS
    <2> USE DEF SpinnerHasCause, feed, controls
    <2>types. /\ mainQueue \in Seq(Block)
              /\ "header" \in Control /\ "footer" \in Control
              /\ \A c \in Control : /\ Do("end", c) \in Block
                                   /\ Do("fire", c) \in Block
                                   /\ Do("animate", c) \in Block
      BY DEF TypeOK, Control, Block, Do
    <2>still. ASSUME mainQueue' = mainQueue
          PROVE  Waiting("header")' = Waiting("header")
      BY <2>still DEF Waiting
    <2>1. ASSUME NEW c \in Control, Drag(c)
          PROVE  SpinnerHasCause'
      BY <2>1, <2>still DEF Drag, TypeOK, Control
    <2>2. ASSUME NEW c \in Control, DragBack(c)
          PROVE  SpinnerHasCause'
      BY <2>2, <2>still DEF DragBack, TypeOK, Control
    <2>3. CASE BeginHeader
      <3>1. Waiting("header")' # {}
        BY <2>3, <2>types, WaitingAppend DEF BeginHeader, Do
      <3>2. QED
        BY <3>1
    <2>4. CASE BeginFooter
      BY <2>4, <2>still DEF BeginFooter, TypeOK, Control
    <2>5. CASE RunAnimate
      <3>1. animating["header"]' > 0
        BY <2>5, <2>types DEF RunAnimate, TypeOK
      <3>2. QED
        BY <3>1
    <2>6. ASSUME NEW c \in Control, AnimationEnds(c)
          PROVE  SpinnerHasCause'
      <3>1. CASE c = "header"
        <4>1. Waiting("header")' # {}
          BY <2>6, <3>1, <2>types, WaitingAppend DEF AnimationEnds, Do
        <4>2. QED
          BY <4>1
      <3>2. CASE c # "header"
        <4>1. Waiting("header") \subseteq Waiting("header")'
          BY <2>6, <2>types, WaitingAppend DEF AnimationEnds
        <4>2. animating["header"]' = animating["header"]
          BY <2>6, <3>2, <2>types DEF AnimationEnds, TypeOK
        <4>3. QED
          BY <2>6, <4>1, <4>2 DEF AnimationEnds
      <3>3. QED
        BY <3>1, <3>2
    <2>7. ASSUME NEW c \in Control, RunEnd(c)
          PROVE  SpinnerHasCause'
      <3>1. CASE c = "header"
        <4>1. state["header"]' = "Idle"
          BY <2>7, <3>1, <2>types DEF RunEnd, TypeOK
        <4>2. QED
          BY <4>1
      <3>2. CASE c # "header"
        <4>1. Waiting("header")' # {} <=> Waiting("header") # {}
          BY <2>7, <3>2, <2>types, WaitingTailOther DEF RunEnd, Do
        <4>2. state["header"]' = state["header"]
          BY <2>7, <3>2, <2>types DEF RunEnd, TypeOK
        <4>3. QED
          BY <2>7, <4>1, <4>2 DEF RunEnd
      <3>3. QED
        BY <3>1, <3>2
    <2>8. CASE RunRefresh
      BY <2>8 DEF RunRefresh
    <2>9. CASE RunMore
      <3>1. Waiting("header")' # {} <=> Waiting("header") # {}
        BY <2>9, <2>types, WaitingTailOther DEF RunMore, Do
      <3>2. QED
        BY <2>9, <3>1 DEF RunMore
    <2>10. ASSUME NEW r \in refreshes, RefreshSucceeds(r) \/ RefreshFails(r)
           PROVE  SpinnerHasCause'
      <3>1. Waiting("header")' # {}
        BY <2>10, <2>types, WaitingAppend DEF RefreshSucceeds, RefreshFails, Ended, Do
      <3>2. QED
        BY <3>1
    <2>11. CASE MoreSucceeds \/ MoreFails
      <3>1. Waiting("header") \subseteq Waiting("header")'
        BY <2>11, <2>types, WaitingAppend DEF MoreSucceeds, MoreFails, Ended
      <3>2. QED
        BY <2>11, <3>1 DEF MoreSucceeds, MoreFails
    <2>12. CASE UNCHANGED vars
      BY <2>12, <2>still DEF vars
    <2>13. QED
      BY <2>1, <2>2, <2>3, <2>4, <2>5, <2>6, <2>7, <2>8, <2>9, <2>10, <2>11, <2>12
         DEF Next, User, Draw, ReleaseHeader, ReleaseFooter, RunBlock,
             RefreshAnswered, MoreAnswered
  <1>3. QED
    BY <1>1, <1>2, TypeCorrect, PTL DEF Spec

(***************************************************************************)
(* Load-mores                                                              *)
(***************************************************************************)

\* At most one load-more is under way, exactly while the footer spins: the
\* footer's state guards the request (HotViewModel.transform's flatMapLatest
\* never has anything to cancel).
THEOREM LoadMoresExclude == Spec => []LoadMoreExclusive
  <1>1. Init => LoadMoreExclusive
    BY DEF Init, LoadMoreExclusive, Control, Waiting
  <1>2. TypeOK /\ LoadMoreExclusive /\ [Next]_vars => LoadMoreExclusive'
    <2> SUFFICES ASSUME TypeOK, LoadMoreExclusive, [Next]_vars
                 PROVE  LoadMoreExclusive'
      OBVIOUS
    <2> USE DEF LoadMoreExclusive, feed, controls
    <2>types. /\ mainQueue \in Seq(Block)
              /\ "header" \in Control /\ "footer" \in Control
              /\ \A c \in Control : /\ Do("end", c) \in Block
                                   /\ Do("fire", c) \in Block
                                   /\ Do("animate", c) \in Block
              /\ state \in [Control -> ControlState]
              /\ animating \in [Control -> Nat]
      BY DEF TypeOK, Control, Block, Do
    <2>still. ASSUME mainQueue' = mainQueue
              PROVE  Waiting("footer")' = Waiting("footer")
      BY <2>still DEF Waiting
    <2>1. ASSUME NEW c \in Control, Drag(c)
          PROVE  LoadMoreExclusive'
      BY <2>1, <2>still, <2>types DEF Drag, CanPull
    <2>2. ASSUME NEW c \in Control, DragBack(c)
          PROVE  LoadMoreExclusive'
      BY <2>2, <2>still, <2>types DEF DragBack
    <2>3. CASE BeginHeader
      <3>1. Waiting("footer")' = Waiting("footer")
        BY <2>3, <2>types, WaitingAppend DEF BeginHeader, Do
      <3>2. QED
        BY <2>3, <3>1, <2>types DEF BeginHeader
    <2>4. CASE ReleaseFooter
      <3>1. Waiting("footer") = {} /\ animating["footer"] = 0 /\ more = None
        BY <2>4, <2>types DEF ReleaseFooter
      <3>2. QED
        BY <2>4, <3>1, <2>still, <2>types DEF ReleaseFooter, BeginFooter
    <2>5. CASE RunAnimate
      <3>1. /\ Waiting("footer")' # {} <=> Waiting("footer") # {}
            /\ \A i, j \in Waiting("footer")' : i = j
        BY <2>5, <2>types, WaitingTailOther DEF RunAnimate, Do
      <3>2. QED
        BY <2>5, <3>1, <2>types DEF RunAnimate
    <2>6. ASSUME NEW c \in Control, AnimationEnds(c)
          PROVE  LoadMoreExclusive'
      <3>1. CASE c = "footer"
        <4>1. animating["footer"] = 1 /\ Waiting("footer") = {} /\ more = None
          BY <2>6, <3>1, <2>types DEF AnimationEnds
        <4>2. Waiting("footer")' = {Len(mainQueue) + 1}
          BY <2>6, <3>1, <4>1, <2>types, WaitingAppend DEF AnimationEnds, Do
        <4>3. /\ animating["footer"]' = 0
              /\ UNCHANGED <<state, more>>
          BY <2>6, <3>1, <4>1, <2>types DEF AnimationEnds
        <4>4. state["footer"] = "Refreshing"
          BY <4>1
        <4>5. \A i, j \in Waiting("footer")' : i = j
          BY <4>2
        <4>6. QED
          BY <4>1, <4>2, <4>3, <4>4, <4>5
      <3>2. CASE c # "footer"
        <4>1. Waiting("footer")' = Waiting("footer")
          BY <2>6, <3>2, <2>types, WaitingAppend DEF AnimationEnds, Do
        <4>2. QED
          BY <2>6, <3>2, <4>1, <2>types DEF AnimationEnds
      <3>3. QED
        BY <3>1, <3>2
    <2>7. ASSUME NEW c \in Control, RunEnd(c)
          PROVE  LoadMoreExclusive'
      <3>1. CASE c = "footer"
        <4>1. Waiting("footer") # {}
          BY <2>7, <3>1, <2>types, WaitingHead DEF RunEnd, Do
        <4>2. Waiting("footer")' = {}
          BY <2>7, <3>1, <2>types, WaitingTailOnly DEF RunEnd, Do
        <4>3. QED
          BY <2>7, <3>1, <4>1, <4>2, <2>types DEF RunEnd
      <3>2. CASE c # "footer"
        <4>1. /\ Waiting("footer")' # {} <=> Waiting("footer") # {}
              /\ \A i, j \in Waiting("footer")' : i = j
          BY <2>7, <3>2, <2>types, WaitingTailOther DEF RunEnd, Do
        <4>2. QED
          BY <2>7, <3>2, <4>1, <2>types DEF RunEnd
      <3>3. QED
        BY <3>1, <3>2
    <2>8. CASE RunRefresh
      <3>1. /\ Waiting("footer")' # {} <=> Waiting("footer") # {}
            /\ \A i, j \in Waiting("footer")' : i = j
        <4>1. CASE cache = None
          <5>1. /\ mainQueue # <<>>
                /\ mainQueue' = Tail(mainQueue)
                /\ Head(mainQueue).of # "footer"
            BY <2>8, <4>1 DEF RunRefresh, Do
          <5>2. QED
            BY <5>1, <2>types, WaitingTailOther
        <4>2. CASE cache # None
          <5> DEFINE rest == Tail(mainQueue)
          <5>1. mainQueue' = Append(rest, Do("end", "header")) /\ rest \in Seq(Block)
            BY <2>8, <4>2, <2>types DEF RunRefresh, Ended
          <5>2. \A i \in Waiting("footer")' : i \in Nat \ {0} /\ i + 1 \in Waiting("footer")
            BY <5>1, <2>types, <2>8 DEF Waiting, RunRefresh, Do
          <5>3. 1 \notin Waiting("footer")
            BY <2>8, <2>types, WaitingHead DEF RunRefresh, Do
          <5>4. ASSUME NEW i \in Waiting("footer")
                PROVE  i \in Nat /\ i - 1 \in Waiting("footer")'
            <6>1. i \in 2..Len(mainQueue)
              BY <5>3, <2>types, WaitingHead
            <6>2. i - 1 \in 1..Len(rest) /\ rest[i - 1] = mainQueue[i]
              BY <6>1, <2>types, HeadTailProperties, <2>8 DEF RunRefresh
            <6>3. QED
              BY <5>1, <6>1, <6>2 DEF Waiting
          <5>5. QED
            BY <5>2, <5>4
        <4>3. QED
          BY <4>1, <4>2
      <3>2. QED
        BY <2>8, <3>1, <2>types DEF RunRefresh
    <2>9. CASE RunMore
      <3>1. Waiting("footer") # {} /\ Waiting("footer")' = {}
        BY <2>9, <2>types, WaitingHead, WaitingTailOnly DEF RunMore, Do
      <3>2. more' # None
        BY <2>9 DEF RunMore, None, TypeOK
      <3>3. QED
        BY <2>9, <3>1, <3>2, <2>types DEF RunMore
    <2>10. ASSUME NEW r \in refreshes, RefreshSucceeds(r) \/ RefreshFails(r)
           PROVE  LoadMoreExclusive'
      <3>1. Waiting("footer")' = Waiting("footer")
        BY <2>10, <2>types, WaitingAppend DEF RefreshSucceeds, RefreshFails, Ended, Do
      <3>2. QED
        BY <2>10, <3>1, <2>types DEF RefreshSucceeds, RefreshFails
    <2>11. CASE MoreSucceeds \/ MoreFails
      <3>1. Waiting("footer") = {} /\ animating["footer"] = 0
        BY <2>11, <2>types DEF MoreSucceeds, MoreFails
      <3>2. Waiting("footer")' = {Len(mainQueue) + 1}
        BY <2>11, <3>1, <2>types, WaitingAppend DEF MoreSucceeds, MoreFails, Ended, Do
      <3>3. QED
        BY <2>11, <3>1, <3>2, <2>types DEF MoreSucceeds, MoreFails
    <2>12. CASE UNCHANGED vars
      BY <2>12, <2>still DEF vars
    <2>13. QED
      BY <2>1, <2>2, <2>3, <2>4, <2>5, <2>6, <2>7, <2>8, <2>9, <2>10, <2>11, <2>12
         DEF Next, User, Draw, ReleaseHeader, RunBlock,
             RefreshAnswered, MoreAnswered
  <1>3. QED
    BY <1>1, <1>2, TypeCorrect, PTL DEF Spec

(***************************************************************************)
(* The cached page                                                         *)
(***************************************************************************)

\* The first page on the screen is the stored one, whatever the order of answers
\* (Network+Rx.requestWithResult stores before it delivers).
THEOREM TopAlwaysCached == Spec => []TopIsCached
  <1>1. Init => TopIsCached
    BY DEF Init, TopIsCached
  <1>2. TypeOK /\ TopIsCached /\ [Next]_vars => TopIsCached'
    <2> SUFFICES ASSUME TypeOK, TopIsCached, [Next]_vars, "storage" \notin Faults
                 PROVE  TopIsCached'
      BY DEF TopIsCached
    <2> USE DEF TopIsCached, feed, controls
    <2>1. CASE UNCHANGED <<sections, cache>>
      BY <2>1
    <2>2. CASE RunRefresh
      BY <2>2 DEF RunRefresh, RefreshedSections
    <2>3. ASSUME NEW r \in refreshes, RefreshSucceeds(r)
          PROVE  TopIsCached'
      BY <2>3 DEF RefreshSucceeds, RefreshedSections, StoreOutcomes, StoredPage
    <2>4. ASSUME NEW r \in refreshes, RefreshFails(r)
          PROVE  TopIsCached'
      BY <2>4 DEF RefreshFails, FailedSections, RefreshedSections
    <2>5. ASSUME NEW p \in Request, sections' = Append(sections, p),
                 p = None \/ p.start # 0, cache' = cache
          PROVE  TopIsCached'
      <3>1. sections = <<>> => sections'[1] = p
        BY <2>5
      <3>2. sections # <<>> => sections'[1] = sections[1]
        BY <2>5 DEF TypeOK
      <3>3. QED
        BY <2>5, <3>1, <3>2
    <2>6. CASE MoreSucceeds
      BY <2>5, <2>6 DEF MoreSucceeds, ExtendedSections, TypeOK, Request
    <2>7. CASE MoreFails
      BY <2>5, <2>7 DEF MoreFails, ExtendedSections, None, Request
    <2>8. QED
      BY <2>1, <2>2, <2>3, <2>4, <2>6, <2>7
         DEF Next, User, Draw, Drag, DragBack, ReleaseHeader, ReleaseFooter,
             BeginHeader, BeginFooter, AnimationEnds, RunBlock, RunAnimate,
             RunMore, RunEnd, RefreshAnswered, MoreAnswered, vars
  <1>3. QED
    BY <1>1, <1>2, TypeCorrect, PTL DEF Spec

(***************************************************************************)
(* The paged list                                                          *)
(*                                                                         *)
(* A user who waits and a service that answers leave one thing under way   *)
(* at a time.  What the feed is doing is then one of the cases below, each *)
(* with what the queue, the animations, the requests and the list look     *)
(* like in it; a gesture finds the feed at rest.                           *)
(***************************************************************************)

NoRequest == refreshes = {} /\ more = None
Animations(h, f) == animating["header"] = h /\ animating["footer"] = f
PagesUpTo(n) == cache.id <= n /\ \A i \in DOMAIN sections : sections[i].id <= n

\* The header waits to be drawn: nothing has been asked for.
Undrawn ==
    /\ state["header"] = "WillRefresh"
    /\ mainQueue = <<>> /\ NoRequest /\ Animations(0, 0)
    /\ sections = <<>> /\ startIndex = 0 /\ pulls = 0 /\ issued = 1

\* Answered, but for the ends of the controls.
AtRest ==
    /\ mainQueue \in {<<>>, <<Do("end", "header")>>, <<Do("end", "footer")>>,
                      <<Do("end", "header"), Do("end", "header")>>}
    /\ NoRequest /\ Animations(0, 0)
    /\ sections # <<>> /\ issued = pulls + 1

\* The header is on its way to its callback.
HeaderTurn ==
    /\ NoRequest /\ issued = pulls
    /\ \/ mainQueue = <<Do("animate", "header")>> /\ Animations(0, 0)
       \/ mainQueue = <<>> /\ Animations(1, 0)
       \/ mainQueue = <<Do("fire", "header")>> /\ Animations(0, 0)

\* The footer is.
FooterTurn ==
    /\ NoRequest /\ issued = pulls
    /\ sections # <<>>
    /\ \/ mainQueue = <<>> /\ Animations(0, 1)
       \/ mainQueue = <<Do("fire", "footer")>> /\ Animations(0, 0)

\* The first page is being fetched; the cached one has been shown if there was one.
FetchingFirst ==
    /\ refreshes = {[id |-> issued, start |-> 0]} /\ more = None
    /\ mainQueue \in {<<>>, <<Do("end", "header")>>} /\ Animations(0, 0)
    /\ startIndex = 0 /\ issued = pulls + 1
    /\ PagesUpTo(issued - 1)

\* The next page is.
FetchingNext ==
    /\ refreshes = {} /\ more = [id |-> issued, start |-> Step * Len(sections)]
    /\ mainQueue = <<>> /\ Animations(0, 0)
    /\ sections # <<>> /\ startIndex = more.start /\ issued = pulls + 1
    /\ PagesUpTo(issued - 1)

OneThing ==
    /\ pulls <= MaxPulls + 1
    /\ state["header"] = "WillRefresh" => Undrawn
    /\ Undrawn \/ AtRest \/ HeaderTurn \/ FooterTurn \/ FetchingFirst \/ FetchingNext

\* The list begins with the cached page, and the index is where its last page starts.
ListOk ==
    /\ PagesUpTo(issued) /\ cache.start = 0
    /\ sections # <<>> => cache # None /\ sections[1] = cache
    /\ sections # <<>> /\ more = None => Step * Len(sections) = startIndex + Step

PatientInv == OneThing /\ ListOk

\* Nothing but a gesture's Pulling or Idle: the feed goes on as it was.
LEMMA OnlyStateChanges ==
    ASSUME PatientInv, UNCHANGED <<mainQueue, animating, pulls, feed>>,
           state'["header"] = "WillRefresh" <=> state["header"] = "WillRefresh"
    PROVE  PatientInv'
  BY DEF PatientInv, OneThing, ListOk, PagesUpTo, Undrawn, AtRest, HeaderTurn, FooterTurn,
         FetchingFirst, FetchingNext, NoRequest, Animations, feed

\* A patient user touches a feed at rest.
LEMMA TouchedAtRest ==
    ASSUME Patient, TypeOK, PatientInv, MayTouch
    PROVE  AtRest /\ mainQueue = <<>>
  <1>1. Quiet /\ state["header"] # "WillRefresh"
    BY DEF MayTouch
  <1>2. /\ mainQueue = <<>> /\ refreshes = {} /\ more = None
        /\ Animations(0, 0)
    BY <1>1 DEF Quiet, Animations, Control
  <1>3. ~HeaderTurn /\ ~FooterTurn
    BY <1>2, SMT DEF HeaderTurn, FooterTurn, Animations, Do
  <1>6. ~FetchingFirst /\ ~Undrawn
    BY <1>1, <1>2 DEF FetchingFirst, Undrawn
  <1>4. ~FetchingNext
    BY <1>2 DEF FetchingNext, TypeOK, None
  <1>5. QED
    BY <1>1, <1>2, <1>3, <1>4, <1>6 DEF PatientInv, OneThing

\* Each step keeps the invariant and is a step of the paged list, or leaves it alone.
LEMMA PatientStep ==
    ASSUME Patient, Faults = {}, TypeOK, PatientInv, [Next]_vars
    PROVE  PatientInv' /\ [Paged!Next]_sections
  <1> USE DEF feed, controls
  <1>types. /\ mainQueue \in Seq(Block) /\ sections \in Seq(Request)
            /\ cache \in Request /\ startIndex \in Nat /\ pulls \in Nat /\ issued \in Nat
            /\ state \in [Control -> ControlState] /\ animating \in [Control -> Nat]
            /\ "header" \in Control /\ "footer" \in Control /\ Step \in Nat
    BY StepAssumption DEF TypeOK, Control
  <1>pages. /\ cache.id \in Nat /\ DOMAIN sections = 1..Len(sections) /\ Len(sections) \in Nat
            /\ \A i \in DOMAIN sections : sections[i] \in Request /\ sections[i].id \in Nat
    <2>1. \A x \in Request : x.id \in Nat
      BY DEF Request
    <2>2. DOMAIN sections = 1..Len(sections) /\ Len(sections) \in Nat
      BY <1>types
    <2>3. \A i \in DOMAIN sections : sections[i] \in Request
      BY <1>types
    <2>4. QED
      BY <2>1, <2>2, <2>3, <1>types
  <1>1. ASSUME NEW c \in Control, Drag(c)
        PROVE  PatientInv' /\ [Paged!Next]_sections
    <2>1. UNCHANGED <<mainQueue, animating, pulls, feed>>
      BY <1>1 DEF Drag
    <2>2. state["header"] # "WillRefresh" /\ state'["header"] # "WillRefresh"
      BY <1>1, <1>types DEF Drag, MayTouch
    <2>3. QED
      BY <2>1, <2>2, OnlyStateChanges
  <1>2. ASSUME NEW c \in Control, DragBack(c)
        PROVE  PatientInv' /\ [Paged!Next]_sections
    <2>1. UNCHANGED <<mainQueue, animating, pulls, feed>>
      BY <1>2 DEF DragBack
    <2>2. state'["header"] = "WillRefresh" <=> state["header"] = "WillRefresh"
      BY <1>2, <1>types DEF DragBack
    <2>3. QED
      BY <2>1, <2>2, OnlyStateChanges
  <1>3. CASE ReleaseHeader
    <2>1. AtRest /\ mainQueue = <<>>
      BY <1>3, TouchedAtRest DEF ReleaseHeader
    <2>2. UNCHANGED <<animating, feed>> /\ pulls' = pulls + 1 /\ pulls < MaxPulls
      BY <1>3 DEF ReleaseHeader, BeginHeader
    <2>3. mainQueue' = <<Do("animate", "header")>>
      BY <1>3, <2>1 DEF ReleaseHeader, BeginHeader
    <2>4. HeaderTurn'
      BY <2>1, <2>2, <2>3 DEF AtRest, HeaderTurn, NoRequest, Animations
    <2>5. state'["header"] # "WillRefresh"
      BY <1>3, <1>types DEF ReleaseHeader, BeginHeader
    <2>6. pulls' <= MaxPulls + 1
      BY <2>2, <1>types, MaxPullsAssumption
    <2>7. ListOk'
      BY <2>2 DEF PatientInv, ListOk, PagesUpTo
    <2>8. QED
      BY <2>2, <2>4, <2>5, <2>6, <2>7 DEF PatientInv, OneThing
  <1>4. CASE ReleaseFooter
    <2>1. AtRest /\ mainQueue = <<>>
      BY <1>4, TouchedAtRest DEF ReleaseFooter
    <2>2. UNCHANGED <<mainQueue, feed>> /\ pulls' = pulls + 1 /\ pulls < MaxPulls
      BY <1>4 DEF ReleaseFooter, BeginFooter
    <2>3. Animations(0, 1)'
      BY <1>4, <2>1, <1>types DEF ReleaseFooter, BeginFooter, AtRest, Animations
    <2>4. FooterTurn'
      BY <2>1, <2>2, <2>3 DEF AtRest, FooterTurn, NoRequest
    <2>5. state'["header"] # "WillRefresh"
      BY <1>4, <1>types DEF ReleaseFooter, BeginFooter, MayTouch
    <2>6. pulls' <= MaxPulls + 1
      BY <2>2, <1>types, MaxPullsAssumption
    <2>7. ListOk'
      BY <2>2 DEF PatientInv, ListOk, PagesUpTo
    <2>8. QED
      BY <2>2, <2>4, <2>5, <2>6, <2>7 DEF PatientInv, OneThing
  <1>5. CASE Draw
    <2>1. Undrawn
      BY <1>5 DEF Draw, PatientInv, OneThing
    <2>2. UNCHANGED <<animating, feed>> /\ pulls' = pulls + 1
      BY <1>5 DEF Draw, BeginHeader
    <2>3. mainQueue' = <<Do("animate", "header")>>
      BY <1>5, <2>1 DEF Draw, BeginHeader, Undrawn
    <2>4. HeaderTurn'
      BY <2>1, <2>2, <2>3 DEF Undrawn, HeaderTurn, NoRequest, Animations
    <2>5. state'["header"] # "WillRefresh"
      BY <1>5, <1>types DEF Draw, BeginHeader
    <2>6. pulls' <= MaxPulls + 1
      BY <2>1, <2>2, <1>types, MaxPullsAssumption DEF Undrawn
    <2>7. ListOk'
      BY <2>2 DEF PatientInv, ListOk, PagesUpTo
    <2>8. QED
      BY <2>2, <2>4, <2>5, <2>6, <2>7 DEF PatientInv, OneThing
  <1>6. CASE RunAnimate
    <2>1. HeaderTurn /\ mainQueue = <<Do("animate", "header")>> /\ Animations(0, 0)
      BY <1>6, SMT DEF RunAnimate, PatientInv, OneThing, Undrawn, AtRest, HeaderTurn, FooterTurn,
         FetchingFirst, FetchingNext, Do
    <2>2. UNCHANGED <<state, pulls, feed>> /\ mainQueue' = <<>>
      BY <1>6, <2>1 DEF RunAnimate
    <2>3. Animations(1, 0)'
      BY <1>6, <2>1, <1>types DEF RunAnimate, Animations
    <2>4. HeaderTurn'
      BY <2>1, <2>2, <2>3 DEF HeaderTurn, NoRequest
    <2>5. state["header"] # "WillRefresh"
      BY <2>1 DEF PatientInv, OneThing, Undrawn
    <2>6. ListOk'
      BY <2>2 DEF PatientInv, ListOk, PagesUpTo
    <2>7. QED
      BY <2>2, <2>4, <2>5, <2>6 DEF PatientInv, OneThing
  <1>7. ASSUME NEW c \in Control, AnimationEnds(c)
        PROVE  PatientInv' /\ [Paged!Next]_sections
    <2>1. \/ c = "header" /\ HeaderTurn /\ Animations(1, 0)
          \/ c = "footer" /\ FooterTurn /\ Animations(0, 1)
      BY <1>7, SMT DEF AnimationEnds, PatientInv, OneThing, Undrawn, AtRest, HeaderTurn,
         FooterTurn, FetchingFirst, FetchingNext, Animations, Control
    <2>2. UNCHANGED <<state, pulls, feed>> /\ mainQueue = <<>>
      BY <1>7, <2>1 DEF AnimationEnds, HeaderTurn, FooterTurn, Animations
    <2>3. Animations(0, 0)' /\ mainQueue' = <<Do("fire", c)>>
      BY <1>7, <2>1, <2>2, <1>types DEF AnimationEnds, Animations
    <2>4. HeaderTurn' \/ FooterTurn'
      BY <2>1, <2>2, <2>3 DEF HeaderTurn, FooterTurn, NoRequest
    <2>5. state["header"] # "WillRefresh"
      BY <2>1 DEF PatientInv, OneThing, Undrawn, Animations
    <2>6. ListOk'
      BY <2>2 DEF PatientInv, ListOk, PagesUpTo
    <2>7. QED
      BY <2>2, <2>4, <2>5, <2>6 DEF PatientInv, OneThing
  <1>8. CASE RunRefresh
    <2>1. HeaderTurn /\ mainQueue = <<Do("fire", "header")>> /\ Animations(0, 0)
      BY <1>8, SMT DEF RunRefresh, PatientInv, OneThing, Undrawn, AtRest, HeaderTurn, FooterTurn,
         FetchingFirst, FetchingNext, Do
    <2>2. /\ UNCHANGED <<state, animating, pulls, cache>> /\ more' = None
          /\ startIndex' = 0 /\ issued' = pulls' + 1 /\ issued' = issued + 1
          /\ refreshes' = {[id |-> issued', start |-> 0]}
      BY <1>8, <2>1 DEF RunRefresh, HeaderTurn, NoRequest
    <2>3. /\ mainQueue' \in {<<>>, <<Do("end", "header")>>}
          /\ \/ sections' = <<cache>> /\ cache # None
             \/ sections' = sections /\ sections = <<>>
      <3>1. CASE cache = None
        <4>1. mainQueue' = <<>> /\ sections' = sections
          BY <1>8, <2>1, <3>1 DEF RunRefresh
        <4>2. sections = <<>>
          BY <3>1 DEF PatientInv, ListOk
        <4>3. QED
          BY <4>1, <4>2
      <3>2. CASE cache # None
        BY <1>8, <2>1, <3>2 DEF RunRefresh, Ended, RefreshedSections
      <3>3. QED
        BY <3>1, <3>2
    <2>4. cache.id <= issued /\ issued' - 1 = issued /\ cache'.id <= issued
      BY <2>2, <1>types DEF PatientInv, ListOk, PagesUpTo
    <2>5. PagesUpTo(issued - 1)'
      BY <2>2, <2>3, <2>4 DEF PagesUpTo
    <2>6. FetchingFirst'
      BY <2>1, <2>2, <2>3, <2>5 DEF FetchingFirst, Animations
    <2>7. PagesUpTo(issued)'
      BY <2>2, <2>3, <2>4, <1>types DEF PagesUpTo, Request
    <2>8. Step * 1 = 0 + Step
      BY <1>types
    <2>9. ListOk'
      <3>1. sections' = <<cache>> => sections'[1] = cache /\ Len(sections') = 1
        OBVIOUS
      <3>2. cache.start = 0
        BY DEF PatientInv, ListOk
      <3>3. sections' # <<>> => Step * Len(sections') = startIndex' + Step
        BY <2>2, <2>3, <2>8, <3>1
      <3>4. QED
        BY <2>2, <2>3, <2>7, <3>1, <3>2, <3>3 DEF ListOk
    <2>10. state["header"] # "WillRefresh"
      BY <2>1 DEF PatientInv, OneThing, Undrawn
    <2>11. [Paged!Next]_sections
      <3>1. CASE sections' = sections
        BY <3>1
      <3>2. CASE sections' = <<cache>> /\ cache # None
        <4>1. /\ cache.start = 0 /\ cache.id \in Nat /\ cache.id <= issued
              /\ issued = pulls /\ pulls <= MaxPulls + 1
              /\ sections # <<>> => sections[1] = cache
          BY <2>1, <1>types DEF PatientInv, OneThing, ListOk, PagesUpTo, HeaderTurn, Request
        <4>2. cache = [id |-> cache.id, start |-> 0]
          BY <4>1, <1>types DEF Request
        <4>3. cache.id \in 1..(MaxPulls + 2)
          BY <3>2, <4>1, <4>2, <1>types, MaxPullsAssumption DEF None
        <4>4. QED
          BY <3>2, <4>1, <4>2, <4>3 DEF Paged!Next, Paged!Refresh
      <3>3. QED
        BY <2>3, <3>1, <3>2
    <2>12. QED
      BY <2>2, <2>6, <2>9, <2>10, <2>11 DEF PatientInv, OneThing
  <1>9. CASE RunMore
    <2>1. FooterTurn /\ mainQueue = <<Do("fire", "footer")>> /\ Animations(0, 0)
      BY <1>9, SMT DEF RunMore, PatientInv, OneThing, Undrawn, AtRest, HeaderTurn, FooterTurn,
         FetchingFirst, FetchingNext, Do
    <2>2. /\ UNCHANGED <<state, animating, pulls, cache, sections, refreshes>>
          /\ mainQueue' = <<>> /\ issued' = issued + 1 /\ startIndex' = startIndex + Step
          /\ more' = [id |-> issued', start |-> startIndex']
      BY <1>9, <2>1 DEF RunMore, MoreStart
    <2>3. startIndex' = Step * Len(sections)
      BY <2>1, <2>2 DEF FooterTurn, NoRequest, PatientInv, ListOk
    <2>4. PagesUpTo(issued) /\ cache.start = 0 /\ (sections # <<>> => cache # None /\ sections[1] = cache)
      BY DEF PatientInv, ListOk
    <2>5. PagesUpTo(issued - 1)' /\ PagesUpTo(issued)'
      <3>1. issued' - 1 = issued /\ issued <= issued' /\ issued' \in Nat
        BY <2>2, <1>types
      <3>2. cache'.id <= issued /\ \A i \in DOMAIN sections' : sections'[i].id <= issued
        BY <2>2, <2>4 DEF PagesUpTo
      <3>3. cache'.id <= issued' /\ \A i \in DOMAIN sections' : sections'[i].id <= issued'
        BY <2>2, <3>1, <3>2, <1>pages, <1>types
      <3>4. QED
        BY <3>1, <3>2, <3>3 DEF PagesUpTo
    <2>6. FetchingNext'
      BY <2>1, <2>2, <2>3, <2>5 DEF FetchingNext, FooterTurn, NoRequest, Animations
    <2>7. more' # None
      BY <2>2, <1>types DEF None
    <2>8. ListOk'
      BY <2>2, <2>4, <2>5, <2>7 DEF ListOk
    <2>9. state["header"] # "WillRefresh"
      BY <2>1 DEF PatientInv, OneThing, Undrawn
    <2>10. QED
      BY <2>2, <2>6, <2>8, <2>9 DEF PatientInv, OneThing
  <1>10. ASSUME NEW r \in refreshes, RefreshSucceeds(r)
         PROVE  PatientInv' /\ [Paged!Next]_sections
    <2>1. FetchingFirst
      BY <1>10 DEF PatientInv, OneThing, Undrawn, AtRest, HeaderTurn, FooterTurn, FetchingNext,
         NoRequest
    <2>2. r = [id |-> issued, start |-> 0]
      BY <2>1 DEF FetchingFirst
    <2>3. /\ UNCHANGED <<state, animating, pulls, startIndex, more, issued>>
          /\ refreshes' = {} /\ cache' = r /\ sections' = <<r>>
          /\ mainQueue' = Append(mainQueue, Do("end", "header"))
      BY <1>10, <2>1, <2>2 DEF RefreshSucceeds, StoreOutcomes, StoredPage, RefreshedSections, Ended,
         FetchingFirst
    <2>4. mainQueue' \in {<<Do("end", "header")>>, <<Do("end", "header"), Do("end", "header")>>}
      <3>1. mainQueue = <<>> => mainQueue' = <<Do("end", "header")>>
        BY <2>3
      <3>2. mainQueue = <<Do("end", "header")>> =>
                mainQueue' = <<Do("end", "header"), Do("end", "header")>>
        <4>1. ASSUME NEW b \in Block, NEW q, q = Append(<<b>>, b)
              PROVE  q = <<b, b>>
          <5>1. <<b>> \in Seq(Block) /\ <<b, b>> \in Seq(Block) /\ Len(<<b>>) = 1
            OBVIOUS
          <5>2. q \in Seq(Block) /\ Len(q) = 2 /\ q[1] = b /\ q[2] = b
            BY <4>1, <5>1, AppendProperties
          <5>3. QED
            BY <5>1, <5>2
        <4>2. Do("end", "header") \in Block
          BY DEF Do, Block, Control
        <4>3. QED
          BY <2>3, <4>1, <4>2
      <3>3. QED
        BY <2>1, <3>1, <3>2 DEF FetchingFirst
    <2>5. AtRest'
      BY <2>1, <2>3, <2>4 DEF AtRest, FetchingFirst, NoRequest, Animations
    <2>6. Step * 1 = 0 + Step /\ issued # 0
      BY <1>types DEF TypeOK
    <2>7. sections'[1] = r /\ Len(sections') = 1 /\ DOMAIN sections' = {1}
      BY <2>3
    <2>8. PagesUpTo(issued)'
      BY <2>2, <2>3, <2>7, <1>types DEF PagesUpTo
    <2>9. ListOk'
      BY <2>1, <2>2, <2>3, <2>6, <2>7, <2>8 DEF ListOk, FetchingFirst, None
    <2>10. state["header"] # "WillRefresh"
      BY <2>1 DEF PatientInv, OneThing, Undrawn, FetchingFirst, NoRequest
    <2>11. [Paged!Next]_sections
      <3>1. issued \in 1..(MaxPulls + 2)
        BY <2>1, <2>6, <1>types, MaxPullsAssumption DEF PatientInv, OneThing, FetchingFirst
      <3>2. sections # <<>> => sections[1] \in Request /\ issued >= sections[1].id
        <4>1. PagesUpTo(issued)
          BY DEF PatientInv, ListOk
        <4>2. sections # <<>> => 1 \in DOMAIN sections /\ sections[1] \in Request
          BY <1>types
        <4>3. QED
          BY <4>1, <4>2, <1>types DEF PagesUpTo, Request
      <3>3. QED
        BY <2>2, <2>3, <3>1, <3>2 DEF Paged!Next, Paged!Refresh
    <2>12. QED
      BY <2>3, <2>5, <2>9, <2>10, <2>11 DEF PatientInv, OneThing
  <1>11. CASE MoreSucceeds
    <2>1. FetchingNext
      BY <1>11 DEF MoreSucceeds, PatientInv, OneThing, Undrawn, AtRest, HeaderTurn, FooterTurn,
         FetchingFirst, NoRequest
    <2>2. /\ UNCHANGED <<state, animating, pulls, cache, startIndex, refreshes, issued>>
          /\ more' = None /\ sections' = Append(sections, more)
          /\ mainQueue' = <<Do("end", "footer")>>
      BY <1>11, <2>1 DEF MoreSucceeds, ExtendedSections, Ended, FetchingNext
    <2>3. /\ more = [id |-> issued, start |-> Step * Len(sections)] /\ more \in Request
          /\ sections # <<>> /\ Len(sections) \in Nat /\ Len(sections) > 0
          /\ startIndex = Step * Len(sections) /\ PagesUpTo(issued - 1) /\ issued \in Nat
      BY <2>1, <1>types DEF FetchingNext, Request
    <2>4. /\ Len(sections') = Len(sections) + 1 /\ sections' # <<>>
          /\ \A i \in 1..Len(sections) : sections'[i] = sections[i]
          /\ sections'[Len(sections) + 1] = more
      BY <2>2, <2>3, <1>types
    <2>5. AtRest'
      BY <2>1, <2>2, <2>4 DEF AtRest, FetchingNext, NoRequest, Animations
    <2>6. PagesUpTo(issued)'
      <3>1. /\ cache.id \in Nat /\ cache.id <= issued - 1
            /\ \A i \in 1..Len(sections) : sections[i].id \in Nat /\ sections[i].id <= issued - 1
        BY <2>3, <1>pages DEF PagesUpTo
      <3>2. DOMAIN sections' = 1..(Len(sections) + 1)
        BY <2>2, <2>3, <2>4, <1>types
      <3>3. QED
        BY <2>2, <2>3, <2>4, <3>1, <3>2 DEF PagesUpTo
    <2>7. Step * Len(sections') = startIndex' + Step
      <3>1. \A s, n \in Nat : s * (n + 1) = s * n + s
        OBVIOUS
      <3>2. QED
        BY <2>2, <2>3, <2>4, <3>1, <1>types
    <2>8. ListOk'
      <3>1. cache.start = 0 /\ cache # None /\ sections[1] = cache
        BY <2>3 DEF PatientInv, ListOk
      <3>2. QED
        BY <2>2, <2>3, <2>4, <2>6, <2>7, <3>1 DEF ListOk
    <2>9. state["header"] # "WillRefresh"
      BY <2>1, <2>3 DEF PatientInv, OneThing, Undrawn
    <2>10. [Paged!Next]_sections
      <3>1. issued \in 1..(MaxPulls + 2)
        BY <2>1, <1>types, MaxPullsAssumption DEF PatientInv, OneThing, FetchingNext, TypeOK
      <3>2. issued > sections[Len(sections)].id
        <4>1. Len(sections) \in DOMAIN sections
          BY <2>3, <1>pages
        <4>2. sections[Len(sections)].id \in Nat /\ sections[Len(sections)].id <= issued - 1
          BY <2>3, <4>1, <1>pages DEF PagesUpTo
        <4>3. QED
          BY <2>3, <4>2
      <3>3. QED
        BY <2>2, <2>3, <3>1, <3>2 DEF Paged!Next, Paged!LoadMore
    <2>11. QED
      BY <2>2, <2>5, <2>8, <2>9, <2>10 DEF PatientInv, OneThing
  <1>12. ASSUME NEW c \in Control, RunEnd(c)
         PROVE  PatientInv' /\ [Paged!Next]_sections
    <2>1. /\ UNCHANGED <<animating, pulls, feed>>
          /\ mainQueue # <<>> /\ Head(mainQueue) = Do("end", c) /\ mainQueue' = Tail(mainQueue)
          /\ state' = [state EXCEPT ![c] = "Idle"]
      BY <1>12 DEF RunEnd
    <2>2. AtRest \/ FetchingFirst
      BY <2>1, SMT DEF PatientInv, OneThing, Undrawn, HeaderTurn, FooterTurn, FetchingNext, Do
    <2>3. state'["header"] # "WillRefresh"
      BY <2>1, <2>2, <1>types DEF PatientInv, OneThing, Undrawn
    <2>4. ListOk'
      BY <2>1 DEF PatientInv, ListOk, PagesUpTo
    <2>5. CASE AtRest
      <3>1. mainQueue' \in {<<>>, <<Do("end", "header")>>}
        <4>1. CASE Len(mainQueue) = 1
          <5>1. mainQueue' = <<>>
            BY <2>1, <4>1, <1>types
          <5>2. QED
            BY <5>1
        <4>2. CASE mainQueue = <<Do("end", "header"), Do("end", "header")>>
          BY <2>1, <4>2
        <4>3. Len(mainQueue) = 1 \/ mainQueue = <<Do("end", "header"), Do("end", "header")>>
          BY <2>1, <2>5 DEF AtRest
        <4>4. QED
          BY <4>1, <4>2, <4>3
      <3>2. AtRest'
        BY <2>1, <2>5, <3>1 DEF AtRest, NoRequest, Animations
      <3>3. QED
        BY <2>1, <2>3, <2>4, <3>2 DEF PatientInv, OneThing
    <2>6. CASE FetchingFirst
      <3>1. mainQueue' = <<>>
        BY <2>1, <2>6 DEF FetchingFirst
      <3>2. FetchingFirst'
        BY <2>1, <2>6, <3>1 DEF FetchingFirst, PagesUpTo, Animations
      <3>3. QED
        BY <2>1, <2>3, <2>4, <3>2 DEF PatientInv, OneThing
    <2>7. QED
      BY <2>2, <2>5, <2>6
  <1>13. CASE UNCHANGED vars
    BY <1>13, OnlyStateChanges DEF vars
  <1>14. QED
    BY <1>1, <1>2, <1>3, <1>4, <1>5, <1>6, <1>7, <1>8, <1>9, <1>10, <1>11, <1>12, <1>13
       DEF Next, User, RunBlock, RefreshAnswered, MoreAnswered, RefreshFails, MoreFails

\* For a user who waits, a network that answers and a storage that stores, the table is
\* the paged list of PagedFeed, whatever the size of a page and however often the user
\* pulls (HotViewModel.transform): pages in order, none twice, none older than before.
THEOREM Refinement ==
    ASSUME Patient, Faults = {}
    PROVE  Spec => RefinesPagedFeed
  <1>1. Init => PatientInv /\ Paged!Init
    <2>1. ASSUME Init
          PROVE  Undrawn /\ ListOk /\ pulls <= MaxPulls + 1
      BY <2>1, MaxPullsAssumption
         DEF Init, Undrawn, ListOk, PagesUpTo, NoRequest, Animations, None, Earlier, Control
    <2>2. QED
      BY <2>1 DEF PatientInv, OneThing, Init, Paged!Init
  <1>2. TypeOK /\ PatientInv /\ [Next]_vars => PatientInv' /\ [Paged!Next]_sections
    BY PatientStep
  <1>3. QED
    BY <1>1, <1>2, TypeCorrect, PTL DEF Spec, RefinesPagedFeed, Paged!Spec
=============================================================================
