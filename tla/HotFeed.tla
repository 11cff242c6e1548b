------------------------------ MODULE HotFeed ------------------------------
(***************************************************************************)
(* One tab of the "Hot" screen: HotChildViewController, its                *)
(* HotMovieViewModel, the pull-to-refresh header and the load-more footer  *)
(* of its table (MJRefresh), the network requests they cause and the       *)
(* cached first page.                                                      *)
(*                                                                         *)
(* Everything here runs on the main thread.  What interleaves are the      *)
(* user's gestures, the ends of animations, the answers of the network and *)
(* the blocks the code posts with dispatch_async to the main queue, which  *)
(* run first in, first out.  An answer is one atomic main-thread step that *)
(* may come between any two blocks.                                        *)
(*                                                                         *)
(* A page of movies is identified by the request that fetched it: the rows *)
(* are abstracted away, their origin (which request, which start index) is *)
(* what the properties are about.                                          *)
(***************************************************************************)
EXTENDS Naturals, Sequences

CONSTANTS
    Step,      \* rows in a page: the 20 added to startIndex by a load-more
    MaxPulls,  \* bound on the refreshes and load-mores started in a behaviour
    Patient,   \* TRUE: the user waits for the feed to be quiet before a gesture
    Faults     \* what may fail: "network" (error, timeout, bad answer), "storage"

ASSUME StepAssumption == Step \in Nat \ {0}
ASSUME MaxPullsAssumption == MaxPulls \in Nat
ASSUME PatientAssumption == Patient \in BOOLEAN
ASSUME FaultsAssumption == Faults \subseteq {"network", "storage"}

VARIABLES
    state,       \* MJRefreshState of the header and of the footer
    animating,   \* number of "begin refreshing" animations running, per control
    mainQueue,   \* blocks posted to the main dispatch queue, oldest first
    startIndex,  \* HotMovieViewModel.startIndex
    sections,    \* HotMovieViewModel.sections: the pages the table shows
    cache,       \* the stored page 0 of this feed, None when there is none
    refreshes,   \* refresh requests sent and not answered (flatMap keeps all)
    more,        \* the load-more request subscribed to (flatMapLatest keeps one)
    pulls,       \* refreshes and load-mores begun so far (bounded by MaxPulls)
    issued       \* requests sent so far; numbers them

vars == <<state, animating, mainQueue, startIndex, sections, cache, refreshes,
          more, pulls, issued>>

feed == <<startIndex, sections, cache, refreshes, more, issued>>
controls == <<state, animating, pulls>>

Control == {"header", "footer"}
ControlState == {"Idle", "Pulling", "Refreshing", "WillRefresh"}
Block == [op : {"animate", "fire", "end"}, of : Control]
Request == [id : Nat, start : Nat]

\* No request, no cached page, and the empty section a failed request leaves.
None == [id |-> 0, start |-> 0]

\* The page 0 an earlier launch of the app fetched and stored on disk.
Earlier == [id |-> 1, start |-> 0]

(***************************************************************************)
(* Helpers.  Some are preceded by a mutated form, a bug the code could     *)
(* have had: the runs must notice when it takes the helper's place.        *)
(***************************************************************************)

Do(op, c) == [op |-> op, of |-> c]

\* Nothing is under way: no block, no animation, no request.
Quiet ==
    /\ mainQueue = <<>>
    /\ \A c \in Control : animating[c] = 0 /\ state[c] # "WillRefresh"
    /\ refreshes = {}
    /\ more = None

\* A view that is not drawn yet cannot be touched.
MayTouch ==
    /\ state["header"] # "WillRefresh"
    /\ Patient => Quiet

\* MJRefresh looks at a drag only while the control is not refreshing already.
CanPullAlways(c) == state[c] # "Pulling"
CanPull(c) == state[c] = "Idle"

\* Whether storing a decoded answer may fail; the error is dropped by try?.
StoreOutcomes == IF "storage" \in Faults THEN BOOLEAN ELSE {TRUE}

\* The cached page after page p was decoded and its storing attempted.
StoredOnMiss(p, stored) == IF stored /\ cache = None THEN p ELSE cache
StoredPage(p, stored) == IF stored THEN p ELSE cache

\* The sections after a refresh has delivered page p.
RefreshAppends(p) == Append(sections, p)
RefreshedSections(p) == <<p>>

\* The sections after a refresh has failed: catchErrorJustReturn([]).
ErrorCompletes == sections
FailedSections == RefreshedSections(None)

\* The sections after a load-more has delivered page p.
ExtendedSections(p) == Append(sections, p)

\* The start index of the next load-more.
MoreStartUnmoved == startIndex
MoreStart == startIndex + Step

\* trackState reports an element or an error; bindViewModel drives endRefreshing
\* with it, which posts a block to the main queue q.
StateNotBound(q, c) == q
Ended(q, c) == Append(q, Do("end", c))

(***************************************************************************)
(* viewDidLoad: the header is asked to refresh before it is in a window.   *)
(* The page 0 an earlier launch stored may be in the cache.                *)
(***************************************************************************)
Init ==
    /\ state = [c \in Control |-> IF c = "header" THEN "WillRefresh" ELSE "Idle"]
    /\ animating = [c \in Control |-> 0]
    /\ mainQueue = <<>>
    /\ startIndex = 0
    /\ sections = <<>>
    /\ cache \in {None, Earlier}
    /\ refreshes = {}
    /\ more = None
    /\ pulls = 0
    /\ issued = Earlier.id

(***************************************************************************)
(* The header and the footer                                               *)
(***************************************************************************)

\* The finger drags the table beyond the control, or back.
Drag(c) ==
    /\ CanPull(c)
    /\ MayTouch
    /\ state' = [state EXCEPT ![c] = "Pulling"]
    /\ UNCHANGED <<animating, mainQueue, pulls, feed>>

DragBack(c) ==
    /\ state[c] = "Pulling"
    /\ state' = [state EXCEPT ![c] = "Idle"]
    /\ UNCHANGED <<animating, mainQueue, pulls, feed>>

\* setState:Refreshing.  The header posts its animation, the footer starts it.
BeginHeader ==
    /\ state' = [state EXCEPT !["header"] = "Refreshing"]
    /\ mainQueue' = Append(mainQueue, Do("animate", "header"))
    /\ pulls' = pulls + 1
    /\ UNCHANGED <<animating, feed>>

BeginFooter ==
    /\ state' = [state EXCEPT !["footer"] = "Refreshing"]
    /\ animating' = [animating EXCEPT !["footer"] = @ + 1]
    /\ pulls' = pulls + 1
    /\ UNCHANGED <<mainQueue, feed>>

\* The finger lifts while a control is pulled out.
ReleaseHeader ==
    /\ state["header"] = "Pulling"
    /\ MayTouch
    /\ pulls < MaxPulls
    /\ BeginHeader

ReleaseFooter ==
    /\ state["footer"] = "Pulling"
    /\ MayTouch
    /\ pulls < MaxPulls
    /\ BeginFooter

\* drawRect: the header is drawn in a window for the first time.
Draw ==
    /\ state["header"] = "WillRefresh"
    /\ BeginHeader

\* The block of the header's setState starts the animation.
RunAnimate ==
    /\ mainQueue # <<>>
    /\ Head(mainQueue) = Do("animate", "header")
    /\ mainQueue' = Tail(mainQueue)
    /\ animating' = [animating EXCEPT !["header"] = @ + 1]
    /\ UNCHANGED <<state, pulls, feed>>

\* The animation's completion posts the refreshing callback.
AnimationEnds(c) ==
    /\ animating[c] > 0
    /\ animating' = [animating EXCEPT ![c] = @ - 1]
    /\ mainQueue' = Append(mainQueue, Do("fire", c))
    /\ UNCHANGED <<state, pulls, feed>>

\* The block posted by endRefreshing sets the control to Idle.
RunEnd(c) ==
    /\ mainQueue # <<>>
    /\ Head(mainQueue) = Do("end", c)
    /\ mainQueue' = Tail(mainQueue)
    /\ state' = [state EXCEPT ![c] = "Idle"]
    /\ UNCHANGED <<animating, pulls, feed>>

(***************************************************************************)
(* The view model                                                          *)
(***************************************************************************)

\* The header's callback: startIndex is reset, page 0 is requested and, when a
\* page 0 is cached, shown at once, which already ends the header's refreshing.
RunRefresh ==
    /\ mainQueue # <<>>
    /\ Head(mainQueue) = Do("fire", "header")
    /\ startIndex' = 0
    /\ issued' = issued + 1
    /\ refreshes' = refreshes \cup {[id |-> issued + 1, start |-> 0]}
    /\ IF cache = None
       THEN /\ mainQueue' = Tail(mainQueue)
            /\ UNCHANGED sections
       ELSE /\ mainQueue' = Ended(Tail(mainQueue), "header")
            /\ sections' = RefreshedSections(cache)
    /\ UNCHANGED <<cache, more, controls>>

\* The footer's callback: startIndex moves on by a page, the request for that
\* page replaces the one flatMapLatest was subscribed to.
RunMore ==
    /\ mainQueue # <<>>
    /\ Head(mainQueue) = Do("fire", "footer")
    /\ mainQueue' = Tail(mainQueue)
    /\ startIndex' = MoreStart
    /\ issued' = issued + 1
    /\ more' = [id |-> issued + 1, start |-> MoreStart]
    /\ UNCHANGED <<sections, cache, refreshes, controls>>

\* A refresh request is answered: stored, then shown as the only section.
RefreshSucceeds(r) ==
    /\ r \in refreshes
    /\ refreshes' = refreshes \ {r}
    /\ \E stored \in StoreOutcomes : cache' = StoredPage(r, stored)
    /\ sections' = RefreshedSections(r)
    /\ mainQueue' = Ended(mainQueue, "header")
    /\ UNCHANGED <<startIndex, more, issued, controls>>

\* A refresh request fails or times out: catchErrorJustReturn([]) empties the list.
RefreshFails(r) ==
    /\ "network" \in Faults
    /\ r \in refreshes
    /\ refreshes' = refreshes \ {r}
    /\ sections' = FailedSections
    /\ mainQueue' = Ended(mainQueue, "header")
    /\ UNCHANGED <<startIndex, cache, more, issued, controls>>

\* A load-more is answered: its page becomes a section after the others.
MoreSucceeds ==
    /\ more # None
    /\ more' = None
    /\ sections' = ExtendedSections(more)
    /\ mainQueue' = Ended(mainQueue, "footer")
    /\ UNCHANGED <<startIndex, cache, refreshes, issued, controls>>

\* A load-more fails: an empty section is appended, startIndex stays advanced.
MoreFails ==
    /\ "network" \in Faults
    /\ more # None
    /\ more' = None
    /\ sections' = ExtendedSections(None)
    /\ mainQueue' = Ended(mainQueue, "footer")
    /\ UNCHANGED <<startIndex, cache, refreshes, issued, controls>>

(***************************************************************************)
(* Specification                                                           *)
(***************************************************************************)

RefreshAnswered == \E r \in refreshes : RefreshSucceeds(r) \/ RefreshFails(r)
MoreAnswered == MoreSucceeds \/ MoreFails

RunBlock ==
    \/ RunAnimate
    \/ RunRefresh
    \/ RunMore
    \/ \E c \in Control : RunEnd(c)

User ==
    \/ \E c \in Control : Drag(c) \/ DragBack(c)
    \/ ReleaseHeader
    \/ ReleaseFooter

Next ==
    \/ User
    \/ Draw
    \/ \E c \in Control : AnimationEnds(c)
    \/ RunBlock
    \/ RefreshAnswered
    \/ MoreAnswered

\* The main loop keeps draining its queue, animations end, a view in the window
\* is drawn and every request is answered, if only by its 15 s timeout.  The
\* user owes nothing.
Fairness ==
    /\ WF_vars(Draw)
    /\ \A c \in Control : WF_vars(AnimationEnds(c))
    /\ WF_vars(RunBlock)
    /\ WF_vars(RefreshAnswered)
    /\ WF_vars(MoreAnswered)

Spec == Init /\ [][Next]_vars
FairSpec == Spec /\ Fairness
-----------------------------------------------------------------------------
(***************************************************************************)
(* Properties                                                              *)
(***************************************************************************)

\* Every variable has its type; requests in flight and pages shown are requests
\* that were sent, refreshes ask for page 0 and load-mores for a later one.
TypeOK ==
    /\ state \in [Control -> ControlState]
    /\ animating \in [Control -> Nat]
    /\ mainQueue \in Seq(Block)
    /\ startIndex \in Nat
    /\ sections \in Seq(Request)
    /\ cache \in Request
    /\ refreshes \subseteq [id : 2..issued, start : {0}]
    /\ more \in [id : 2..issued, start : Nat \ {0}] \cup {None}
    /\ pulls \in Nat
    /\ issued \in Nat \ {0}

\* The indexes of the blocks waiting in the main queue for control c.
Waiting(c) == {i \in DOMAIN mainQueue : mainQueue[i].of = c}

\* A header that shows its spinner has something under way that will end it: an
\* animation, a block in the queue or a refresh request that is not answered.
\* (An early endRefreshing, posted when the cached page was shown, may stop the
\* spinner of a later pull, but none may ever be left turning for nothing.)
SpinnerHasCause ==
    state["header"] = "Refreshing" =>
        \/ Waiting("header") # {}
        \/ animating["header"] > 0
        \/ refreshes # {}

\* A load-more is in exactly one place while the footer shows its spinner, its
\* animation, one block of the queue or its request, and nowhere otherwise.  So
\* the callback never finds a request running: flatMapLatest cancels nothing,
\* no load-more is lost and no page is appended after its footer has ended.
LoadMoreExclusive ==
    /\ \A i, j \in Waiting("footer") : i = j
    /\ animating["footer"] =< 1
    /\ Waiting("footer") # {} => animating["footer"] = 0 /\ more = None
    /\ animating["footer"] = 1 => more = None
    /\ state["footer"] = "Refreshing" <=>
            \/ Waiting("footer") # {}
            \/ animating["footer"] = 1
            \/ more # None

\* While storing works, a first page on the screen is the page in the cache, in
\* whatever order refreshes are answered, fail or are shown from the cache: the
\* next launch starts from what the user saw last.
TopIsCached ==
    "storage" \notin Faults =>
        (sections # <<>> /\ sections[1] # None /\ sections[1].start = 0
            => cache = sections[1])

\* A control that spins stops, whichever of its requests fail and however the
\* user goes on pulling.
SpinnerStops ==
    \A c \in Control : state[c] = "Refreshing" ~> state[c] # "Refreshing"

\* The feed that was asked to refresh before it was on screen ends up with
\* sections, be it an empty one after an error.
FirstPageArrives == <>(sections # <<>>)
=============================================================================
