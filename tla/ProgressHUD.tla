---------------------------- MODULE ProgressHUD ----------------------------
(***************************************************************************)
(* KRProgressHUD, the single overlay of the app, behind the HUD facade:    *)
(* show and dismiss post blocks to the main queue, a message arms a work   *)
(* item on a global queue that dismisses it after its deadline, fading out *)
(* is an animation whose completion hides the overlay.                     *)
(*                                                                         *)
(* Durations are abstracted: an armed work item may run, and a fade may    *)
(* end, at any later moment.  The work item runs on a background thread    *)
(* and touches dismissHandler without a lock, so its statements interleave *)
(* with the main thread when Preempted is TRUE.                            *)
(***************************************************************************)
EXTENDS Naturals, Sequences

CONSTANTS
    MaxCalls,   \* bound on the calls of show and dismiss in a behaviour
    Spaced,     \* TRUE: a call comes only when the main thread has nothing to do
    Preempted   \* TRUE: other threads may run between a work item's statements

ASSUME MaxCallsAssumption == MaxCalls \in Nat
ASSUME SpacedAssumption == Spaced \in BOOLEAN
ASSUME PreemptedAssumption == Preempted \in BOOLEAN

VARIABLES
    mainQueue,       \* blocks posted to the main queue, oldest first
    fades,           \* fade-out animations running
    visible,         \* KRProgressHUD.isVisible: the overlay is on the screen
    keyWindow,       \* the application's key window
    appWindow,       \* KRProgressHUD.appWindow
    layout,          \* what updateLayouts laid out in the overlay
    dismissHandler,  \* KRProgressHUD.dismissHandler: a work item or NoItem
    items,           \* progress of each DispatchWorkItem
    held,            \* the handler a running work item has read
    calls,           \* calls made so far
    lastCall         \* the last call made

vars == <<mainQueue, fades, visible, keyWindow, appWindow, layout,
          dismissHandler, items, held, calls, lastCall>>

Kind == {"loading", "message"}
Layout == Kind \cup {"bare"}  \* bare: no message and no spinner
Item == 1..MaxCalls
NoItem == 0
ItemState == {"unused", "armed", "cancelled", "running", "holding", "done"}
Block == [op : {"prepare", "reveal"}, kind : Kind] \cup [op : {"fadeOut"}]

windows == <<visible, keyWindow, appWindow>>
timer == <<dismissHandler, items, held>>
history == <<calls, lastCall>>

(***************************************************************************)
(* Helpers                                                                 *)
(***************************************************************************)

FadeOutBlock == [op |-> "fadeOut"]

\* A work item is between its first statement and its end.
Underway == \E t \in Item : items[t] \in {"running", "holding"}

\* The main thread runs on unless a work item holds the processor.
MainMayRun == Preempted \/ ~Underway

MainIdle == mainQueue = <<>> /\ fades = 0

Armed == \E t \in Item : items[t] = "armed"

\* Nothing is left that could change the screen without a call.
Over == MainIdle /\ ~Underway /\ ~Armed

MayCall ==
    /\ calls < MaxCalls
    /\ MainMayRun
    /\ Spaced => MainIdle

\* DispatchWorkItem.cancel stops an item that has not begun, and no other.
AfterCancel(t) ==
    IF t # NoItem /\ items[t] = "armed"
    THEN [items EXCEPT ![t] = "cancelled"]
    ELSE items

\* fadeInView attaches the overlay only when it is not on the screen.
AttachAlways == TRUE
AttachesNow == ~visible

(***************************************************************************)
(* Calls, from the main thread                                             *)
(***************************************************************************)
Init ==
    /\ mainQueue = <<>>
    /\ fades = 0
    /\ visible = FALSE
    /\ keyWindow = "app"
    /\ appWindow = "none"
    /\ layout = "bare"
    /\ dismissHandler = NoItem
    /\ items = [t \in Item |-> "unused"]
    /\ held = [t \in Item |-> NoItem]
    /\ calls = 0
    /\ lastCall = "none"

\* show(isLoading: kind = "loading"): everything happens in a block.
Show(kind) ==
    /\ MayCall
    /\ mainQueue' = Append(mainQueue, [op |-> "prepare", kind |-> kind])
    /\ calls' = calls + 1
    /\ lastCall' = kind
    /\ UNCHANGED <<fades, windows, layout, timer>>

\* dismiss(), or a tap on the overlay.
Dismiss ==
    /\ MayCall
    /\ mainQueue' = Append(mainQueue, FadeOutBlock)
    /\ calls' = calls + 1
    /\ lastCall' = "dismiss"
    /\ UNCHANGED <<fades, windows, layout, timer>>

(***************************************************************************)
(* Blocks of the main queue                                                *)
(***************************************************************************)

\* The block of show: lay out, cancel the pending dismissal, post the reveal
\* (cancelCurrentDismissHandler is always true, so the delay is always 0).
PrepareKeepsTimer ==
    /\ MainMayRun
    /\ mainQueue # <<>>
    /\ Head(mainQueue).op = "prepare"
    /\ mainQueue' = Append(Tail(mainQueue), [Head(mainQueue) EXCEPT !.op = "reveal"])
    /\ layout' = Head(mainQueue).kind
    /\ UNCHANGED <<fades, windows, timer, history>>

Prepare ==
    /\ MainMayRun
    /\ mainQueue # <<>>
    /\ Head(mainQueue).op = "prepare"
    /\ items' = AfterCancel(dismissHandler)
    /\ dismissHandler' = NoItem
    /\ mainQueue' = Append(Tail(mainQueue), [Head(mainQueue) EXCEPT !.op = "reveal"])
    /\ layout' = Head(mainQueue).kind
    /\ UNCHANGED <<fades, windows, held, history>>

\* fadeInView, and for a message registerDismissHandler.
Reveal ==
    /\ MainMayRun
    /\ mainQueue # <<>>
    /\ Head(mainQueue).op = "reveal"
    /\ mainQueue' = Tail(mainQueue)
    /\ IF AttachesNow
       THEN appWindow' = keyWindow /\ keyWindow' = "hud"
       ELSE UNCHANGED <<appWindow, keyWindow>>
    /\ visible' = TRUE
    /\ IF Head(mainQueue).kind = "loading"
       THEN UNCHANGED <<items, dismissHandler>>
       ELSE \E t \in Item :
                /\ items[t] = "unused" /\ \A u \in 1..(t - 1) : items[u] # "unused"
                /\ items' = [items EXCEPT ![t] = "armed"]
                /\ dismissHandler' = t
    /\ UNCHANGED <<fades, layout, held, history>>

\* fadeOutView starts its animation.
FadeOut ==
    /\ MainMayRun
    /\ mainQueue # <<>>
    /\ Head(mainQueue) = FadeOutBlock
    /\ mainQueue' = Tail(mainQueue)
    /\ fades' = fades + 1
    /\ UNCHANGED <<windows, layout, timer, history>>

\* The completion of fadeOutView gives the key window back, hides the overlay and
\* stops its spinner, whatever was laid out or revealed since the fade began.
FadeEnds ==
    /\ MainMayRun
    /\ fades > 0
    /\ fades' = fades - 1
    /\ keyWindow' = IF appWindow = "none" THEN keyWindow ELSE appWindow
    /\ appWindow' = "none"
    /\ visible' = FALSE
    /\ layout' = IF layout = "loading" THEN "bare" ELSE layout
    /\ UNCHANGED <<mainQueue, timer, history>>

(***************************************************************************)
(* The work item of registerDismissHandler, on a global queue              *)
(***************************************************************************)

\* KRProgressHUD.dismiss() posts a block to the main queue.
FireOnly(t) ==
    /\ Preempted \/ ~Underway
    /\ items[t] = "armed"
    /\ items' = [items EXCEPT ![t] = "running"]
    /\ UNCHANGED <<mainQueue, fades, windows, layout, dismissHandler, held, history>>

Fire(t) ==
    /\ Preempted \/ ~Underway
    /\ items[t] = "armed"
    /\ items' = [items EXCEPT ![t] = "running"]
    /\ mainQueue' = Append(mainQueue, FadeOutBlock)
    /\ UNCHANGED <<fades, windows, layout, dismissHandler, held, history>>

\* cancelCurrentDismissHandler reads whatever handler is registered by now ...
ReadHandler(t) ==
    /\ items[t] = "running"
    /\ held' = [held EXCEPT ![t] = dismissHandler]
    /\ items' = [items EXCEPT ![t] = IF dismissHandler = NoItem THEN "done" ELSE "holding"]
    /\ UNCHANGED <<mainQueue, fades, windows, layout, dismissHandler, history>>

\* ... cancels that one and forgets the registered one.
CancelHeld(t) ==
    /\ items[t] = "holding"
    /\ items' = [AfterCancel(held[t]) EXCEPT ![t] = "done"]
    /\ dismissHandler' = NoItem
    /\ UNCHANGED <<mainQueue, fades, windows, layout, held, history>>

(***************************************************************************)
(* Specification                                                           *)
(***************************************************************************)

MainStep == Prepare \/ Reveal \/ FadeOut

ItemStep(t) == Fire(t) \/ ReadHandler(t) \/ CancelHeld(t)

\* Every call is made and everything it caused is over; the screen stays as it is.
AllOver ==
    /\ calls = MaxCalls
    /\ Over
    /\ UNCHANGED vars

Next ==
    \/ \E kind \in Kind : Show(kind)
    \/ Dismiss
    \/ MainStep
    \/ FadeEnds
    \/ \E t \in Item : ItemStep(t)
    \/ AllOver

Spec == Init /\ [][Next]_vars

\* The main loop drains its queue, animations end, armed items run.
Fairness ==
    /\ WF_vars(MainStep)
    /\ WF_vars(FadeEnds)
    /\ \A t \in Item : WF_vars(ItemStep(t))

FairSpec == Spec /\ Fairness
-----------------------------------------------------------------------------
(***************************************************************************)
(* Properties                                                              *)
(***************************************************************************)

\* Every variable has its type, and the registered handler is an item in use.
TypeOK ==
    /\ mainQueue \in Seq(Block)
    /\ fades \in Nat
    /\ visible \in BOOLEAN
    /\ keyWindow \in {"app", "hud"}
    /\ appWindow \in {"app", "none"}
    /\ layout \in Layout
    /\ items \in [Item -> ItemState]
    /\ held \in [Item -> Item \cup {NoItem}]
    /\ dismissHandler \in Item \cup {NoItem}
    /\ calls \in 0..MaxCalls
    /\ lastCall \in Kind \cup {"dismiss", "none"}


\* The application gets its key window back: the overlay's window is key exactly
\* while the overlay is on the screen, and then the window to give it back to is
\* remembered, however shows, fades and late completions overlap.
WindowRestored ==
    /\ visible <=> keyWindow = "hud"
    /\ visible <=> appWindow = "app"

\* "The HUD dismiss after 1 secound" (KRProgressHUD.swift:346): a message on the
\* screen has a dismissal ahead of it, armed, posted or fading, or gives way to
\* another show.
MessageHasEnd ==
    visible /\ layout = "message" =>
        \/ Armed
        \/ fades > 0
        \/ mainQueue # <<>>

\* When everything is over, only a loading overlay nobody dismissed is left.
OnlyLoadingRemains == Over /\ visible => lastCall = "loading"

\* The dismissal that is ahead is the one dismissHandler names, the only one a
\* later show can cancel: no forgotten timer hides what is shown after it.
ArmedIsRegistered == \A t \in Item : items[t] = "armed" => dismissHandler = t

\* "Hides the HUD." (KRProgressHUD.swift:364): once everything the calls caused is
\* over, a last call of dismiss has left nothing on the screen.
DismissHides == Over /\ lastCall = "dismiss" => ~visible

\* A message does not stay: it is hidden or replaced by a loading overlay.
MessageEnds == (visible /\ layout = "message") ~> ~(visible /\ layout = "message")
=============================================================================
