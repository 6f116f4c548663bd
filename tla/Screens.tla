------------------------------ MODULE Screens ------------------------------
(***************************************************************************)
(* The two windows, the pages of the task window and those of the tutorial *)
(* (Tasuke.cpp 240 to 345, TaskWindow.cpp 144 to 205, TutorialWidget.cpp   *)
(* and SlidingStackedWidget.cpp).  A stack of pages goes to another page   *)
(* by an animation of half a second, on a timer of its own.  A request     *)
(* that comes while one is under way is dropped, and until it ends the     *)
(* stack's index is that of the page it leaves.  The tutorial also sets    *)
(* the index of its stacks at once, whether or not they are sliding.       *)
(***************************************************************************)
EXTENDS Naturals

CONSTANTS
  Tabs,   \* how many tabs the tutorial has, each with a stack of its own
  Pages   \* how many pages each of them has

ASSUME PagesAssumption ==
  /\ Tabs \in Nat \ {0}
  /\ Pages \in [0 .. Tabs - 1 -> Nat \ {0}]

VARIABLES
  firstRun,   \* isFirstRun, in the settings
  taskWindow, \* it is on the screen
  inputWindow,
  screen,     \* the stack of the task window
  tab,        \* of the tutorial
  slideshow   \* the stack of each tab

vars == <<firstRun, taskWindow, inputWindow, screen, tab, slideshow>>
tutorial == <<tab, slideshow>>

TASKS_PAGE == 0
TUTORIAL_PAGE == 1

-----------------------------------------------------------------------------
(* SlidingStackedWidget *)

Stack(pages) ==
  [index : 0 .. pages - 1, active : BOOLEAN,
   from : 0 .. pages - 1, to : 0 .. pages - 1,  \* m_now, m_next
   shown : SUBSET (0 .. pages - 1)]

NewStack == [index |-> 0, active |-> FALSE, from |-> 0, to |-> 0, shown |-> {0}]

(* Wrong on purpose: a page can be slid in while another one is. *)
SlideInReentrant(stack, page) ==
  IF stack.index = page THEN stack
  ELSE [stack EXCEPT !.active = TRUE, !.from = stack.index, !.to = page,
                     !.shown = @ \cup {page}]

(* Wrong on purpose: a page can be slid in for itself. *)
SlideInSame(stack, page) ==
  IF stack.active THEN stack
  ELSE [stack EXCEPT !.active = TRUE, !.from = stack.index, !.to = page,
                     !.shown = @ \cup {page}]

SlideIn(stack, page) ==
  IF stack.active \/ stack.index = page THEN stack
  ELSE [stack EXCEPT !.active = TRUE, !.from = stack.index, !.to = page,
                     !.shown = @ \cup {page}]

(* QStackedWidget: the page that was current is hidden, unless it still is. *)
SetCurrentIndex(stack, page) ==
  IF stack.index = page THEN stack
  ELSE [stack EXCEPT !.index = page, !.shown = (@ \ {stack.index}) \cup {page}]

(* Wrong on purpose: the stack stays busy. *)
AnimationDoneBusy(stack) ==
  LET there == SetCurrentIndex(stack, stack.to)
  IN  [there EXCEPT !.shown = @ \ {stack.from}]

AnimationDone(stack) ==
  LET there == SetCurrentIndex(stack, stack.to)
  IN  [there EXCEPT !.active = FALSE, !.shown = @ \ {stack.from}]

-----------------------------------------------------------------------------
(* TaskWindow *)

(* showTutorialWidget() *)
TutorialReset ==
  /\ tab' = 0
  /\ slideshow' = [t \in DOMAIN slideshow |-> SetCurrentIndex(slideshow[t], 0)]

(* Wrong on purpose: the first run is like any other. *)
ShowTaskWindowForgetful ==
  IF taskWindow THEN UNCHANGED <<firstRun, taskWindow, screen, tutorial>>
  ELSE /\ taskWindow' = TRUE /\ firstRun' = FALSE
       /\ screen' = SlideIn(screen, TASKS_PAGE)
       /\ UNCHANGED tutorial

(* showAndMoveToSide() *)
ShowTaskWindow ==
  IF taskWindow THEN UNCHANGED <<firstRun, taskWindow, screen, tutorial>>
  ELSE /\ taskWindow' = TRUE /\ firstRun' = FALSE
       /\ IF firstRun
          THEN screen' = SlideIn(screen, TUTORIAL_PAGE) /\ TutorialReset
          ELSE screen' = SlideIn(screen, TASKS_PAGE) /\ UNCHANGED tutorial

-----------------------------------------------------------------------------
Init ==
  /\ firstRun \in BOOLEAN
  /\ taskWindow = FALSE /\ inputWindow = FALSE
  /\ screen = NewStack
  /\ tab = 0
  /\ slideshow = [t \in 0 .. Tabs - 1 |-> NewStack]

(* The program starts, the user asks for it, or a command has something to show. *)
Show == ShowTaskWindow /\ UNCHANGED inputWindow

HideTaskWindow ==
  /\ taskWindow' = FALSE
  /\ UNCHANGED <<firstRun, inputWindow, screen, tutorial>>

ToggleTaskWindow == IF taskWindow THEN HideTaskWindow ELSE Show

ToggleInputWindow ==
  /\ inputWindow' = ~inputWindow
  /\ UNCHANGED <<firstRun, taskWindow, screen, tutorial>>

ToggleBothWindows ==
  IF taskWindow \/ inputWindow
  THEN /\ taskWindow' = FALSE /\ inputWindow' = FALSE
       /\ UNCHANGED <<firstRun, screen, tutorial>>
  ELSE ShowTaskWindow /\ inputWindow' = TRUE

(* help, or the menu: a hidden window is shown first, which may send the stack to
   another page and have the request for the tutorial dropped.             *)
ShowTutorial ==
  /\ taskWindow' = TRUE /\ firstRun' = (firstRun /\ taskWindow)
  /\ LET shown == IF taskWindow THEN screen
                  ELSE SlideIn(screen, IF firstRun THEN TUTORIAL_PAGE ELSE TASKS_PAGE)
     IN  screen' = SlideIn(shown, TUTORIAL_PAGE)
  /\ TutorialReset
  /\ UNCHANGED inputWindow

(* By key, once it is the current page; by mouse, as soon as it slides in. *)
OnTutorial == taskWindow /\ TUTORIAL_PAGE \in screen.shown

ShowListWidget ==
  /\ OnTutorial
  /\ screen' = SlideIn(screen, TASKS_PAGE)
  /\ UNCHANGED <<firstRun, taskWindow, inputWindow, tutorial>>

(* By key from the input window too, with the task window hidden. *)
ChangeTabs ==
  /\ OnTutorial \/ (inputWindow /\ screen.index = TUTORIAL_PAGE)
  /\ tab' = (IF tab = Tabs - 1 THEN 0 ELSE tab + 1)
  /\ UNCHANGED <<firstRun, taskWindow, inputWindow, screen, slideshow>>

(* Wrong on purpose: one page too far. *)
GetNextIndexPast(page, max) == IF page = max THEN 0 ELSE page + 1

GetNextIndex(page, max) == IF page = max - 1 THEN 0 ELSE page + 1
GetPrevIndex(page, max) == IF page = 0 THEN max - 1 ELSE page - 1

Turn(page) ==
  /\ OnTutorial
  /\ slideshow' = [slideshow EXCEPT ![tab] = SlideIn(@, page)]
  /\ UNCHANGED <<firstRun, taskWindow, inputWindow, screen, tab>>

GoNextPage == Turn(GetNextIndex(slideshow[tab].index, Pages[tab]))
GoPrevPage == Turn(GetPrevIndex(slideshow[tab].index, Pages[tab]))

User ==
  \/ Show \/ HideTaskWindow \/ ToggleTaskWindow \/ ToggleInputWindow
  \/ ToggleBothWindows \/ ShowTutorial \/ ShowListWidget
  \/ ChangeTabs \/ GoNextPage \/ GoPrevPage

ScreenDone ==
  /\ screen.active
  /\ screen' = AnimationDone(screen)
  /\ UNCHANGED <<firstRun, taskWindow, inputWindow, tutorial>>

SlideshowDone(t) ==
  /\ slideshow[t].active
  /\ slideshow' = [slideshow EXCEPT ![t] = AnimationDone(@)]
  /\ UNCHANGED <<firstRun, taskWindow, inputWindow, screen, tab>>

Done == ScreenDone \/ \E t \in DOMAIN slideshow : SlideshowDone(t)

Next == User \/ Done

(* An animation that is started comes to its end, on the screen or not. *)
Fairness ==
  WF_vars(ScreenDone) /\ \A t \in 0 .. Tabs - 1 : WF_vars(SlideshowDone(t))

Spec == Init /\ [][Next]_vars /\ Fairness

-----------------------------------------------------------------------------
Stacks == {screen} \cup {slideshow[t] : t \in DOMAIN slideshow}

(* Every variable has its type. *)
TypeOK ==
  /\ {firstRun, taskWindow, inputWindow} \subseteq BOOLEAN
  /\ screen \in Stack(2)
  /\ tab \in 0 .. Tabs - 1
  /\ \A t \in 0 .. Tabs - 1 : slideshow[t] \in Stack(Pages[t])

(* The current page is never hidden, and at rest no other is shown, although every
   end of an animation hides a page and the tutorial changes the current one
   while it slides.                                                        *)
OnePage ==
  \A s \in Stacks : s.index \in s.shown /\ (~s.active => s.shown = {s.index})

(* An animation under way is not sent elsewhere: what it left and what it brings
   in stay what they are, so it hides the page it started from.             *)
NoReentrance ==
  [][\A t \in DOMAIN slideshow :
       \A s \in {<<slideshow[t], slideshow'[t]>>, <<screen, screen'>>} :
         s[1].active /\ s[2].active =>
           s[2].from = s[1].from /\ s[2].to = s[1].to]_vars

(* The user who sees the window for the first time gets to the tutorial, whatever
   else is pressed before it has come up.                                   *)
FirstRunShowsTutorial ==
  [](firstRun /\ <>taskWindow => <>(screen.index = TUTORIAL_PAGE))

(* A page that is sliding in comes to rest as the current one, whatever is pressed
   meanwhile: what is dropped is the other request, never the one under way. *)
Arrives ==
  \A page \in 0 .. 1 :
    (screen.active /\ screen.to = page) ~> (~screen.active /\ screen.index = page)
=============================================================================
