--------------------------- MODULE ScreensProofs ---------------------------
(***************************************************************************)
(* Proofs about the windows and their stacks of pages, whatever the number *)
(* of tabs and of pages in each.                                           *)
(***************************************************************************)
EXTENDS Screens, TLAPS

Numbers == 0 .. Tabs - 1

(* What holds of a stack between any two steps: while it slides no page is shown
   but the current one, the one it leaves and the one it brings in.         *)
Sound(s, pages) ==
  /\ s \in Stack(pages)
  /\ s.index \in s.shown
  /\ ~s.active => s.shown = {s.index}
  /\ s.active => s.from # s.to /\ s.shown \subseteq {s.index, s.from, s.to}

ScreensInv ==
  /\ {firstRun, taskWindow, inputWindow} \subseteq BOOLEAN
  /\ Sound(screen, 2)
  /\ tab \in Numbers
  /\ slideshow = [t \in Numbers |-> slideshow[t]]
  /\ \A t \in Numbers : Sound(slideshow[t], Pages[t])

-----------------------------------------------------------------------------
(* A new stack is sound. *)
LEMMA NewSound == ASSUME NEW pages \in Nat \ {0} PROVE Sound(NewStack, pages)
  BY DEF Sound, NewStack, Stack

(* To slide a page in, or to have the request dropped, leaves a stack sound. *)
LEMMA SlideInSound ==
  ASSUME NEW pages \in Nat \ {0}, NEW s, Sound(s, pages), NEW page \in 0 .. pages - 1
  PROVE  Sound(SlideIn(s, page), pages)
<1>1. CASE s.active \/ s.index = page
  BY <1>1 DEF SlideIn
<1>2. CASE ~(s.active \/ s.index = page)
  <2> DEFINE r == [s EXCEPT !.active = TRUE, !.from = s.index, !.to = page,
                            !.shown = @ \cup {page}]
  <2>1. s \in Stack(pages) /\ s.shown = {s.index} BY <1>2 DEF Sound
  <2>2. r \in Stack(pages) BY <2>1 DEF Stack
  <2>3. /\ r.active /\ r.index = s.index /\ r.from = s.index /\ r.to = page
        /\ r.shown = {s.index, page}
    BY <2>1 DEF Stack
  <2>4. SlideIn(s, page) = r BY <1>2 DEF SlideIn
  <2> HIDE DEF r
  <2> QED BY <1>2, <2>2, <2>3, <2>4 DEF Sound
<1> QED BY <1>1, <1>2

(* So does to set the current page, sliding or not. *)
LEMMA SetCurrentSound ==
  ASSUME NEW pages \in Nat \ {0}, NEW s, Sound(s, pages), NEW page \in 0 .. pages - 1
  PROVE  Sound(SetCurrentIndex(s, page), pages)
<1>1. CASE s.index = page
  BY <1>1 DEF SetCurrentIndex
<1>2. CASE s.index # page
  <2> DEFINE r == [s EXCEPT !.index = page, !.shown = (@ \ {s.index}) \cup {page}]
  <2>1. s \in Stack(pages) BY DEF Sound
  <2>2. r \in Stack(pages) BY <2>1 DEF Stack
  <2>3. /\ r.active = s.active /\ r.index = page /\ r.from = s.from /\ r.to = s.to
        /\ r.shown = (s.shown \ {s.index}) \cup {page}
    BY <2>1 DEF Stack
  <2>4. SetCurrentIndex(s, page) = r BY <1>2 DEF SetCurrentIndex
  <2> HIDE DEF r
  <2> QED BY <2>2, <2>3, <2>4 DEF Sound
<1> QED BY <1>1, <1>2

(* At the end of an animation the page that was brought in is the only one shown,
   even if another has been made the current one meanwhile.                 *)
LEMMA DoneSound ==
  ASSUME NEW pages \in Nat \ {0}, NEW s, Sound(s, pages), s.active
  PROVE  Sound(AnimationDone(s), pages) /\ ~AnimationDone(s).active
<1> DEFINE u == SetCurrentIndex(s, s.to)
<1> DEFINE r == [u EXCEPT !.active = FALSE, !.shown = @ \ {s.from}]
<1>1. s \in Stack(pages) /\ s.to \in 0 .. pages - 1 BY DEF Sound, Stack
<1>2. u \in Stack(pages) BY <1>1, SetCurrentSound DEF Sound
<1>3. u.index = s.to /\ u.shown = IF s.index = s.to THEN s.shown
                                  ELSE (s.shown \ {s.index}) \cup {s.to}
  BY <1>1 DEF SetCurrentIndex, Stack
<1>4. s.from # s.to /\ s.shown \subseteq {s.index, s.from, s.to} /\ s.index \in s.shown
  BY DEF Sound
<1>5. u.shown \ {s.from} = {s.to} BY <1>3, <1>4
<1> HIDE DEF u
<1>6. r \in Stack(pages) BY <1>2 DEF Stack
<1>7. ~r.active /\ r.index = s.to /\ r.shown = {s.to} BY <1>2, <1>3, <1>5 DEF Stack
<1>8. AnimationDone(s) = r BY DEF AnimationDone, u
<1> HIDE DEF r
<1> QED BY <1>6, <1>7, <1>8 DEF Sound

-----------------------------------------------------------------------------
(* The tutorial is reset: every stack of it is sound, and there are as many. *)
LEMMA ResetSound ==
  ASSUME ScreensInv, TutorialReset
  PROVE  /\ tab' \in Numbers
         /\ slideshow' = [t \in Numbers |-> slideshow'[t]]
         /\ \A t \in Numbers : Sound(slideshow'[t], Pages[t])
<1>1. DOMAIN slideshow = Numbers BY DEF ScreensInv
<1>2. 0 \in Numbers BY PagesAssumption DEF Numbers
<1>3. \A t \in Numbers : slideshow'[t] = SetCurrentIndex(slideshow[t], 0)
  BY <1>1 DEF TutorialReset
<1>4. ASSUME NEW t \in Numbers PROVE Sound(slideshow'[t], Pages[t])
  <2>1. Pages[t] \in Nat \ {0} BY PagesAssumption DEF Numbers
  <2>2. 0 \in 0 .. Pages[t] - 1 BY <2>1
  <2>3. Sound(slideshow[t], Pages[t]) BY DEF ScreensInv
  <2> QED BY <1>3, <2>1, <2>2, <2>3, SetCurrentSound
<1> QED BY <1>1, <1>2, <1>4 DEF TutorialReset

(* The two pages of the task window slide in soundly. *)
LEMMA ScreenSound ==
  ASSUME NEW s, Sound(s, 2), NEW page \in {TASKS_PAGE, TUTORIAL_PAGE}
  PROVE  Sound(SlideIn(s, page), 2)
  BY SlideInSound DEF TASKS_PAGE, TUTORIAL_PAGE

LEMMA ShowTaskWindowSound ==
  ASSUME ScreensInv, ShowTaskWindow, inputWindow' \in BOOLEAN
  PROVE  ScreensInv'
<1>1. CASE taskWindow
  BY <1>1 DEF ShowTaskWindow, ScreensInv, tutorial
<1>2. CASE ~taskWindow /\ firstRun
  <2>1. Sound(screen', 2) BY <1>2, ScreenSound DEF ShowTaskWindow, ScreensInv
  <2> QED BY <1>2, <2>1, ResetSound DEF ShowTaskWindow, ScreensInv
<1>3. CASE ~taskWindow /\ ~firstRun
  <2>1. Sound(screen', 2) BY <1>3, ScreenSound DEF ShowTaskWindow, ScreensInv
  <2> QED BY <1>3, <2>1 DEF ShowTaskWindow, ScreensInv, tutorial
<1> QED BY <1>1, <1>2, <1>3 DEF ScreensInv

(* A page of the tutorial is turned. *)
LEMMA TurnSound ==
  ASSUME ScreensInv, NEW page \in 0 .. Pages[tab] - 1, Turn(page)
  PROVE  ScreensInv'
<1>1. tab \in Numbers /\ Pages[tab] \in Nat \ {0}
  BY PagesAssumption DEF ScreensInv, Numbers
<1>2. Sound(SlideIn(slideshow[tab], page), Pages[tab])
  BY <1>1, SlideInSound DEF ScreensInv
<1>3. DOMAIN slideshow = Numbers BY DEF ScreensInv
<1>4. \A t \in Numbers :
        slideshow'[t] = IF t = tab THEN SlideIn(slideshow[tab], page) ELSE slideshow[t]
  BY <1>3 DEF Turn
<1>5. slideshow' = [t \in Numbers |-> slideshow'[t]] BY <1>3 DEF Turn
<1> QED BY <1>2, <1>4, <1>5 DEF Turn, ScreensInv

LEMMA StepScreens == ScreensInv /\ [Next]_vars => ScreensInv'
<1> SUFFICES ASSUME ScreensInv, [Next]_vars PROVE ScreensInv'
  OBVIOUS
<1> USE DEF ScreensInv
<1>1. CASE Show BY <1>1, ShowTaskWindowSound DEF Show
<1>2. CASE HideTaskWindow BY <1>2 DEF HideTaskWindow, tutorial
<1>3. CASE ToggleTaskWindow BY <1>1, <1>2, <1>3 DEF ToggleTaskWindow
<1>4. CASE ToggleInputWindow BY <1>4 DEF ToggleInputWindow, tutorial
<1>5. CASE ToggleBothWindows
  <2>1. CASE taskWindow \/ inputWindow BY <1>5, <2>1 DEF ToggleBothWindows, tutorial
  <2>2. CASE ~(taskWindow \/ inputWindow)
    BY <1>5, <2>2, ShowTaskWindowSound DEF ToggleBothWindows
  <2> QED BY <2>1, <2>2
<1>6. CASE ShowTutorial
  <2> DEFINE shown == IF taskWindow THEN screen
                      ELSE SlideIn(screen, IF firstRun THEN TUTORIAL_PAGE ELSE TASKS_PAGE)
  <2>1. Sound(shown, 2) BY ScreenSound
  <2>2. screen' = SlideIn(shown, TUTORIAL_PAGE) BY <1>6 DEF ShowTutorial
  <2> HIDE DEF shown
  <2>3. Sound(screen', 2) BY <2>1, <2>2, ScreenSound
  <2> QED BY <1>6, <2>3, ResetSound DEF ShowTutorial
<1>7. CASE ShowListWidget
  <2>1. Sound(screen', 2) BY <1>7, ScreenSound DEF ShowListWidget
  <2> QED BY <1>7, <2>1 DEF ShowListWidget, tutorial
<1>8. CASE ChangeTabs
  <2>1. tab' \in Numbers BY <1>8, PagesAssumption DEF ChangeTabs, Numbers
  <2> QED BY <1>8, <2>1 DEF ChangeTabs
<1>9. CASE GoNextPage \/ GoPrevPage
  <2>1. tab \in Numbers /\ Pages[tab] \in Nat \ {0} BY PagesAssumption DEF Numbers
  <2>2. slideshow[tab].index \in 0 .. Pages[tab] - 1 BY <2>1 DEF Sound, Stack
  <2>3. GetNextIndex(slideshow[tab].index, Pages[tab]) \in 0 .. Pages[tab] - 1
    BY <2>1, <2>2 DEF GetNextIndex
  <2>4. GetPrevIndex(slideshow[tab].index, Pages[tab]) \in 0 .. Pages[tab] - 1
    BY <2>1, <2>2 DEF GetPrevIndex
  <2> QED BY <1>9, <2>3, <2>4, TurnSound DEF GoNextPage, GoPrevPage
<1>10. CASE ScreenDone
  <2>1. Sound(screen', 2) BY <1>10, DoneSound DEF ScreenDone
  <2> QED BY <1>10, <2>1 DEF ScreenDone, tutorial
<1>11. ASSUME NEW t \in Numbers, SlideshowDone(t) PROVE ScreensInv'
  <2>1. Pages[t] \in Nat \ {0} BY PagesAssumption DEF Numbers
  <2>2. Sound(AnimationDone(slideshow[t]), Pages[t]) BY <1>11, <2>1, DoneSound DEF SlideshowDone
  <2>3. DOMAIN slideshow = Numbers OBVIOUS
  <2>4. \A u \in Numbers :
          slideshow'[u] = IF u = t THEN AnimationDone(slideshow[t]) ELSE slideshow[u]
    BY <1>11, <2>3 DEF SlideshowDone
  <2>5. slideshow' = [u \in Numbers |-> slideshow'[u]] BY <1>11, <2>3 DEF SlideshowDone
  <2> QED BY <1>11, <2>2, <2>4, <2>5 DEF SlideshowDone
<1>12. CASE UNCHANGED vars BY <1>12 DEF vars
<1> QED
  BY <1>1, <1>2, <1>3, <1>4, <1>5, <1>6, <1>7, <1>8, <1>9, <1>10, <1>11, <1>12
  DEF Next, User, Done

LEMMA InitScreens == Init => ScreensInv
<1> SUFFICES ASSUME Init PROVE ScreensInv
  OBVIOUS
<1>1. \A t \in Numbers : Pages[t] \in Nat \ {0} BY PagesAssumption DEF Numbers
<1>2. Sound(screen, 2) BY NewSound DEF Init
<1>3. \A t \in Numbers : Sound(slideshow[t], Pages[t]) BY <1>1, NewSound DEF Init, Numbers
<1>4. {firstRun, taskWindow, inputWindow} \subseteq BOOLEAN BY DEF Init
<1>5. tab \in Numbers BY PagesAssumption DEF Init, Numbers
<1>6. slideshow = [t \in Numbers |-> slideshow[t]] BY DEF Init, Numbers
<1> QED BY <1>2, <1>3, <1>4, <1>5, <1>6 DEF ScreensInv

LEMMA ScreensInvariant == Spec => []ScreensInv
  BY InitScreens, StepScreens, PTL DEF Spec

(* The windows, tabs and pages keep their types: no tab or page is asked for that
   the tutorial does not have.                                              *)
THEOREM ScreensTyped == Spec => []TypeOK
<1>1. ScreensInv => TypeOK BY DEF ScreensInv, TypeOK, Sound, Numbers
<1> QED BY <1>1, ScreensInvariant, PTL

(* In every stack the current page is shown, and at rest no other is: the end of
   an animation never hides the page that is left, nor leaves two.          *)
THEOREM OnePageCorrect == Spec => []OnePage
<1>1. ScreensInv => OnePage BY DEF ScreensInv, OnePage, Stacks, Sound
<1> QED BY <1>1, ScreensInvariant, PTL

(* Sliding a page in, ending a slide and setting the current page never send a
   slide that is under way elsewhere.                                       *)
Same(s, r) == s.active /\ r.active => r.from = s.from /\ r.to = s.to

LEMMA OperationsKeep ==
  ASSUME NEW pages \in Nat \ {0}, NEW s, Sound(s, pages), NEW page
  PROVE  /\ Same(s, s) /\ Same(s, SlideIn(s, page)) /\ Same(s, SetCurrentIndex(s, page))
         /\ s.active => Same(s, AnimationDone(s))
<1>1. Same(s, s) /\ Same(s, SlideIn(s, page)) BY DEF Same, SlideIn
<1>2. Same(s, SetCurrentIndex(s, page)) BY DEF Same, SetCurrentIndex, Sound, Stack
<1>3. s.active => Same(s, AnimationDone(s)) BY DoneSound DEF Same
<1> QED BY <1>1, <1>2, <1>3

Kept == Same(screen, screen') /\ \A t \in Numbers : Same(slideshow[t], slideshow'[t])

LEMMA StepKeeps == ScreensInv /\ [Next]_vars => Kept
<1> SUFFICES ASSUME ScreensInv, [Next]_vars PROVE Kept
  OBVIOUS
<1> USE DEF ScreensInv, Kept
<1>1. \A page : /\ Same(screen, screen) /\ Same(screen, SlideIn(screen, page))
                /\ screen.active => Same(screen, AnimationDone(screen))
  BY OperationsKeep
<1>2. ASSUME NEW t \in Numbers
      PROVE  /\ Same(slideshow[t], slideshow[t])
             /\ \A page : /\ Same(slideshow[t], SlideIn(slideshow[t], page))
                          /\ Same(slideshow[t], SetCurrentIndex(slideshow[t], page))
             /\ slideshow[t].active => Same(slideshow[t], AnimationDone(slideshow[t]))
  BY PagesAssumption, OperationsKeep DEF Numbers
<1>3. DOMAIN slideshow = Numbers OBVIOUS
<1>4. TutorialReset => \A t \in Numbers : Same(slideshow[t], slideshow'[t])
  BY <1>2, <1>3 DEF TutorialReset
<1>5. UNCHANGED tutorial => \A t \in Numbers : Same(slideshow[t], slideshow'[t])
  BY <1>2 DEF tutorial
<1>6. ShowTaskWindow => Kept BY <1>1, <1>4, <1>5 DEF ShowTaskWindow
<1>7. CASE Show \/ HideTaskWindow \/ ToggleTaskWindow \/ ToggleInputWindow \/ ToggleBothWindows
  BY <1>1, <1>5, <1>6, <1>7
  DEF Show, HideTaskWindow, ToggleTaskWindow, ToggleInputWindow, ToggleBothWindows, tutorial
<1>8. CASE ShowTutorial
  <2>1. \A a, b \in {TASKS_PAGE, TUTORIAL_PAGE} :
          Same(screen, SlideIn(SlideIn(screen, a), b))
    <3> SUFFICES ASSUME NEW a \in {TASKS_PAGE, TUTORIAL_PAGE},
                        NEW b \in {TASKS_PAGE, TUTORIAL_PAGE}
                 PROVE  Same(screen, SlideIn(SlideIn(screen, a), b))
      OBVIOUS
    <3>1. Same(SlideIn(screen, a), SlideIn(SlideIn(screen, a), b))
      BY ScreenSound, OperationsKeep
    <3>2. screen.active => SlideIn(screen, a) = screen BY DEF SlideIn
    <3> QED BY <3>1, <3>2 DEF Same
  <2>2. Same(screen, screen') BY <1>1, <1>8, <2>1 DEF ShowTutorial
  <2> QED BY <1>4, <1>8, <2>2 DEF ShowTutorial
<1>9. CASE ShowListWidget \/ ChangeTabs
  BY <1>1, <1>2, <1>5, <1>9 DEF ShowListWidget, ChangeTabs, tutorial
<1>10. CASE GoNextPage \/ GoPrevPage
  <2>1. PICK page : Turn(page) BY <1>10 DEF GoNextPage, GoPrevPage
  <2> QED BY <1>1, <1>2, <1>3, <2>1 DEF Turn
<1>11. CASE ScreenDone BY <1>1, <1>5, <1>11 DEF ScreenDone
<1>12. ASSUME NEW t \in Numbers, SlideshowDone(t) PROVE Kept
  BY <1>1, <1>2, <1>3, <1>12 DEF SlideshowDone
<1>13. CASE UNCHANGED vars BY <1>1, <1>5, <1>13 DEF vars, tutorial
<1> QED
  BY <1>3, <1>7, <1>8, <1>9, <1>10, <1>11, <1>12, <1>13 DEF Next, User, Done

(* A request never redirects a slide that is under way: what it left and what it
   brings in stay what they are until it ends.                              *)
THEOREM NoReentranceCorrect == Spec => NoReentrance
<1>1. ScreensInv /\ [Next]_vars =>
        \A t \in DOMAIN slideshow :
          \A s \in {<<slideshow[t], slideshow'[t]>>, <<screen, screen'>>} :
            s[1].active /\ s[2].active =>
              s[2].from = s[1].from /\ s[2].to = s[1].to
  <2> SUFFICES ASSUME ScreensInv, [Next]_vars, NEW t \in DOMAIN slideshow,
                      NEW s \in {<<slideshow[t], slideshow'[t]>>, <<screen, screen'>>}
               PROVE  Same(s[1], s[2])
    BY DEF Same
  <2>1. Kept BY StepKeeps
  <2>2. t \in Numbers BY DEF ScreensInv
  <2> QED BY <2>1, <2>2 DEF Kept
<1> QED BY <1>1, ScreensInvariant, PTL DEF Spec, NoReentrance
=============================================================================
