-------------------------- MODULE InputEvaluation --------------------------
(***************************************************************************)
(* The evaluation of a command while it is typed (Tasuke.cpp 536 to 671,   *)
(* InputWindow.cpp, TooltipWidget.cpp).  Half a second after the last key  *)
(* a timer starts a thread that interprets the text without running it;    *)
(* the thread posts its result to the GUI thread, which shows it in the    *)
(* tooltip.  Meanwhile the user goes on typing, submits the text, or       *)
(* closes the box.                                                         *)
(*                                                                         *)
(* A handler of the GUI thread is one step.  The thread is not: it reads   *)
(* `input', which it shares with the GUI thread and no lock protects, once *)
(* to interpret it and once more to explain what is wrong with it.  A copy *)
(* of a string while it is assigned to is undefined; what the build can    *)
(* make of it is the old text, the new one, or the end of the program.     *)
(***************************************************************************)
EXTENDS Naturals, FiniteSets, Sequences

CONSTANTS
  Texts,    \* what a user types, besides nothing
  Bad,      \* the texts the interpreter refuses
  Fatal,    \* the texts interpreting which kills the program (`edit last')
  Threads   \* bound: names for the threads there can be at a time

NoText == ""   \* an empty box, an empty string

ASSUME TextsAssumption ==
  {NoText, "none"} \cap Texts = {} /\ Bad \subseteq Texts /\ Fatal \subseteq Texts
ASSUME ThreadsAssumption == IsFiniteSet(Threads)

VARIABLES
  line,     \* the text in the box
  visible,  \* the box is on the screen
  enabled,  \* InputWindow::showTooltip
  input,    \* Tasuke::input
  timer,    \* inputTimer is running
  locked,   \* Tasuke::mutex
  thread,   \* where each thread is
  queue,    \* tryFinish signals the GUI thread has not handled yet
  tip,      \* the tooltip
  refused,  \* history: the text was submitted as it stands, and refused
  lost      \* the program is dead

vars == <<line, visible, enabled, input, timer, locked, thread, queue, tip,
          refused, lost>>

(* What the tooltip says: how to write the command a text is, and what is wrong
   with a text.                                                            *)
Message == [of : Texts \cup {NoText}, error : Texts \cup {NoText, "none"}]
Format(text) == [of |-> text, error |-> "none"]
NoMessage == Format(NoText)

Idle == [at |-> "idle"]

Init ==
  /\ line = NoText /\ input = NoText /\ visible = FALSE
  /\ enabled \in BOOLEAN       \* the constructor does not set it
  /\ timer = FALSE /\ locked = FALSE /\ queue = <<>>
  /\ thread = [t \in Threads |-> Idle]
  /\ tip = [shown |-> FALSE, icon |-> "normal", message |-> NoMessage]
  /\ refused = FALSE /\ lost = FALSE

(* The icon always changes, the text only when there is one. *)
ShowTip(icon, message) ==
  tip' = [shown |-> TRUE, icon |-> icon,
          message |-> IF message = NoMessage THEN tip.message ELSE message]

HideTip == tip' = [tip EXCEPT !.shown = FALSE]

evaluation == <<locked, thread, queue>>

-----------------------------------------------------------------------------
(* The user. *)

(* Wrong on purpose: nothing is scheduled while an evaluation is underway. *)
InputChangedWhileBusy(text) ==
  /\ input' = text
  /\ IF text = NoText
     THEN HideTip /\ UNCHANGED timer
     ELSE ShowTip("normal", Format(text)) /\ timer' = (timer \/ ~locked)

InputChanged(text) ==
  /\ input' = text
  /\ IF text = NoText
     THEN HideTip /\ UNCHANGED timer
     ELSE ShowTip("normal", Format(text)) /\ timer' = TRUE

Type ==
  /\ visible
  /\ \E text \in (Texts \cup {NoText}) \ {line} :
       /\ line' = text
       /\ IF enabled THEN InputChanged(text) ELSE UNCHANGED <<input, tip, timer>>
  /\ refused' = FALSE
  /\ UNCHANGED <<visible, enabled, evaluation, lost>>

(* The box is hidden, which hides the tooltip, then cleared. *)
CloseAndClear ==
  /\ visible' = FALSE /\ line' = NoText /\ refused' = FALSE
  /\ HideTip
  /\ input' = IF enabled THEN NoText ELSE input

FocusOut ==
  /\ visible
  /\ CloseAndClear
  /\ UNCHANGED <<enabled, timer, evaluation, lost>>

(* runCommand() with a text that can be interpreted; the undo and redo keys do
   the same whatever is in the box, and in the task window too.            *)
Accept ==
  /\ timer' = FALSE
  /\ CloseAndClear
  /\ UNCHANGED <<enabled, evaluation, lost>>

(* The error message is formatted, then dropped by a comma operator. *)
Refuse ==
  /\ visible /\ line \in Bad
  /\ timer' = FALSE
  /\ ShowTip("failure", NoMessage)
  /\ refused' = TRUE
  /\ UNCHANGED <<line, visible, enabled, input, evaluation, lost>>

Die ==
  /\ visible /\ line \in Fatal
  /\ lost' = TRUE
  /\ UNCHANGED <<line, visible, enabled, input, timer, evaluation, tip, refused>>

(* The hot key shows and hides the box and leaves what is in it. *)
ToggleBox ==
  /\ visible' = ~visible
  /\ IF visible THEN HideTip ELSE UNCHANGED tip
  /\ UNCHANGED <<line, enabled, input, timer, evaluation, refused, lost>>

(* handleReloadFeatures; to get to the settings the user leaves the box. *)
SetFeatures ==
  /\ ~visible
  /\ enabled' \in BOOLEAN
  /\ UNCHANGED <<line, visible, input, timer, evaluation, tip, refused, lost>>

-----------------------------------------------------------------------------
(* handleInputTimeout(), of a single-shot timer. *)

(* Wrong on purpose: the evaluation is given up and not put off. *)
TimeoutBusyGivesUp ==
  /\ timer /\ locked
  /\ timer' = FALSE
  /\ UNCHANGED <<line, visible, enabled, input, evaluation, tip, refused, lost>>

TimeoutBusy == timer /\ locked /\ UNCHANGED vars

TimeoutEmpty ==
  /\ timer /\ ~locked /\ input = NoText
  /\ timer' = FALSE
  /\ HideTip
  /\ UNCHANGED <<line, visible, enabled, input, evaluation, refused, lost>>

(* Wrong on purpose: the lock is not tried. *)
TimeoutEvaluateUnlocked ==
  /\ timer /\ input # NoText
  /\ timer' = FALSE
  /\ locked' = TRUE
  /\ \E t \in Threads :
       /\ thread[t] = Idle
       /\ thread' = [thread EXCEPT ![t] = [at |-> "started"]]
  /\ UNCHANGED <<line, visible, enabled, input, queue, tip, refused, lost>>

TimeoutEvaluate ==
  /\ timer /\ ~locked /\ input # NoText
  /\ timer' = FALSE
  /\ locked' = TRUE
  /\ \E t \in Threads :
       /\ thread[t] = Idle
       /\ thread' = [thread EXCEPT ![t] = [at |-> "started"]]
  /\ UNCHANGED <<line, visible, enabled, input, queue, tip, refused, lost>>

Timeout == TimeoutEmpty \/ TimeoutEvaluate \/ TimeoutBusy

-----------------------------------------------------------------------------
(* The thread. *)

Goes(t, to) == thread' = [thread EXCEPT ![t] = to]
gui == <<line, visible, enabled, input, timer, locked, tip, refused>>

(* It begins to copy `input', to interpret it or to explain an error in it. *)
BeginCopy(t) ==
  /\ thread[t].at \in {"started", "failed"}
  /\ Goes(t, [at |-> "copying", old |-> input,
              error |-> IF thread[t].at = "failed" THEN thread[t].error ELSE "none"])
  /\ UNCHANGED <<gui, queue, lost>>

EndCopy(t) ==
  /\ thread[t].at = "copying"
  /\ \E text \in {thread[t].old, input} :
       Goes(t, [at |-> IF thread[t].error = "none" THEN "interpreting" ELSE "explaining",
                text |-> text, error |-> thread[t].error])
  /\ UNCHANGED <<gui, queue, lost>>

TearCopy(t) ==
  /\ thread[t].at = "copying" /\ thread[t].old # input
  /\ lost' = TRUE
  /\ UNCHANGED <<gui, thread, queue>>

Post(t, icon, message) ==
  /\ queue' = Append(queue, [icon |-> icon, message |-> message])
  /\ Goes(t, Idle)
  /\ UNCHANGED <<gui, lost>>

(* An empty text, copied just after the box was emptied, is refused too. *)
IsRefused(text) == text \in Bad \cup {NoText}

Succeed(t) ==
  /\ thread[t].at = "interpreting"
  /\ ~IsRefused(thread[t].text) /\ thread[t].text \notin Fatal
  /\ Post(t, "success", NoMessage)

Fail(t) ==
  /\ thread[t].at = "interpreting" /\ IsRefused(thread[t].text)
  /\ Goes(t, [at |-> "failed", error |-> thread[t].text])
  /\ UNCHANGED <<gui, queue, lost>>

Kill(t) ==
  /\ thread[t].at = "interpreting" /\ thread[t].text \in Fatal
  /\ lost' = TRUE
  /\ UNCHANGED <<gui, thread, queue>>

(* Wrong on purpose: the error is left out of the message. *)
ExplainNothing(t) ==
  /\ thread[t].at = "explaining"
  /\ Post(t, "normal", Format(thread[t].text))

Explain(t) ==
  /\ thread[t].at = "explaining"
  /\ Post(t, "normal", [of |-> thread[t].text, error |-> thread[t].error])

Evaluate(t) ==
  \/ BeginCopy(t) \/ EndCopy(t) \/ TearCopy(t)
  \/ Succeed(t) \/ Fail(t) \/ Kill(t) \/ Explain(t)

-----------------------------------------------------------------------------
(* handleTryFinish(). *)

(* Wrong on purpose: the tooltip is shown whether or not the box is. *)
TryFinishUnseen ==
  /\ queue # <<>>
  /\ IF input # NoText THEN ShowTip(Head(queue).icon, Head(queue).message)
                   ELSE UNCHANGED tip
  /\ queue' = Tail(queue)
  /\ locked' = FALSE
  /\ UNCHANGED <<line, visible, enabled, input, timer, thread, refused, lost>>

TryFinish ==
  /\ queue # <<>>
  /\ IF visible /\ input # NoText
     THEN ShowTip(Head(queue).icon, Head(queue).message) ELSE UNCHANGED tip
  /\ queue' = Tail(queue)
  /\ locked' = FALSE
  /\ UNCHANGED <<line, visible, enabled, input, timer, thread, refused, lost>>

-----------------------------------------------------------------------------
User == ~lost /\ (Type \/ FocusOut \/ Accept \/ Refuse \/ Die \/ ToggleBox \/ SetFeatures)

Step(t) == ~lost /\ Evaluate(t)

Gui == ~lost /\ (Timeout \/ TryFinish)

Dead == lost /\ UNCHANGED vars

Next == User \/ (\E t \in Threads : Step(t)) \/ Gui \/ Dead

(* Timers fire, posted signals are delivered and threads are scheduled; a user
   need not do anything.                                                   *)
Fairness ==
  /\ WF_vars(~lost /\ Timeout) /\ WF_vars(~lost /\ TryFinish)
  /\ \A t \in Threads : WF_vars(Step(t))

Spec == Init /\ [][Next]_vars /\ Fairness

-----------------------------------------------------------------------------
(* Every variable has its type: a text that is judged good comes with no message,
   one that is refused with what is wrong with it.                         *)
Result ==
  {[icon |-> "success", message |-> NoMessage]}
  \cup [icon : {"normal"}, message : [of : Texts \cup {NoText}, error : Texts \cup {NoText}]]

TypeOK ==
  /\ line \in Texts \cup {NoText} /\ input \in Texts \cup {NoText}
  /\ {visible, enabled, timer, locked, refused, lost} \subseteq BOOLEAN
  /\ \A t \in Threads :
       thread[t].at \in {"idle", "started", "copying", "interpreting", "failed", "explaining"}
  /\ queue \in Seq(Result)
  /\ tip \in [shown : BOOLEAN, icon : {"normal", "success", "failure"}, message : Message]

(* The mutex is held exactly while one thread runs or its one result waits to be
   handled: two never run at a time, and handleTryFinish, which asserts that
   the mutex is held before it gives it up, never finds it free.           *)
OneEvaluation ==
  Cardinality({t \in Threads : thread[t] # Idle}) + Len(queue)
    = IF locked THEN 1 ELSE 0

(* A result that comes in after the box was closed does not bring back the
   tooltip.                                                                *)
TipNeedsBox == tip.shown => visible

Icon(text) == IF text \in Bad THEN "normal" ELSE "success"

Judged(text) ==
  /\ tip.shown /\ tip.icon = Icon(text)
  /\ text \in Bad => tip.message = [of |-> text, error |-> text]

(* A text that has been typed and is waiting to be evaluated gets its judgement,
   unless the user changes it, closes the box or submits it first.         *)
Answered ==
  \A text \in Texts :
    (input = text /\ timer) ~> (Judged(text) \/ input # text \/ ~visible
                                 \/ refused \/ ~enabled \/ lost)

(* Once the user lets it be, whatever was typed, closed and submitted before,
   the tooltip settles on the judgement of the text there is, however many
   results of earlier texts were on their way.  The tooltip must not have been
   switched off in the settings: then `input' is not what is in the box.   *)
Settles ==
  []enabled /\ <>[][~User]_vars =>
    <>[](tip.shown /\ ~refused /\ ~lost => line = input /\ Judged(input))

(* "if gui enabled, display the error in tooltip": of the text just refused. *)
RefusalExplained ==
  [][User /\ ~refused /\ refused' => tip'.message = [of |-> line, error |-> line]]_vars
=============================================================================
