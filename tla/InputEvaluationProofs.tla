----------------------- MODULE InputEvaluationProofs -----------------------
(***************************************************************************)
(* Proofs about the evaluation of a text while it is typed, whatever the   *)
(* texts are, and however many names there are for threads.                *)
(***************************************************************************)
EXTENDS InputEvaluation, FiniteSetTheorems, SequenceTheorems, TLAPS

Any == Texts \cup {NoText}

(* Where a thread is, and what it has read by then: the error is "none" until the
   text has been refused, and is that text from then on.                    *)
Idling == [at : {"idle"}]
Started == [at : {"started"}]
Failed == [at : {"failed"}, error : Any]
Copying == [at : {"copying"}, old : Any, error : Any \cup {"none"}]
Interpreting == [at : {"interpreting"}, text : Any, error : {"none"}]
Explaining == [at : {"explaining"}, text : Any, error : Any]
Busy == Started \cup Failed \cup Copying \cup Interpreting \cup Explaining

(* The mutex is held for one thread, until it has posted, and then for its result,
   until that is handled.                                                   *)
AtWork == {t \in Threads : thread[t] # Idle}
OneAtWork ==
  IF locked
  THEN \/ queue = <<>> /\ \E t \in Threads : AtWork = {t}
       \/ Len(queue) = 1 /\ AtWork = {}
  ELSE queue = <<>> /\ AtWork = {}

ThreadsInv ==
  /\ thread \in [Threads -> Idling \cup Busy]
  /\ queue \in Seq(Result)
  /\ locked \in BOOLEAN
  /\ OneAtWork

ScreenInv ==
  /\ line \in Any /\ input \in Any
  /\ visible \in BOOLEAN /\ enabled \in BOOLEAN /\ timer \in BOOLEAN
  /\ refused \in BOOLEAN /\ lost \in BOOLEAN
  /\ tip \in [shown : BOOLEAN, icon : {"normal", "success", "failure"}, message : Message]
  /\ tip.shown => visible

-----------------------------------------------------------------------------
(* A thread is idle if and only if that is where it is. *)
LEMMA BusyIsNotIdle ==
  /\ Idle \in Idling /\ \A r \in Idling : r = Idle
  /\ \A r \in Busy : r # Idle /\ r.at # "idle"
<1>1. \A r \in Busy : r.at # "idle"
  BY DEF Busy, Started, Failed, Copying, Interpreting, Explaining
<1>2. Idle.at = "idle" BY DEF Idle
<1> QED BY <1>1, <1>2 DEF Idling, Idle

(* A thread is at work alone, goes on, and nothing has been posted. *)
LEMMA GoesOn ==
  ASSUME ThreadsInv, NEW t \in Threads, thread[t] # Idle, NEW to \in Busy,
         Goes(t, to), UNCHANGED <<queue, locked>>
  PROVE  ThreadsInv'
<1>1. AtWork = {t} /\ queue = <<>> /\ locked BY DEF ThreadsInv, OneAtWork, AtWork
<1>2. thread' \in [Threads -> Idling \cup Busy] BY DEF ThreadsInv, Goes
<1>3. \A u \in Threads : thread'[u] = IF u = t THEN to ELSE thread[u]
  BY DEF ThreadsInv, Goes
<1>4. AtWork' = {t} BY <1>1, <1>3, BusyIsNotIdle DEF AtWork
<1> QED BY <1>1, <1>2, <1>4 DEF ThreadsInv, OneAtWork

(* It posts its result, and is done. *)
LEMMA PostEnds ==
  ASSUME ThreadsInv, NEW t \in Threads, thread[t] # Idle, NEW icon, NEW message,
         [icon |-> icon, message |-> message] \in Result, Post(t, icon, message)
  PROVE  ThreadsInv'
<1>1. AtWork = {t} /\ queue = <<>> /\ locked BY DEF ThreadsInv, OneAtWork, AtWork
<1>2. thread' \in [Threads -> Idling \cup Busy]
  BY BusyIsNotIdle DEF ThreadsInv, Goes, Post
<1>3. \A u \in Threads : thread'[u] = IF u = t THEN Idle ELSE thread[u]
  BY DEF ThreadsInv, Goes, Post
<1>4. AtWork' = {} BY <1>1, <1>3 DEF AtWork
<1>5. queue' \in Seq(Result) /\ Len(queue') = 1 BY <1>1 DEF ThreadsInv, Post
<1>6. locked' = locked BY DEF Post, gui
<1> QED BY <1>1, <1>2, <1>4, <1>5, <1>6 DEF ThreadsInv, OneAtWork

(* What the thread reads of `input', and what it makes of it. *)
LEMMA EvaluateKeeps ==
  ASSUME ThreadsInv, ScreenInv, NEW t \in Threads, Evaluate(t)
  PROVE  ThreadsInv'
<1> DEFINE r == thread[t]
<1>1. r \in Idling \cup Busy BY DEF ThreadsInv
<1>2. input \in Any BY DEF ScreenInv
<1>3. r.at # "idle" => r \in Busy /\ r # Idle BY <1>1, BusyIsNotIdle DEF Idling
<1>4. CASE BeginCopy(t)
  <2> DEFINE to == [at |-> "copying", old |-> input,
                    error |-> IF r.at = "failed" THEN r.error ELSE "none"]
  <2>1. r.at = "failed" => r.error \in Any
    BY <1>1 DEF Idling, Busy, Started, Failed, Copying, Interpreting, Explaining
  <2>2. to \in Busy BY <1>2, <2>1 DEF Busy, Copying
  <2>3. Goes(t, to) /\ UNCHANGED <<queue, locked>> /\ r # Idle
    BY <1>3, <1>4 DEF BeginCopy, gui
  <2> QED BY <2>2, <2>3, GoesOn
<1>5. CASE EndCopy(t)
  <2>1. r \in Copying /\ r # Idle
    BY <1>1, <1>3, <1>5
    DEF EndCopy, Idling, Busy, Started, Failed, Copying, Interpreting, Explaining
  <2>2. PICK text \in {r.old, input} :
          Goes(t, [at |-> IF r.error = "none" THEN "interpreting" ELSE "explaining",
                   text |-> text, error |-> r.error])
    BY <1>5 DEF EndCopy
  <2>3. text \in Any BY <1>2, <2>1 DEF Copying
  <2>4. [at |-> IF r.error = "none" THEN "interpreting" ELSE "explaining",
         text |-> text, error |-> r.error] \in Busy
    BY <2>1, <2>3 DEF Copying, Interpreting, Explaining, Busy
  <2>5. UNCHANGED <<queue, locked>> BY <1>5 DEF EndCopy, gui
  <2> QED BY <2>1, <2>2, <2>4, <2>5, GoesOn
<1>6. CASE TearCopy(t) \/ Kill(t)
  BY <1>6 DEF TearCopy, Kill, gui, ThreadsInv, OneAtWork, AtWork
<1>7. CASE Succeed(t)
  <2>1. [icon |-> "success", message |-> NoMessage] \in Result BY DEF Result
  <2> QED BY <1>3, <1>7, <2>1, PostEnds DEF Succeed
<1>8. CASE Fail(t)
  <2>1. r \in Interpreting /\ r # Idle
    BY <1>1, <1>3, <1>8
    DEF Fail, Idling, Busy, Started, Failed, Copying, Interpreting, Explaining
  <2>2. [at |-> "failed", error |-> r.text] \in Busy
    BY <2>1 DEF Interpreting, Failed, Busy
  <2> QED BY <1>8, <2>1, <2>2, GoesOn DEF Fail, gui
<1>9. CASE Explain(t)
  <2>1. r \in Explaining /\ r # Idle
    BY <1>1, <1>3, <1>9
    DEF Explain, Idling, Busy, Started, Failed, Copying, Interpreting, Explaining
  <2>2. [icon |-> "normal", message |-> [of |-> r.text, error |-> r.error]] \in Result
    BY <2>1 DEF Explaining, Result, Any
  <2> QED BY <1>9, <2>1, <2>2, PostEnds DEF Explain
<1> QED BY <1>4, <1>5, <1>6, <1>7, <1>8, <1>9 DEF Evaluate

-----------------------------------------------------------------------------
(* The tooltip, shown or hidden, keeps its type. *)
LEMMA TipTyped ==
  ASSUME ScreenInv
  PROVE  /\ \A text \in Any : Format(text) \in Message
         /\ \A icon \in {"normal", "success", "failure"}, message \in Message :
              ShowTip(icon, message) =>
                /\ tip'.shown
                /\ tip' \in [shown : BOOLEAN, icon : {"normal", "success", "failure"},
                             message : Message]
         /\ HideTip =>
              /\ ~tip'.shown
              /\ tip' \in [shown : BOOLEAN, icon : {"normal", "success", "failure"},
                           message : Message]
<1> DEFINE Tips == [shown : BOOLEAN, icon : {"normal", "success", "failure"},
                    message : Message]
<1>1. tip \in Tips BY DEF ScreenInv
<1>2. \A text \in Any : Format(text) \in Message BY DEF Format, Message, Any
<1>3. ASSUME NEW icon \in {"normal", "success", "failure"}, NEW message \in Message,
             ShowTip(icon, message)
      PROVE  tip'.shown /\ tip' \in Tips
  <2>1. tip.message \in Message BY <1>1
  <2> QED BY <1>3, <2>1 DEF ShowTip
<1>4. HideTip => ~tip'.shown /\ tip' \in Tips BY <1>1 DEF HideTip
<1> QED BY <1>2, <1>3, <1>4

(* The user does what cannot disturb the threads. *)
LEMMA UserKeeps ==
  ASSUME ScreenInv, Type \/ FocusOut \/ Accept \/ Refuse \/ Die \/ ToggleBox \/ SetFeatures
  PROVE  ScreenInv' /\ UNCHANGED evaluation
<1>1. CASE Type
  <2>1. PICK text \in Any : /\ line' = text
                            /\ IF enabled THEN InputChanged(text)
                                          ELSE UNCHANGED <<input, tip, timer>>
    BY <1>1 DEF Type, Any
  <2>2. visible /\ refused' = FALSE /\ UNCHANGED <<visible, enabled, evaluation, lost>>
    BY <1>1 DEF Type
  <2>3. CASE enabled /\ text = NoText
    BY <2>1, <2>2, <2>3, TipTyped DEF InputChanged, ScreenInv, evaluation
  <2>4. CASE enabled /\ text # NoText
    <3>1. Format(text) \in Message BY TipTyped
    <3>2. ShowTip("normal", Format(text)) /\ input' = text /\ timer' = TRUE
      BY <2>1, <2>4 DEF InputChanged
    <3> QED BY <2>1, <2>2, <3>1, <3>2, TipTyped DEF ScreenInv, evaluation
  <2>5. CASE ~enabled BY <2>1, <2>2, <2>5 DEF ScreenInv, evaluation
  <2> QED BY <2>3, <2>4, <2>5
<1>2. CASE FocusOut \/ Accept
  BY <1>2, TipTyped DEF FocusOut, Accept, CloseAndClear, ScreenInv, evaluation, Any
<1>3. CASE Refuse
  <2>1. NoMessage \in Message BY TipTyped DEF NoMessage, Any
  <2> QED BY <1>3, <2>1, TipTyped DEF Refuse, ScreenInv, evaluation
<1>4. CASE Die BY <1>4 DEF Die, ScreenInv, evaluation
<1>5. CASE ToggleBox BY <1>5, TipTyped DEF ToggleBox, ScreenInv, evaluation
<1>6. CASE SetFeatures BY <1>6 DEF SetFeatures, ScreenInv, evaluation
<1> QED BY <1>1, <1>2, <1>3, <1>4, <1>5, <1>6

LEMMA TimeoutKeeps ==
  ASSUME ThreadsInv, ScreenInv, Timeout
  PROVE  ThreadsInv' /\ ScreenInv'
<1>1. CASE TimeoutEmpty
  <2>1. ScreenInv' BY <1>1, TipTyped DEF TimeoutEmpty, ScreenInv
  <2>2. ThreadsInv' BY <1>1 DEF TimeoutEmpty, evaluation, ThreadsInv, OneAtWork, AtWork
  <2> QED BY <2>1, <2>2
<1>2. CASE TimeoutEvaluate
  <2>1. ScreenInv' BY <1>2 DEF TimeoutEvaluate, ScreenInv
  <2>2. PICK t \in Threads : thread[t] = Idle /\ thread' = [thread EXCEPT ![t] = [at |-> "started"]]
    BY <1>2 DEF TimeoutEvaluate
  <2>3. [at |-> "started"] \in Busy BY DEF Busy, Started
  <2>4. AtWork = {} /\ queue = <<>> BY <1>2 DEF TimeoutEvaluate, ThreadsInv, OneAtWork
  <2>5. \A u \in Threads : thread'[u] = IF u = t THEN [at |-> "started"] ELSE thread[u]
    BY <2>2 DEF ThreadsInv
  <2>6. AtWork' = {t} BY <2>3, <2>4, <2>5, BusyIsNotIdle DEF AtWork
  <2>7. thread' \in [Threads -> Idling \cup Busy] BY <2>2, <2>3 DEF ThreadsInv
  <2>8. locked' = TRUE /\ queue' = queue BY <1>2 DEF TimeoutEvaluate
  <2> QED BY <2>1, <2>4, <2>6, <2>7, <2>8 DEF ThreadsInv, OneAtWork
<1>3. CASE TimeoutBusy
  BY <1>3 DEF TimeoutBusy, vars, ThreadsInv, OneAtWork, AtWork, ScreenInv
<1> QED BY <1>1, <1>2, <1>3 DEF Timeout

(* The result that is handled is the only one, and nobody is at work. *)
LEMMA TryFinishKeeps ==
  ASSUME ThreadsInv, ScreenInv, TryFinish
  PROVE  ThreadsInv' /\ ScreenInv'
<1>1. queue # <<>> BY DEF TryFinish
<1>2. Len(queue) = 1 /\ AtWork = {} BY <1>1 DEF ThreadsInv, OneAtWork
<1>3. Head(queue) \in Result BY <1>1, HeadTailProperties DEF ThreadsInv
<1>4. queue' = <<>>
  <2>1. Tail(queue) \in Seq(Result) /\ Len(Tail(queue)) = 0
    BY <1>1, <1>2, HeadTailProperties DEF ThreadsInv
  <2> QED BY <2>1, EmptySeq DEF TryFinish
<1>5. ThreadsInv'
  BY <1>2, <1>4, EmptySeq DEF TryFinish, ThreadsInv, OneAtWork, AtWork
<1>6. /\ Head(queue).icon \in {"normal", "success", "failure"}
      /\ Head(queue).message \in Message
  BY <1>3 DEF Result, Message, NoMessage, Format
<1>7. ScreenInv' BY <1>6, TipTyped DEF TryFinish, ScreenInv
<1> QED BY <1>5, <1>7

Inv == ThreadsInv /\ ScreenInv

LEMMA InitInv == Init => Inv
<1> SUFFICES ASSUME Init PROVE Inv
  OBVIOUS
<1>1. ScreenInv BY DEF Init, ScreenInv, Any, NoMessage, Format, Message
<1>2. AtWork = {} BY DEF Init, AtWork
<1>3. thread \in [Threads -> Idling \cup Busy] BY BusyIsNotIdle DEF Init
<1>4. ThreadsInv BY <1>2, <1>3, EmptySeq DEF Init, ThreadsInv, OneAtWork
<1> QED BY <1>1, <1>4 DEF Inv

LEMMA StepInv == Inv /\ [Next]_vars => Inv'
<1> SUFFICES ASSUME ThreadsInv, ScreenInv, [Next]_vars PROVE ThreadsInv' /\ ScreenInv'
  BY DEF Inv
<1>1. CASE User
  <2>1. ScreenInv' /\ UNCHANGED evaluation BY <1>1, UserKeeps DEF User
  <2> QED BY <2>1 DEF evaluation, ThreadsInv, OneAtWork, AtWork
<1>2. ASSUME NEW t \in Threads, Step(t) PROVE ThreadsInv' /\ ScreenInv'
  <2>1. ThreadsInv' BY <1>2, EvaluateKeeps DEF Step
  <2>2. UNCHANGED gui /\ lost' \in BOOLEAN
    BY <1>2 DEF Step, Evaluate, BeginCopy, EndCopy, TearCopy, Succeed, Fail, Kill, Explain,
                Post, ScreenInv
  <2> QED BY <2>1, <2>2 DEF gui, ScreenInv
<1>3. CASE Gui BY <1>3, TimeoutKeeps, TryFinishKeeps DEF Gui
<1>4. CASE Dead \/ UNCHANGED vars
  BY <1>4 DEF Dead, vars, ThreadsInv, OneAtWork, AtWork, ScreenInv
<1> QED BY <1>1, <1>2, <1>3, <1>4 DEF Next

LEMMA Invariant == Spec => []Inv
  BY InitInv, StepInv, PTL DEF Spec

(* Every variable keeps its type: a thread explains an error only of a text it has
   found refused, and what it posts is a judgement the tooltip can show.    *)
THEOREM EvaluationTyped == Spec => []TypeOK
<1>1. Inv => TypeOK
  <2> SUFFICES ASSUME Inv PROVE TypeOK
    OBVIOUS
  <2>1. \A t \in Threads :
          thread[t].at \in {"idle", "started", "copying", "interpreting", "failed", "explaining"}
    <3> TAKE t \in Threads
    <3>1. thread[t] \in Idling \cup Busy BY DEF Inv, ThreadsInv
    <3> QED BY <3>1
        DEF Idling, Busy, Started, Failed, Copying, Interpreting, Explaining
  <2>2. {visible, enabled, timer, locked, refused, lost} \subseteq BOOLEAN
    BY DEF Inv, ThreadsInv, ScreenInv
  <2> QED BY <2>1, <2>2 DEF Inv, ThreadsInv, ScreenInv, TypeOK, Any
<1> QED BY <1>1, Invariant, PTL

(* Two threads never evaluate at a time, nor one while a result waits; the mutex is
   held exactly as long as either.                                          *)
THEOREM OneEvaluationCorrect == Spec => []OneEvaluation
<1>1. Inv => OneEvaluation
  <2> SUFFICES ASSUME Inv PROVE OneEvaluation
    OBVIOUS
  <2>1. OneAtWork /\ queue \in Seq(Result) BY DEF Inv, ThreadsInv
  <2>2. Cardinality({}) = 0 BY FS_EmptySet
  <2>3. \A t : Cardinality({t}) = 1 BY FS_Singleton
  <2>4. Len(<<>>) = 0 OBVIOUS
  <2>5. Cardinality(AtWork) + Len(queue) = IF locked THEN 1 ELSE 0
    <3>1. CASE locked /\ queue = <<>> /\ \E t \in Threads : AtWork = {t}
      <4>1. Cardinality(AtWork) = 1 BY <2>3, <3>1
      <4> QED BY <2>4, <3>1, <4>1
    <3>2. CASE locked /\ Len(queue) = 1 /\ AtWork = {}
      BY <2>2, <3>2
    <3>3. CASE ~locked
      BY <2>1, <2>2, <2>4, <3>3 DEF OneAtWork
    <3> QED BY <2>1, <3>1, <3>2, <3>3 DEF OneAtWork
  <2> QED BY <2>5 DEF OneEvaluation, AtWork
<1> QED BY <1>1, Invariant, PTL

(* No result, however late, shows the tooltip of a box that is not there. *)
THEOREM TipNeedsBoxCorrect == Spec => []TipNeedsBox
<1>1. Inv => TipNeedsBox BY DEF Inv, ScreenInv, TipNeedsBox
<1> QED BY <1>1, Invariant, PTL
=============================================================================
