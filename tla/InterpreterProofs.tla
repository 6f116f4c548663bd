------------------------- MODULE InterpreterProofs -------------------------
(***************************************************************************)
(* Proofs about the interpreter, for any number of threads, any words and  *)
(* a text of any length: the lists of date formats are made once and never *)
(* read half made, so that every time is read by the same rules; a text is *)
(* refused for what it says and for nothing else, and what comes of it is  *)
(* what it says, in whatever order its parts are applied.                  *)
(***************************************************************************)
EXTENDS DateFormats, CommandText, FiniteSetTheorems, SequenceTheorems,
        WellFoundedInduction, TLAPS

(***************************************************************************)
(* The date formats (DateFormats).                                         *)
(***************************************************************************)
Inside == Generating \cup {"checking", "made", "leaving"}
Making == Generating \cup {"made"}

(* The types of the variables, but for what is in the lists; a thread that reads
   has a text to read.                                                     *)
Typed ==
  /\ formatsAlreadyInit \in BOOLEAN /\ holder \in Threads \cup {Nobody}
  /\ today \in 0 .. MaxDay
  /\ thread \in [Threads -> Reader]
  /\ \A t \in Parsers :
       thread[t].at # "idle" =>
         thread[t].period \in Period /\ thread[t].period[thread[t].part] \in Text
  /\ thread[Startup].at \in Inside \cup {"entering", "ended"}

(* Who is inside initFormats() holds the mutex, whoever is making the lists found
   the flag down, and whoever is past that found it up.                    *)
Excluded ==
  /\ \A t \in Threads : thread[t].at \in Inside => holder = t
  /\ \A t \in Threads : thread[t].at \in Making => ~formatsAlreadyInit
  /\ \A t \in Threads :
       thread[t].at \in {"leaving", "searching"} => formatsAlreadyInit

(* A thread that has read nothing is typed. *)
LEMMA NowhereTyped == Nowhere \in Reader
<1>1. Unread \in [begin : Moment, end : Moment]
  BY DEF Unread, Moment
<1> QED
  BY <1>1 DEF Nowhere, Reader, Place

(* What is to be read is one text or more, the last of which is the end. *)
LEMMA PeriodsTyped ==
  ASSUME NEW typed \in Periods
  PROVE  /\ typed \in Seq(Text) /\ Len(typed) \in Nat \ {0}
         /\ DOMAIN typed = 1 .. Len(typed)
         /\ \A i \in DOMAIN typed : typed[i] \in Text
<1>1. typed \in Seq(Text) /\ typed # <<>>
  BY PeriodsAssumption
<1>2. Len(typed) \in Nat /\ DOMAIN typed = 1 .. Len(typed)
  BY <1>1
<1>3. Len(typed) # 0
  BY <1>1
<1>4. \A i \in DOMAIN typed : typed[i] \in Text
  BY <1>1
<1> QED
  BY <1>1, <1>2, <1>3, <1>4

(* The halves of a date with a dash are texts too. *)
LEMMA HalvesTyped ==
  /\ Unreadable \in Text /\ \A time \in {"clock", "clock_ap"} : TimesOf(time) \subseteq Text
  /\ \A said : Halves(said) \subseteq Period
<1>1. \A time \in {"none", "clock", "clock_ap"} : Dateless(time) \in Form
  BY DEF Dateless, Form
<1>2. Unreadable \in Text
  BY <1>1, ClockAssumption DEF Unreadable, Text
<1>3. \A time \in {"clock", "clock_ap"} : TimesOf(time) \subseteq Text
  <2> SUFFICES ASSUME NEW time \in {"clock", "clock_ap"}, NEW x \in TimesOf(time) PROVE x \in Text
    OBVIOUS
  <2>1. Dateless(time) \in Form
    BY <1>1
  <2>2. \E h \in 0 .. MaxHour :
          x = [form |-> Dateless(time), named |-> FALSE, day |-> 0, hour |-> h]
    BY DEF TimesOf
  <2> QED
    BY <2>1, <2>2 DEF Text
<1>4. ASSUME NEW said, NEW p \in Halves(said) PROVE p \in Period
  <2>1. \E b, e \in Text : p = [begin |-> b, end |-> e]
    BY <1>2, <1>3, <1>4 DEF Halves
  <2> QED
    BY <2>1 DEF Period
<1> QED
  BY <1>2, <1>3, <1>4

(* Whatever is typed is split into a period, unless there are too many parts. *)
LEMMA SplitTyped ==
  ASSUME NEW typed \in Periods, ~TooManyParts(typed), NEW p \in Split(typed)
  PROVE  p \in Period
<1>1. CASE HasDash(typed)
  BY <1>1, HalvesTyped DEF Split
<1>2. CASE ~HasDash(typed)
  <2>1. p = AsTyped(typed)
    BY <1>2 DEF Split
  <2>2. Len(typed) \in DOMAIN typed /\ (Len(typed) = 2 => 1 \in DOMAIN typed)
    BY PeriodsTyped
  <2>3. typed[Len(typed)] \in Text /\ (Len(typed) = 2 => typed[1] \in Text)
    BY <2>2, PeriodsTyped
  <2> QED
    BY <2>1, <2>3 DEF AsTyped, Period
<1> QED
  BY <1>1, <1>2

(* The initial states are typed. *)
LEMMA InitTyped == Init => Typed
<1> SUFFICES ASSUME Init PROVE Typed
  OBVIOUS
<1>1. Nowhere \in Reader
  BY NowhereTyped
<1>2. [Nowhere EXCEPT !.at = "entering"] \in Reader
  BY <1>1 DEF Reader, Place
<1>3. \A t \in Threads : thread[t] = IF t = Startup THEN [Nowhere EXCEPT !.at = "entering"]
                                                    ELSE Nowhere
  BY DEF Init
<1>4. thread \in [Threads -> Reader]
  BY <1>1, <1>2, <1>3 DEF Init
<1>5. \A t \in Parsers : thread[t].at = "idle"
  BY <1>3, ThreadsAssumption DEF Threads, Nowhere
<1>6. thread[Startup].at = "entering"
  BY <1>3 DEF Threads, Nowhere
<1>7. formatsAlreadyInit \in BOOLEAN /\ holder \in Threads \cup {Nobody}
  BY DEF Init
<1>8. today \in 0 .. MaxDay
  BY ClockAssumption DEF Init
<1> QED
  BY <1>4, <1>5, <1>6, <1>7, <1>8 DEF Typed

(* A thread that goes from one place to another keeps what it has read. *)
LEMMA GoesTyped ==
  ASSUME Typed, NEW t \in Threads, NEW from, NEW to \in Place, Goes(t, from, to),
         from # "idle", t = Startup => to \in Inside \cup {"entering", "ended"}
  PROVE  /\ thread' \in [Threads -> Reader]
         /\ thread'[t].at = to
         /\ \A u \in Threads : u # t => thread'[u] = thread[u]
         /\ \A u \in Parsers :
              thread'[u].at # "idle" =>
                thread'[u].period \in Period /\ thread'[u].period[thread'[u].part] \in Text
         /\ thread'[Startup].at \in Inside \cup {"entering", "ended"}
<1> DEFINE gone == [thread[t] EXCEPT !.at = to]
<1>1. thread[t] \in Reader
  BY DEF Typed
<1>2. gone \in Reader /\ gone.at = to /\ gone.period = thread[t].period /\ gone.part = thread[t].part
  BY <1>1 DEF Reader
<1>3. thread' = [thread EXCEPT ![t] = gone] /\ thread[t].at = from
  BY DEF Goes
<1> HIDE DEF gone
<1>4. thread' \in [Threads -> Reader] /\ thread'[t] = gone
      /\ \A u \in Threads : u # t => thread'[u] = thread[u]
  BY <1>2, <1>3 DEF Typed
<1>5. Parsers \subseteq Threads /\ Startup \in Threads
  BY DEF Threads
<1>6. ASSUME NEW u \in Parsers, thread'[u].at # "idle"
      PROVE  thread'[u].period \in Period /\ thread'[u].period[thread'[u].part] \in Text
  <2>1. CASE u = t
    BY <2>1, <1>2, <1>3, <1>4, <1>6 DEF Typed
  <2>2. CASE u # t
    BY <2>2, <1>4, <1>5, <1>6 DEF Typed
  <2> QED BY <2>1, <2>2
<1>7. thread'[Startup].at \in Inside \cup {"entering", "ended"}
  BY <1>2, <1>4, <1>5 DEF Typed
<1> QED
  BY <1>2, <1>4, <1>6, <1>7

(* What is read of a text is a moment or nothing. *)
LEMMA ParseDateTyped ==
  ASSUME NEW said \in Text, NEW part \in {"begin", "end"}, NEW day \in Nat
  PROVE  ParseDate(said, part, day) \in Moment
<1>1. \A d \in Nat, h \in 0 .. MaxHour : At(d, h) \in Moment
  BY DEF At, Moment
<1>2. said.hour \in 0 .. MaxHour /\ said.day \in Nat
  BY DEF Text
<1>3. DefaultHour(part) \in 0 .. MaxHour
  BY ClockAssumption DEF DefaultHour
<1>4. SaidDay(said, day) \in Nat
  BY <1>2 DEF SaidDay
<1>5. Invalid \in Moment
  BY DEF Moment
<1> QED
  BY <1>1, <1>2, <1>3, <1>4, <1>5 DEF ParseDate

(* A step of initFormats() goes on, inside or out of it. *)
LEMMA InitFormatsMoves ==
  ASSUME NEW t \in Threads, InitFormats(t)
  PROVE  \E from \in Inside \cup {"entering"}, to \in Inside \cup {"searching", "ended"} :
           Goes(t, from, to) /\ (t = Startup => to # "searching")
<1> DEFINE Moves(from, to) ==
             /\ from \in Inside \cup {"entering"} /\ to \in Inside \cup {"searching", "ended"}
             /\ Goes(t, from, to) /\ (t = Startup => to # "searching")
<1>1. CASE Enter(t)
  <2>1. Moves("entering", "checking")
    BY <1>1 DEF Enter, Inside
  <2> QED BY <2>1
<1>2. CASE Check(t)
  <2>1. Moves("checking", IF formatsAlreadyInit THEN "leaving" ELSE "time")
    BY <1>2 DEF Check, Inside, Generating
  <2> QED BY <2>1
<1>3. CASE SetInit(t)
  <2>1. Moves("made", "leaving")
    BY <1>3 DEF SetInit, Inside
  <2> QED BY <2>1
<1>4. CASE Leave(t)
  <2>1. Moves("leaving", IF t = Startup THEN "ended" ELSE "searching")
    BY <1>4 DEF Leave, Inside
  <2> QED BY <2>1
<1>5. CASE GenerateTimeFormats(t)
  <2>1. Moves("time", "date_without_year")
    BY <1>5 DEF GenerateTimeFormats, Adds, Inside, Generating
  <2> QED BY <2>1
<1>6. CASE GenerateDateFormatsWithoutYear(t)
  <2>1. Moves("date_without_year", "date")
    BY <1>6 DEF GenerateDateFormatsWithoutYear, Adds, Inside, Generating
  <2> QED BY <2>1
<1>7. CASE GenerateDateFormats(t)
  <2>1. Moves("date", "date_and_time_without_year")
    BY <1>7 DEF GenerateDateFormats, Adds, Inside, Generating
  <2> QED BY <2>1
<1>8. CASE GenerateDateTimeFormatsWithoutYear(t)
  <2>1. Moves("date_and_time_without_year", "date_and_time")
    BY <1>8 DEF GenerateDateTimeFormatsWithoutYear, Adds, Inside, Generating
  <2> QED BY <2>1
<1>9. CASE GenerateDateTimeFormats(t)
  <2>1. Moves("date_and_time", "made")
    BY <1>9 DEF GenerateDateTimeFormats, Adds, Inside, Generating
  <2> QED BY <2>1
<1> QED
  BY <1>1, <1>2, <1>3, <1>4, <1>5, <1>6, <1>7, <1>8, <1>9 DEF InitFormats

(* It does not disturb the types. *)
LEMMA InitFormatsTyped ==
  ASSUME Typed, NEW t \in Threads, InitFormats(t)
  PROVE  Typed'
<1>1. PICK from \in Inside \cup {"entering"}, to \in Inside \cup {"searching", "ended"} :
        Goes(t, from, to) /\ (t = Startup => to # "searching")
  BY InitFormatsMoves
<1>2. from # "idle" /\ to \in Place
  BY DEF Inside, Generating, Place
<1>3. t = Startup => to \in Inside \cup {"entering", "ended"}
  BY <1>1
<1>4. /\ thread' \in [Threads -> Reader]
      /\ \A u \in Parsers :
           thread'[u].at # "idle" =>
             thread'[u].period \in Period /\ thread'[u].period[thread'[u].part] \in Text
      /\ thread'[Startup].at \in Inside \cup {"entering", "ended"}
  BY <1>1, <1>2, <1>3, GoesTyped
<1>5. formatsAlreadyInit' \in BOOLEAN /\ today' \in 0 .. MaxDay
      /\ holder' \in Threads \cup {Nobody}
  BY DEF Typed, InitFormats, Enter, Check, SetInit, Leave, GenerateTimeFormats,
         GenerateDateFormatsWithoutYear, GenerateDateFormats,
         GenerateDateTimeFormatsWithoutYear, GenerateDateTimeFormats, Adds
<1> QED
  BY <1>4, <1>5 DEF Typed

(* What has too many parts is refused at once. *)
LEMMA RefusePartsRefuses ==
  ASSUME Typed, NEW t \in Threads, RefuseParts(t)
  PROVE  /\ t # Startup /\ thread[t].at = "idle"
         /\ thread' \in [Threads -> Reader] /\ thread'[t] \in Reader
         /\ thread'[t].at = "idle" /\ thread'[t].answer = "no_range"
         /\ thread'[t].typed \in Periods /\ TooManyParts(thread'[t].typed)
         /\ \A u \in Threads : u # t => thread'[u] = thread[u]
<1>1. PICK typed \in Periods :
        /\ TooManyParts(typed)
        /\ thread' = [thread EXCEPT ![t] = [Nowhere EXCEPT !.typed = typed, !.answer = "no_range"]]
  BY DEF RefuseParts
<1> DEFINE refused == [Nowhere EXCEPT !.typed = typed, !.answer = "no_range"]
<1>2. refused \in Reader
  BY NowhereTyped DEF Reader
<1>3. refused.at = "idle" /\ refused.answer = "no_range" /\ refused.typed = typed
  BY DEF Nowhere
<1>4. thread' = [thread EXCEPT ![t] = refused]
  BY <1>1
<1> HIDE DEF refused
<1>5. thread' \in [Threads -> Reader] /\ thread'[t] = refused
      /\ \A u \in Threads : u # t => thread'[u] = thread[u]
  BY <1>2, <1>4 DEF Typed
<1> QED
  BY <1>1, <1>2, <1>3, <1>5 DEF RefuseParts

(* Nor does any other. *)
LEMMA NextTyped == Typed /\ [Next]_vars => Typed'
<1> SUFFICES ASSUME Typed, [Next]_vars PROVE Typed'
  OBVIOUS
<1> USE DEF Threads
<1>1. CASE Tick
  BY <1>1, ClockAssumption DEF Tick, Typed
<1>2. ASSUME NEW t \in Threads, Parse(t) PROVE Typed'
  <2>1. PICK typed \in Periods : ~TooManyParts(typed) /\ \E p \in Split(typed) :
          thread' = [thread EXCEPT ![t] =
                       [Nowhere EXCEPT !.at = "reading", !.typed = typed, !.period = p,
                                       !.part = IF p.begin = NoText THEN "end" ELSE "begin"]]
    BY <1>2 DEF Parse
  <2>2. PICK p \in Split(typed) :
          thread' = [thread EXCEPT ![t] =
                       [Nowhere EXCEPT !.at = "reading", !.typed = typed, !.period = p,
                                       !.part = IF p.begin = NoText THEN "end" ELSE "begin"]]
    BY <2>1
  <2> DEFINE begun == [Nowhere EXCEPT !.at = "reading", !.typed = typed, !.period = p,
                                      !.part = IF p.begin = NoText THEN "end" ELSE "begin"]
  <2>10. p \in Period
    BY <2>1, SplitTyped
  <2>3. begun \in Reader /\ begun.at = "reading" /\ begun.period = p
        /\ begun.part = IF p.begin = NoText THEN "end" ELSE "begin"
    BY <2>10, NowhereTyped DEF Nowhere, Reader, Place
  <2>4. p \in [begin : Text \cup {NoText}, end : Text]
    BY <2>10 DEF Period
  <2>5. begun.period[begun.part] \in Text
    <3>1. CASE p.begin = NoText
      BY <3>1, <2>3, <2>4
    <3>2. CASE p.begin # NoText
      BY <3>2, <2>3, <2>4
    <3> QED BY <3>1, <3>2
  <2> HIDE DEF begun
  <2>6. thread' \in [Threads -> Reader] /\ thread'[t] = begun
        /\ \A u \in Threads : u # t => thread'[u] = thread[u]
    BY <2>2, <2>3 DEF begun, Typed
  <2>7. t # Startup /\ UNCHANGED <<formatsAlreadyInit, holder, table, today>>
    BY <1>2 DEF Parse
  <2>8. \A u \in Parsers :
          thread'[u].at # "idle" =>
            thread'[u].period \in Period /\ thread'[u].period[thread'[u].part] \in Text
    BY <2>3, <2>5, <2>6, <2>10 DEF Typed
  <2>9. thread'[Startup].at \in Inside \cup {"entering", "ended"}
    BY <2>6, <2>7 DEF Typed
  <2> QED
    BY <2>6, <2>7, <2>8, <2>9 DEF Typed
<1>8. ASSUME NEW t \in Threads, RefuseParts(t) PROVE Typed'
  <2>1. thread'[t] \in Reader /\ thread'[t].at = "idle" /\ t # Startup
        /\ thread' \in [Threads -> Reader]
        /\ \A u \in Threads : u # t => thread'[u] = thread[u]
    BY <1>8, RefusePartsRefuses
  <2>2. UNCHANGED <<formatsAlreadyInit, holder, table, today>>
    BY <1>8 DEF RefuseParts
  <2> QED
    BY <2>1, <2>2 DEF Typed
<1>3. ASSUME NEW t \in Threads, InitFormats(t) PROVE Typed'
  BY <1>3, InitFormatsTyped
<1>4. ASSUME NEW t \in Threads, ReadClock(t) PROVE Typed'
  <2> DEFINE timed == [thread[t] EXCEPT !.at = "asking", !.day = today]
  <2>1. thread[t] \in Reader /\ today \in Nat
    BY ClockAssumption DEF Typed
  <2>2. timed \in Reader /\ timed.at = "asking" /\ timed.period = thread[t].period
        /\ timed.part = thread[t].part
    BY <2>1 DEF Reader, Place
  <2>3. thread' = [thread EXCEPT ![t] = timed] /\ thread[t].at = "reading"
    BY <1>4 DEF ReadClock
  <2>4. t # Startup
    BY <2>3 DEF Typed, Inside, Generating
  <2> HIDE DEF timed
  <2>5. thread' \in [Threads -> Reader] /\ thread'[t] = timed
        /\ \A u \in Threads : u # t => thread'[u] = thread[u]
    BY <2>2, <2>3 DEF Typed
  <2>6. UNCHANGED <<formatsAlreadyInit, holder, table, today>>
    BY <1>4 DEF ReadClock
  <2>7. ASSUME NEW u \in Parsers, thread'[u].at # "idle"
        PROVE  thread'[u].period \in Period /\ thread'[u].period[thread'[u].part] \in Text
    <3>1. CASE u = t
      BY <3>1, <2>2, <2>3, <2>5, <2>7 DEF Typed
    <3>2. CASE u # t
      BY <3>2, <2>5, <2>7 DEF Typed
    <3> QED BY <3>1, <3>2
  <2>8. thread'[Startup].at \in Inside \cup {"entering", "ended"}
    BY <2>4, <2>5 DEF Typed
  <2> QED
    BY <2>5, <2>6, <2>7, <2>8 DEF Typed
<1>5. ASSUME NEW t \in Threads, AskInit(t) PROVE Typed'
  <2>1. PICK to \in {"searching", "entering"} : Goes(t, "asking", to)
    BY <1>5 DEF AskInit
  <2>2. t # Startup /\ to \in Place
    BY <2>1 DEF Goes, Typed, Inside, Generating, Place
  <2>3. UNCHANGED <<formatsAlreadyInit, holder, table, today>>
    BY <1>5 DEF AskInit
  <2>4. /\ thread' \in [Threads -> Reader]
        /\ \A u \in Parsers :
             thread'[u].at # "idle" =>
               thread'[u].period \in Period /\ thread'[u].period[thread'[u].part] \in Text
        /\ thread'[Startup].at \in Inside \cup {"entering", "ended"}
    BY <2>1, <2>2, GoesTyped
  <2> QED
    BY <2>3, <2>4 DEF Typed
<1>6. ASSUME NEW t \in Threads, Search(t) PROVE Typed'
  <2> DEFINE part == thread[t].part
             read == [thread[t].read EXCEPT ![part] =
                        ParseDate(thread[t].period[part], part, thread[t].day)]
             to == IF part = "begin" THEN "reading" ELSE "idle"
             answer == IF part = "begin" THEN "none" ELSE Answer(thread[t].period, read)
             after == [thread[t] EXCEPT !.read = read, !.at = to, !.part = "end",
                                        !.answer = answer]
  <2>1. thread[t] \in Reader /\ thread[t].at = "searching"
    BY <1>6 DEF Search, Typed
  <2>2. t \in Parsers
    BY <2>1 DEF Typed, Inside, Generating
  <2>3. thread[t].period \in Period /\ thread[t].period[part] \in Text
    BY <2>1, <2>2 DEF Typed
  <2>4. part \in {"begin", "end"} /\ thread[t].day \in Nat
        /\ thread[t].read \in [begin : Moment, end : Moment]
    BY <2>1 DEF Reader
  <2>5. read \in [begin : Moment, end : Moment]
    <3>1. ParseDate(thread[t].period[part], part, thread[t].day) \in Moment
      BY <2>3, <2>4, ParseDateTyped
    <3> QED BY <2>4, <3>1
  <2>6. answer \in {"none", "read", "no_begin", "no_end", "reversed"}
    BY DEF Answer
  <2>7. to \in Place
    BY DEF Place
  <2>8. thread' = [thread EXCEPT ![t] = after]
    BY <1>6 DEF Search
  <2>9. after \in Reader /\ after.period = thread[t].period /\ after.part = "end"
    <3> HIDE DEF read, answer, to
    <3> QED BY <2>1, <2>5, <2>6, <2>7 DEF Reader
  <2>10. thread[t].period.end \in Text
    BY <2>3 DEF Period
  <2> HIDE DEF after
  <2>11. thread' \in [Threads -> Reader] /\ thread'[t] = after
         /\ \A u \in Threads : u # t => thread'[u] = thread[u]
    BY <2>8, <2>9 DEF Typed
  <2>12. ASSUME NEW u \in Parsers, thread'[u].at # "idle"
         PROVE  thread'[u].period \in Period /\ thread'[u].period[thread'[u].part] \in Text
    <3>1. CASE u = t
      BY <3>1, <2>3, <2>9, <2>10, <2>11
    <3>2. CASE u # t
      BY <3>2, <2>11, <2>12 DEF Typed
    <3> QED BY <3>1, <3>2
  <2>13. thread'[Startup].at \in Inside \cup {"entering", "ended"}
    BY <2>2, <2>11, ThreadsAssumption DEF Typed
  <2>14. UNCHANGED <<formatsAlreadyInit, holder, table, today>>
    BY <1>6 DEF Search
  <2> QED
    BY <2>11, <2>12, <2>13, <2>14 DEF Typed
<1>7. CASE UNCHANGED vars
  BY <1>7 DEF vars, Typed
<1> QED
  BY <1>1, <1>2, <1>3, <1>4, <1>5, <1>6, <1>7, <1>8 DEF Next, Step

-----------------------------------------------------------------------------
(* Exclusion. *)

(* The steps that leave the flag and the mutex as they are. *)
LEMMA GoesExcluded ==
  ASSUME Typed, Excluded, NEW t \in Threads, NEW from, NEW to \in Place,
         Goes(t, from, to), from # "idle", t = Startup => to \in Inside \cup {"entering", "ended"},
         to \in Inside => from \in Inside,
         to \in Making => ~formatsAlreadyInit,
         to \in {"leaving", "searching"} => formatsAlreadyInit,
         UNCHANGED <<formatsAlreadyInit, holder>>
  PROVE  Excluded'
<1>1. thread[t].at = from
  BY DEF Goes
<1>2. thread'[t].at = to /\ \A u \in Threads : u # t => thread'[u] = thread[u]
  BY GoesTyped
<1>3. ASSUME NEW u \in Threads
      PROVE  /\ thread'[u].at \in Inside => holder' = u
             /\ thread'[u].at \in Making => ~formatsAlreadyInit'
             /\ thread'[u].at \in {"leaving", "searching"} => formatsAlreadyInit'
  <2>1. CASE u = t
    BY <2>1, <1>1, <1>2 DEF Excluded
  <2>2. CASE u # t
    BY <2>2, <1>2 DEF Excluded
  <2> QED BY <2>1, <2>2
<1> QED
  BY <1>3 DEF Excluded

(* A thread that is outside before and after changes nothing here. *)
LEMMA OutsideExcluded ==
  ASSUME Excluded, NEW t \in Threads, UNCHANGED <<formatsAlreadyInit, holder>>,
         \A u \in Threads : u # t => thread'[u] = thread[u],
         thread'[t].at \notin Inside \cup {"searching"}
  PROVE  Excluded'
BY DEF Excluded, Making, Inside

(* Every step keeps threads apart. *)
LEMMA NextExcluded == Typed /\ Excluded /\ [Next]_vars => Excluded'
<1> SUFFICES ASSUME Typed, Excluded, [Next]_vars PROVE Excluded'
  OBVIOUS
<1> USE DEF Making, Inside, Generating, Place
<1>1. CASE Tick \/ UNCHANGED vars
  <2>1. thread' = thread /\ holder' = holder /\ formatsAlreadyInit' = formatsAlreadyInit
    BY <1>1 DEF Tick, vars
  <2> QED
    BY <2>1 DEF Excluded
<1>2. ASSUME NEW t \in Threads, Parse(t) PROVE Excluded'
  <2>1. thread' = [thread EXCEPT ![t] = thread'[t]] /\ thread'[t].at = "reading"
    BY <1>2 DEF Parse, Nowhere, Typed
  <2>2. \A u \in Threads : u # t => thread'[u] = thread[u]
    BY <2>1 DEF Typed
  <2> QED
    BY <1>2, <2>1, <2>2, OutsideExcluded DEF Parse
<1>11. ASSUME NEW t \in Threads, RefuseParts(t) PROVE Excluded'
  <2>1. thread'[t].at = "idle" /\ \A u \in Threads : u # t => thread'[u] = thread[u]
    BY <1>11, RefusePartsRefuses
  <2> QED
    BY <1>11, <2>1, OutsideExcluded DEF RefuseParts
<1>3. ASSUME NEW t \in Threads, ReadClock(t) PROVE Excluded'
  <2>1. thread[t] \in Reader
    BY DEF Typed
  <2>2. thread'[t].at = "asking"
    BY <1>3, <2>1 DEF ReadClock, Typed, Reader
  <2>3. \A u \in Threads : u # t => thread'[u] = thread[u]
    BY <1>3 DEF ReadClock, Typed
  <2> QED
    BY <1>3, <2>2, <2>3, OutsideExcluded DEF ReadClock
<1>4. ASSUME NEW t \in Threads, AskInit(t) PROVE Excluded'
  <2>1. thread[t].at = "asking"
    BY <1>4 DEF AskInit, Goes
  <2>2. t # Startup
    BY <2>1 DEF Typed
  <2> QED
    BY <1>4, <2>2, GoesExcluded DEF AskInit
<1>5. ASSUME NEW t \in Threads, Search(t) PROVE Excluded'
  <2>1. thread[t] \in Reader
    BY DEF Typed
  <2>2. thread'[t].at \in {"reading", "idle"}
    BY <1>5, <2>1 DEF Search, Typed, Reader
  <2>3. \A u \in Threads : u # t => thread'[u] = thread[u]
    BY <1>5 DEF Search, Typed
  <2> QED
    BY <1>5, <2>2, <2>3, OutsideExcluded DEF Search
<1>6. ASSUME NEW t \in Threads, Enter(t) PROVE Excluded'
  <2>1. thread'[t].at = "checking" /\ \A u \in Threads : u # t => thread'[u] = thread[u]
    BY <1>6, GoesTyped DEF Enter
  <2>2. \A u \in Threads : thread[u].at \notin Inside
    BY <1>6, ThreadsAssumption DEF Enter, Excluded, Threads
  <2>3. holder' = t /\ UNCHANGED formatsAlreadyInit
    BY <1>6 DEF Enter
  <2> QED
    BY <2>1, <2>2, <2>3 DEF Excluded
<1>7. ASSUME NEW t \in Threads, Check(t) PROVE Excluded'
  BY <1>7, GoesExcluded DEF Check
<1>8. ASSUME NEW t \in Threads, SetInit(t) PROVE Excluded'
  <2>1. thread'[t].at = "leaving" /\ \A u \in Threads : u # t => thread'[u] = thread[u]
    BY <1>8, GoesTyped DEF SetInit
  <2>2. holder = t
    BY <1>8 DEF SetInit, Goes, Excluded
  <2>3. holder' = t /\ formatsAlreadyInit'
    BY <1>8, <2>2 DEF SetInit
  <2>4. ASSUME NEW u \in Threads, u # t PROVE thread'[u].at \notin Inside
    BY <2>1, <2>2, <2>4 DEF Excluded
  <2> QED
    BY <2>1, <2>3, <2>4 DEF Excluded
<1>9. ASSUME NEW t \in Threads, Leave(t) PROVE Excluded'
  <2> DEFINE to == IF t = Startup THEN "ended" ELSE "searching"
  <2>1. thread'[t].at = to /\ \A u \in Threads : u # t => thread'[u] = thread[u]
    BY <1>9, GoesTyped DEF Leave
  <2>2. holder = t /\ formatsAlreadyInit
    BY <1>9 DEF Leave, Goes, Excluded
  <2>3. UNCHANGED formatsAlreadyInit
    BY <1>9 DEF Leave
  <2>4. ASSUME NEW u \in Threads, u # t PROVE thread'[u].at \notin Inside
    BY <2>1, <2>2, <2>4 DEF Excluded
  <2> QED
    BY <2>1, <2>2, <2>3, <2>4 DEF Excluded
<1>10. ASSUME NEW t \in Threads,
              \/ GenerateTimeFormats(t) \/ GenerateDateFormatsWithoutYear(t)
              \/ GenerateDateFormats(t) \/ GenerateDateTimeFormatsWithoutYear(t)
              \/ GenerateDateTimeFormats(t)
       PROVE  Excluded'
  <2>1. \E from \in Generating, to \in Making : Goes(t, from, to)
    <3>1. CASE GenerateTimeFormats(t)
      <4>1. Goes(t, "time", "date_without_year")
        BY <3>1 DEF GenerateTimeFormats, Adds
      <4> QED BY <4>1
    <3>2. CASE GenerateDateFormatsWithoutYear(t)
      <4>1. Goes(t, "date_without_year", "date")
        BY <3>2 DEF GenerateDateFormatsWithoutYear, Adds
      <4> QED BY <4>1
    <3>3. CASE GenerateDateFormats(t)
      <4>1. Goes(t, "date", "date_and_time_without_year")
        BY <3>3 DEF GenerateDateFormats, Adds
      <4> QED BY <4>1
    <3>4. CASE GenerateDateTimeFormatsWithoutYear(t)
      <4>1. Goes(t, "date_and_time_without_year", "date_and_time")
        BY <3>4 DEF GenerateDateTimeFormatsWithoutYear, Adds
      <4> QED BY <4>1
    <3>5. CASE GenerateDateTimeFormats(t)
      <4>1. Goes(t, "date_and_time", "made")
        BY <3>5 DEF GenerateDateTimeFormats, Adds
      <4> QED BY <4>1
    <3> QED BY <1>10, <3>1, <3>2, <3>3, <3>4, <3>5
  <2> PICK from \in Generating, to \in Making : Goes(t, from, to)
    BY <2>1
  <2>2. ~formatsAlreadyInit
    BY DEF Goes, Excluded
  <2>3. UNCHANGED <<formatsAlreadyInit, holder>>
    BY <1>10 DEF GenerateTimeFormats, GenerateDateFormatsWithoutYear, GenerateDateFormats,
                 GenerateDateTimeFormatsWithoutYear, GenerateDateTimeFormats, Adds
  <2> QED
    BY <2>2, <2>3, GoesExcluded
<1> QED
  BY <1>1, <1>2, <1>3, <1>4, <1>5, <1>6, <1>7, <1>8, <1>9, <1>10, <1>11
     DEF Next, Step, InitFormats

(* The assertion of every generator holds, and two never run at a time. *)
THEOREM MadeOnceCorrect == Spec => []MadeOnce
<1>1. Init => Typed /\ Excluded
  <2> SUFFICES ASSUME Init PROVE Excluded
    BY InitTyped
  <2>1. \A t \in Threads : thread[t].at \in {"idle", "entering"}
    BY DEF Init, Nowhere
  <2> QED
    BY <2>1 DEF Excluded, Making, Inside, Generating
<1>2. Typed /\ Excluded /\ [Next]_vars => (Typed /\ Excluded)'
  BY NextTyped, NextExcluded
<1>3. Excluded => MadeOnce
  BY DEF Excluded, MadeOnce, Making, Inside
<1> QED
  BY <1>1, <1>2, <1>3, PTL DEF Spec

-----------------------------------------------------------------------------
(* The lists.  Full says what each of them is to hold and Stage how many of the
   generators must have run for it; FullTo(k) is the lists after k of them. *)
ApTimes == {"clock_ap", "hour_ap"}
PlainTimes == {"clock", "military"}
WithoutYear == {"dateFormatsWithoutYear", "dateTimeFormatsWithoutYear",
                "dateTimeFormatsWithoutYearAp"}
TimesOnly == {"timeFormats", "timeFormatsAp"}
DatesOnly == {"dateFormatsWithoutYear", "dateFormats"}

Full(n) ==
  {f \in Form :
     /\ f.date = "none" <=> n \in TimesOnly
     /\ f.year = "none" <=> n \in TimesOnly \cup WithoutYear
     /\ f.year = "joined" => f.date \in {"slashed", "dashed"}
     /\ f.time = "none" <=> n \in DatesOnly
     /\ f.time \in ApTimes <=> n \in WithAp}

Stage(n) ==
  CASE n \in TimesOnly -> 1
    [] n = "dateFormatsWithoutYear" -> 2
    [] n = "dateFormats" -> 3
    [] n \in WithoutYear \ {"dateFormatsWithoutYear"} -> 4
    [] OTHER -> 5

FullTo(k) == [n \in Tables |-> IF Stage(n) <= k THEN Full(n) ELSE {}]

Progress(at) ==
  CASE at = "time" -> 0
    [] at = "date_without_year" -> 1
    [] at = "date" -> 2
    [] at = "date_and_time_without_year" -> 3
    [] at = "date_and_time" -> 4
    [] at = "made" -> 5

Built ==
  /\ formatsAlreadyInit => table = FullTo(5)
  /\ ~formatsAlreadyInit /\ (\A t \in Threads : thread[t].at \notin Making)
       => table = FullTo(0)
  /\ \A t \in Threads : thread[t].at \in Making => table = FullTo(Progress(thread[t].at))

(* To give times to dates makes all the forms with both. *)
LEMMA TimedFull ==
  ASSUME NEW d \in DatesOnly, NEW n \in TimesOnly, NEW m \in Tables \ (DatesOnly \cup TimesOnly),
         d \in WithoutYear <=> m \in WithoutYear,
         n \in WithAp <=> m \in WithAp
  PROVE  Timed(Full(d), Full(n)) = Full(m)
<1> USE DEF DatesOnly, TimesOnly, WithoutYear, WithAp, WithoutAp, Tables, ApTimes
<1>1. ASSUME NEW g \in Timed(Full(d), Full(n)) PROVE g \in Full(m)
  <2>1. PICK e \in Full(d), f \in Full(n) : g = [e EXCEPT !.time = f.time]
    BY DEF Timed
  <2>2. e \in Form /\ f \in Form
    BY DEF Full
  <2>3. g \in Form /\ g.date = e.date /\ g.year = e.year /\ g.time = f.time
    BY <2>1, <2>2 DEF Form
  <2> QED
    BY <2>3 DEF Full
<1>2. ASSUME NEW g \in Full(m) PROVE g \in Timed(Full(d), Full(n))
  <2> DEFINE e == [g EXCEPT !.time = "none"]
             f == Dateless(g.time)
  <2>1. g \in Form
    BY DEF Full
  <2>2. e \in Form /\ e.date = g.date /\ e.year = g.year /\ e.time = "none"
    BY <2>1 DEF Form
  <2>3. f \in Form /\ f.date = "none" /\ f.year = "none" /\ f.time = g.time
    BY <2>1 DEF Form, Dateless
  <2>4. g = [e EXCEPT !.time = f.time]
    BY <2>1 DEF Form, Dateless
  <2>5. e \in Full(d)
    <3> HIDE DEF e
    <3> QED BY <2>2 DEF Full
  <2>6. f \in Full(n)
    <3> HIDE DEF f
    <3> QED BY <2>3 DEF Full
  <2> HIDE DEF e, f
  <2> QED
    BY <2>4, <2>5, <2>6 DEF Timed
<1> QED
  BY <1>1, <1>2

(* What each generator adds is what its lists are to hold. *)
LEMMA TimeFormatsFull ==
  /\ {Dateless("clock"), Dateless("military")} = Full("timeFormats")
  /\ {Dateless("clock_ap"), Dateless("hour_ap")} = Full("timeFormatsAp")
<1> USE DEF TimesOnly, WithoutYear, DatesOnly, WithAp, ApTimes
<1>1. ASSUME NEW n \in TimesOnly, NEW time \in ApTimes \cup PlainTimes,
             time \in ApTimes <=> n \in WithAp
      PROVE  Dateless(time) \in Full(n)
  <2>1. Dateless(time) \in Form
    BY DEF Form, Dateless, PlainTimes
  <2>2. /\ Dateless(time).date = "none" /\ Dateless(time).year = "none"
        /\ Dateless(time).time = time /\ time # "none"
    BY DEF Dateless, PlainTimes
  <2> QED
    BY <1>1, <2>1, <2>2 DEF Full
<1>2. ASSUME NEW n \in TimesOnly, NEW f \in Full(n)
      PROVE  f = Dateless(f.time)
  <2>1. f \in Form /\ f.date = "none" /\ f.year = "none"
    BY DEF Full
  <2> QED
    BY <2>1 DEF Form, Dateless
<1>3. \A f \in Full("timeFormats") : f.time \in PlainTimes
  BY DEF Full, Form, PlainTimes
<1>4. \A f \in Full("timeFormatsAp") : f.time \in ApTimes
  BY DEF Full, Form
<1>5. Dateless("clock") \in Full("timeFormats") /\ Dateless("military") \in Full("timeFormats")
  BY <1>1 DEF PlainTimes
<1>6. Dateless("clock_ap") \in Full("timeFormatsAp") /\ Dateless("hour_ap") \in Full("timeFormatsAp")
  BY <1>1
<1>7. \A f \in Full("timeFormats") : f \in {Dateless("clock"), Dateless("military")}
  BY <1>2, <1>3 DEF PlainTimes
<1>8. \A f \in Full("timeFormatsAp") : f \in {Dateless("clock_ap"), Dateless("hour_ap")}
  BY <1>2, <1>4
<1> QED
  BY <1>5, <1>6, <1>7, <1>8

(* The dates without a year are all there are. *)
LEMMA DateFormatsWithoutYearFull ==
  {[date |-> d, year |-> "none", time |-> "none"]
     : d \in {"spelt", "slashed", "dashed"}}
    = Full("dateFormatsWithoutYear")
<1> DEFINE formats == {[date |-> d, year |-> "none", time |-> "none"]
     : d \in {"spelt", "slashed", "dashed"}}
<1>1. ASSUME NEW f \in formats PROVE f \in Full("dateFormatsWithoutYear")
  <2> PICK d \in {"spelt", "slashed", "dashed"} : f = [date |-> d, year |-> "none", time |-> "none"]
    OBVIOUS
  <2>1. f \in Form /\ f.date # "none" /\ f.year = "none" /\ f.time = "none"
    BY DEF Form
  <2> QED
    BY <2>1 DEF Full, TimesOnly, WithoutYear, DatesOnly, WithAp, ApTimes
<1>2. ASSUME NEW f \in Full("dateFormatsWithoutYear") PROVE f \in formats
  <2>1. f \in Form /\ f.date # "none" /\ f.year = "none" /\ f.time = "none"
    BY DEF Full, TimesOnly, WithoutYear, DatesOnly
  <2>2. f.date \in {"spelt", "slashed", "dashed"} /\ f = [date |-> f.date, year |-> "none", time |-> "none"]
    BY <2>1 DEF Form
  <2> QED
    BY <2>2
<1> QED
  BY <1>1, <1>2

(* Those with one are the former, with the year apart, and those in numbers in
   which it is joined. *)
LEMMA DateFormatsFull ==
  Dated(Full("dateFormatsWithoutYear"), "apart")
    \cup {[date |-> d, year |-> "joined", time |-> "none"] : d \in {"slashed", "dashed"}}
      = Full("dateFormats")
<1> USE DEF TimesOnly, WithoutYear, DatesOnly, WithAp, ApTimes
<1> DEFINE joined == {[date |-> d, year |-> "joined", time |-> "none"] : d \in {"slashed", "dashed"}}
           formats == Dated(Full("dateFormatsWithoutYear"), "apart")
<1>1. ASSUME NEW f \in joined PROVE f \in Full("dateFormats")
  <2> PICK d \in {"slashed", "dashed"} : f = [date |-> d, year |-> "joined", time |-> "none"]
    OBVIOUS
  <2>1. /\ f \in Form /\ f.date \in {"slashed", "dashed"} /\ f.year = "joined"
        /\ f.time = "none"
    BY DEF Form
  <2> QED BY <2>1 DEF Full
<1>2. ASSUME NEW f \in formats PROVE f \in Full("dateFormats")
  <2>1. PICK e \in Full("dateFormatsWithoutYear") : f = [e EXCEPT !.year = "apart"]
    BY DEF Dated
  <2>2. e \in Form
    BY DEF Full
  <2>3. f \in Form /\ f.date = e.date /\ f.year = "apart" /\ f.time = e.time
    BY <2>1, <2>2 DEF Form
  <2> QED
    BY <2>3 DEF Full
<1>3. ASSUME NEW f \in Full("dateFormats") PROVE f \in formats \cup joined
  <2>1. f \in Form /\ f.date # "none" /\ f.time = "none" /\ f.year \in {"apart", "joined"}
    BY DEF Full, Form
  <2>2. CASE f.year = "joined"
    <3>1. f.date \in {"slashed", "dashed"}
      BY <2>1, <2>2 DEF Full
    <3>2. f = [date |-> f.date, year |-> "joined", time |-> "none"]
      BY <2>1, <2>2 DEF Form
    <3> QED BY <3>1, <3>2
  <2>3. CASE f.year = "apart"
    <3> DEFINE e == [f EXCEPT !.year = "none"]
    <3>1. e \in Form /\ e.date = f.date /\ e.year = "none" /\ e.time = f.time
      BY <2>1 DEF Form
    <3>2. f = [e EXCEPT !.year = "apart"]
      BY <2>1, <2>3 DEF Form
    <3> HIDE DEF e
    <3>3. e \in Full("dateFormatsWithoutYear")
      BY <2>1, <3>1 DEF Full
    <3> QED BY <3>2, <3>3 DEF Dated
  <2> QED BY <2>1, <2>2, <2>3
<1> QED
  BY <1>1, <1>2, <1>3

(* The lists the program makes are all the forms it understands. *)
LEMMA FullIsUnderstood == UNION {FullTo(5)[n] : n \in Tables} = Understood
<1>1. \A n \in Tables : FullTo(5)[n] = Full(n)
  BY DEF FullTo, Stage
<1>2. ASSUME NEW n \in Tables, NEW f \in Full(n) PROVE f \in Understood
  BY DEF Full, Understood, TimesOnly, WithoutYear, DatesOnly
<1>3. ASSUME NEW f \in Understood PROVE \E n \in Tables : f \in Full(n)
  <2>1. f \in Form
    BY DEF Understood
  <2> DEFINE ap == f.time \in ApTimes
             n == CASE f.date = "none" /\ ~ap -> "timeFormats"
                    [] f.date = "none" /\ ap -> "timeFormatsAp"
                    [] f.date # "none" /\ f.time = "none" /\ f.year = "none" ->
                         "dateFormatsWithoutYear"
                    [] f.date # "none" /\ f.time = "none" /\ f.year # "none" -> "dateFormats"
                    [] f.date # "none" /\ f.time # "none" /\ ~ap /\ f.year = "none" ->
                         "dateTimeFormatsWithoutYear"
                    [] f.date # "none" /\ f.time # "none" /\ ~ap /\ f.year # "none" ->
                         "dateTimeFormats"
                    [] f.date # "none" /\ f.time # "none" /\ ap /\ f.year = "none" ->
                         "dateTimeFormatsWithoutYearAp"
                    [] f.date # "none" /\ f.time # "none" /\ ap /\ f.year # "none" ->
                         "dateTimeFormatsAp"
  <2>2. n \in Tables /\ f \in Full(n)
    BY <2>1 DEF Understood, Full, Tables, WithAp, WithoutAp, TimesOnly, WithoutYear,
                DatesOnly, ApTimes
  <2> QED
    BY <2>2
<1> QED
  BY <1>1, <1>2, <1>3

(* A generator adds its lists and leaves the others. *)
LEMMA AddsFilled ==
  ASSUME NEW k \in 0 .. 4, table = FullTo(k), NEW t, NEW from, NEW to, NEW formats,
         Adds(t, from, to, formats),
         \A n \in Tables : n \in DOMAIN formats <=> Stage(n) = k + 1,
         \A n \in Tables : Stage(n) = k + 1 => formats[n] = Full(n)
  PROVE  table' = FullTo(k + 1)
<1>1. \A n \in Tables : Stage(n) \in 1 .. 5
  BY DEF Stage
<1>2. table' = [n \in Tables |-> table[n] \cup (IF n \in DOMAIN formats THEN formats[n] ELSE {})]
  BY DEF Adds
<1>3. ASSUME NEW n \in Tables PROVE table'[n] = FullTo(k + 1)[n]
  <2>1. table[n] = IF Stage(n) <= k THEN Full(n) ELSE {}
    BY DEF FullTo
  <2>2. table'[n] = table[n] \cup (IF n \in DOMAIN formats THEN formats[n] ELSE {})
    BY <1>2
  <2>3. CASE Stage(n) = k + 1
    <3>1. table[n] = {} /\ n \in DOMAIN formats /\ formats[n] = Full(n)
      BY <2>1, <2>3
    <3> QED BY <2>2, <2>3, <3>1 DEF FullTo
  <2>4. CASE Stage(n) # k + 1
    <3>1. table'[n] = table[n]
      BY <2>2, <2>4
    <3>2. Stage(n) <= k <=> Stage(n) <= k + 1
      BY <1>1, <2>4
    <3> QED BY <2>1, <3>1, <3>2 DEF FullTo
  <2> QED BY <2>3, <2>4
<1>4. table' = [n \in Tables |-> table'[n]] /\ FullTo(k + 1) = [n \in Tables |-> FullTo(k + 1)[n]]
  BY <1>2 DEF FullTo
<1> QED
  BY <1>3, <1>4

(* The lists of each generator. *)
LEMMA Stages ==
  \A n \in Tables :
    /\ Stage(n) = 1 <=> n \in {"timeFormats", "timeFormatsAp"}
    /\ Stage(n) = 2 <=> n \in {"dateFormatsWithoutYear"}
    /\ Stage(n) = 3 <=> n \in {"dateFormats"}
    /\ Stage(n) = 4 <=> n \in {"dateTimeFormatsWithoutYear", "dateTimeFormatsWithoutYearAp"}
    /\ Stage(n) = 5 <=> n \in {"dateTimeFormats", "dateTimeFormatsAp"}
BY DEF Stage, Tables, WithAp, WithoutAp, TimesOnly, WithoutYear

(* The names of the lists each generator makes, whatever it puts in them. *)
LEMMA NamesOfLists ==
  ASSUME NEW a, NEW b
  PROVE  /\ DOMAIN [timeFormats |-> a, timeFormatsAp |-> b] = {"timeFormats", "timeFormatsAp"}
         /\ DOMAIN [dateFormatsWithoutYear |-> a] = {"dateFormatsWithoutYear"}
         /\ DOMAIN [dateFormats |-> a] = {"dateFormats"}
         /\ DOMAIN [dateTimeFormatsWithoutYear |-> a, dateTimeFormatsWithoutYearAp |-> b]
              = {"dateTimeFormatsWithoutYear", "dateTimeFormatsWithoutYearAp"}
         /\ DOMAIN [dateTimeFormats |-> a, dateTimeFormatsAp |-> b]
              = {"dateTimeFormats", "dateTimeFormatsAp"}
<1>1. DOMAIN [timeFormats |-> a, timeFormatsAp |-> b] = {"timeFormats", "timeFormatsAp"}
  OBVIOUS
<1>2. DOMAIN [dateFormatsWithoutYear |-> a] = {"dateFormatsWithoutYear"}
  OBVIOUS
<1>3. DOMAIN [dateFormats |-> a] = {"dateFormats"}
  OBVIOUS
<1>4. DOMAIN [dateTimeFormatsWithoutYear |-> a, dateTimeFormatsWithoutYearAp |-> b]
        = {"dateTimeFormatsWithoutYear", "dateTimeFormatsWithoutYearAp"}
  OBVIOUS
<1>5. DOMAIN [dateTimeFormats |-> a, dateTimeFormatsAp |-> b]
        = {"dateTimeFormats", "dateTimeFormatsAp"}
  OBVIOUS
<1> QED
  BY <1>1, <1>2, <1>3, <1>4, <1>5

(* The generators fill the lists one after the other. *)
LEMMA GenerateFills ==
  ASSUME NEW t \in Threads
  PROVE  /\ GenerateTimeFormats(t) /\ table = FullTo(0) => table' = FullTo(1)
         /\ GenerateDateFormatsWithoutYear(t) /\ table = FullTo(1) => table' = FullTo(2)
         /\ GenerateDateFormats(t) /\ table = FullTo(2) => table' = FullTo(3)
         /\ GenerateDateTimeFormatsWithoutYear(t) /\ table = FullTo(3) => table' = FullTo(4)
         /\ GenerateDateTimeFormats(t) /\ table = FullTo(4) => table' = FullTo(5)
<1>1. ASSUME GenerateTimeFormats(t), table = FullTo(0) PROVE table' = FullTo(1)
  <2> DEFINE formats == [timeFormats   |-> {Dateless("clock"), Dateless("military")},
                         timeFormatsAp |-> {Dateless("clock_ap"), Dateless("hour_ap")}]
  <2>1. Adds(t, "time", "date_without_year", formats)
    BY <1>1 DEF GenerateTimeFormats
  <2>2. \A n \in Tables : n \in DOMAIN formats <=> Stage(n) = 0 + 1
    <3>1. DOMAIN formats = {"timeFormats", "timeFormatsAp"}
      BY NamesOfLists, Zenon
    <3> HIDE DEF formats
    <3> QED BY <3>1, Stages
  <2>3. formats["timeFormats"] = Full("timeFormats") /\ formats["timeFormatsAp"] = Full("timeFormatsAp")
    BY TimeFormatsFull
  <2>4. \A n \in Tables : Stage(n) = 0 + 1 => formats[n] = Full(n)
    <3> HIDE DEF formats
    <3> QED BY <2>3, Stages
  <2> HIDE DEF formats
  <2>5. 0 \in 0 .. 4 /\ 0 + 1 = 1
    OBVIOUS
  <2>6. table' = FullTo(0 + 1)
    BY <1>1, <2>1, <2>2, <2>4, <2>5, AddsFilled, Zenon
  <2> QED BY <2>5, <2>6
<1>2. ASSUME GenerateDateFormatsWithoutYear(t), table = FullTo(1) PROVE table' = FullTo(2)
  <2> DEFINE formats == [dateFormatsWithoutYear |->
               {[date |-> d, year |-> "none", time |-> "none"]
                  : d \in {"spelt", "slashed", "dashed"}}]
  <2>1. Adds(t, "date_without_year", "date", formats)
    BY <1>2 DEF GenerateDateFormatsWithoutYear
  <2>2. \A n \in Tables : n \in DOMAIN formats <=> Stage(n) = 1 + 1
    <3>1. DOMAIN formats = {"dateFormatsWithoutYear"}
      BY NamesOfLists, Zenon
    <3> HIDE DEF formats
    <3> QED BY <3>1, Stages
  <2>3. \A n \in Tables : Stage(n) = 1 + 1 => formats[n] = Full(n)
    BY Stages, DateFormatsWithoutYearFull
  <2> HIDE DEF formats
  <2>4. 1 \in 0 .. 4 /\ 1 + 1 = 2
    OBVIOUS
  <2>5. table' = FullTo(1 + 1)
    BY <1>2, <2>1, <2>2, <2>3, <2>4, AddsFilled, Zenon
  <2> QED BY <2>4, <2>5
<1>3. ASSUME GenerateDateFormats(t), table = FullTo(2) PROVE table' = FullTo(3)
  <2> DEFINE formats == [dateFormats |->
               Dated(table["dateFormatsWithoutYear"], "apart")
               \cup {[date |-> d, year |-> "joined", time |-> "none"]
                       : d \in {"slashed", "dashed"}}]
  <2>1. Adds(t, "date", "date_and_time_without_year", formats)
    BY <1>3 DEF GenerateDateFormats
  <2>2. \A n \in Tables : n \in DOMAIN formats <=> Stage(n) = 2 + 1
    <3>1. DOMAIN formats = {"dateFormats"}
      BY NamesOfLists, Zenon
    <3> HIDE DEF formats
    <3> QED BY <3>1, Stages
  <2>3. table["dateFormatsWithoutYear"] = Full("dateFormatsWithoutYear")
    BY <1>3, Stages DEF FullTo, Tables, WithoutAp
  <2>4. \A n \in Tables : Stage(n) = 2 + 1 => formats[n] = Full(n)
    BY Stages, <2>3, DateFormatsFull
  <2> HIDE DEF formats
  <2>5. 2 \in 0 .. 4 /\ 2 + 1 = 3
    OBVIOUS
  <2>6. table' = FullTo(2 + 1)
    BY <1>3, <2>1, <2>2, <2>4, <2>5, AddsFilled, Zenon
  <2> QED BY <2>5, <2>6
<1>4. ASSUME GenerateDateTimeFormatsWithoutYear(t), table = FullTo(3) PROVE table' = FullTo(4)
  <2> DEFINE formats ==
        [dateTimeFormatsWithoutYear |->
           Timed(table["dateFormatsWithoutYear"], table["timeFormats"]),
         dateTimeFormatsWithoutYearAp |->
           Timed(table["dateFormatsWithoutYear"], table["timeFormatsAp"])]
  <2>1. Adds(t, "date_and_time_without_year", "date_and_time", formats)
    BY <1>4 DEF GenerateDateTimeFormatsWithoutYear
  <2>2. \A n \in Tables : n \in DOMAIN formats <=> Stage(n) = 3 + 1
    <3>1. DOMAIN formats = {"dateTimeFormatsWithoutYear", "dateTimeFormatsWithoutYearAp"}
      BY NamesOfLists, Zenon
    <3> HIDE DEF formats
    <3> QED BY <3>1, Stages
  <2>3. /\ table["dateFormatsWithoutYear"] = Full("dateFormatsWithoutYear")
        /\ table["timeFormats"] = Full("timeFormats")
        /\ table["timeFormatsAp"] = Full("timeFormatsAp")
    BY <1>4, Stages DEF FullTo, Tables, WithAp, WithoutAp
  <2>4. /\ Timed(Full("dateFormatsWithoutYear"), Full("timeFormats"))
             = Full("dateTimeFormatsWithoutYear")
        /\ Timed(Full("dateFormatsWithoutYear"), Full("timeFormatsAp"))
             = Full("dateTimeFormatsWithoutYearAp")
    BY TimedFull DEF DatesOnly, TimesOnly, WithoutYear, Tables, WithAp, WithoutAp
  <2>5. \A n \in Tables : Stage(n) = 3 + 1 => formats[n] = Full(n)
    BY Stages, <2>3, <2>4
  <2> HIDE DEF formats
  <2>6. 3 \in 0 .. 4 /\ 3 + 1 = 4
    OBVIOUS
  <2>7. table' = FullTo(3 + 1)
    BY <1>4, <2>1, <2>2, <2>5, <2>6, AddsFilled, Zenon
  <2> QED BY <2>6, <2>7
<1>5. ASSUME GenerateDateTimeFormats(t), table = FullTo(4) PROVE table' = FullTo(5)
  <2> DEFINE formats ==
        [dateTimeFormats   |-> Timed(table["dateFormats"], table["timeFormats"]),
         dateTimeFormatsAp |-> Timed(table["dateFormats"], table["timeFormatsAp"])]
  <2>1. Adds(t, "date_and_time", "made", formats)
    BY <1>5 DEF GenerateDateTimeFormats
  <2>2. \A n \in Tables : n \in DOMAIN formats <=> Stage(n) = 4 + 1
    <3>1. DOMAIN formats = {"dateTimeFormats", "dateTimeFormatsAp"}
      BY NamesOfLists, Zenon
    <3> HIDE DEF formats
    <3> QED BY <3>1, Stages
  <2>3. /\ table["dateFormats"] = Full("dateFormats")
        /\ table["timeFormats"] = Full("timeFormats")
        /\ table["timeFormatsAp"] = Full("timeFormatsAp")
    BY <1>5, Stages DEF FullTo, Tables, WithAp, WithoutAp
  <2>4. /\ Timed(Full("dateFormats"), Full("timeFormats")) = Full("dateTimeFormats")
        /\ Timed(Full("dateFormats"), Full("timeFormatsAp")) = Full("dateTimeFormatsAp")
    BY TimedFull DEF DatesOnly, TimesOnly, WithoutYear, Tables, WithAp, WithoutAp
  <2>5. \A n \in Tables : Stage(n) = 4 + 1 => formats[n] = Full(n)
    BY Stages, <2>3, <2>4
  <2> HIDE DEF formats
  <2>6. 4 \in 0 .. 4 /\ 4 + 1 = 5
    OBVIOUS
  <2>7. table' = FullTo(4 + 1)
    BY <1>5, <2>1, <2>2, <2>5, <2>6, AddsFilled, Zenon
  <2> QED BY <2>6, <2>7
<1> QED
  BY <1>1, <1>2, <1>3, <1>4, <1>5

(* A thread that is not making the lists before or after leaves them as they are. *)
LEMMA OutsideBuilt ==
  ASSUME Built, NEW t \in Threads, UNCHANGED <<formatsAlreadyInit, table>>,
         \A u \in Threads : u # t => thread'[u] = thread[u],
         thread[t].at \notin Making, thread'[t].at \notin Making
  PROVE  Built'
<1> DEFINE Idle == \A u \in Threads : thread[u].at \notin Making
<1>1. ~formatsAlreadyInit /\ Idle => table = FullTo(0)
  BY DEF Built
<1>2. \A u \in Threads : thread'[u].at \in Making => thread[u].at = thread'[u].at
  OBVIOUS
<1>3. Idle' => Idle
  OBVIOUS
<1>4. \A u \in Threads : thread'[u].at \in Making => table' = FullTo(Progress(thread'[u].at))
  BY <1>2 DEF Built
<1>5. formatsAlreadyInit' => table' = FullTo(5)
  BY DEF Built
<1> QED
  BY <1>1, <1>3, <1>4, <1>5 DEF Built

(* One that is, alone, leaves them at its own stage. *)
LEMMA InsideBuilt ==
  ASSUME Excluded, NEW t \in Threads, NEW to \in Making,
         thread[t].at \in Inside, thread'[t].at = to,
         \A u \in Threads : u # t => thread'[u] = thread[u],
         ~formatsAlreadyInit', table' = FullTo(Progress(to))
  PROVE  Built'
<1>1. holder = t
  BY DEF Excluded
<1>2. ASSUME NEW u \in Threads, u # t PROVE thread'[u].at \notin Making
  BY <1>1, <1>2 DEF Excluded, Inside, Making
<1> QED
  BY <1>2 DEF Built

(* The stages of the generators. *)
LEMMA Stepwise ==
  /\ Progress("time") = 0 /\ Progress("date_without_year") = 1 /\ Progress("date") = 2
  /\ Progress("date_and_time_without_year") = 3 /\ Progress("date_and_time") = 4
  /\ Progress("made") = 5
BY DEF Progress

(* Every step keeps the lists at their stage. *)
LEMMA NextBuilt == Typed /\ Excluded /\ Built /\ [Next]_vars => Built'
<1> SUFFICES ASSUME Typed, Excluded, Built, [Next]_vars PROVE Built'
  OBVIOUS
<1>1. CASE Tick \/ UNCHANGED vars
  <2>1. UNCHANGED <<thread, table, formatsAlreadyInit>>
    BY <1>1 DEF Tick, vars
  <2> QED
    BY <2>1 DEF Built
<1>2. ASSUME NEW t \in Threads, Parse(t) PROVE Built'
  <2>1. /\ thread[t].at = "idle" /\ thread'[t].at = "reading"
        /\ \A u \in Threads : u # t => thread'[u] = thread[u]
    BY <1>2 DEF Parse, Nowhere, Typed
  <2>2. thread[t].at \notin Making /\ thread'[t].at \notin Making
    BY <2>1 DEF Making, Generating
  <2> QED
    BY <1>2, <2>1, <2>2, OutsideBuilt DEF Parse
<1>16. ASSUME NEW t \in Threads, RefuseParts(t) PROVE Built'
  <2>1. /\ thread[t].at = "idle" /\ thread'[t].at = "idle"
        /\ \A u \in Threads : u # t => thread'[u] = thread[u]
    BY <1>16, RefusePartsRefuses
  <2>2. thread[t].at \notin Making /\ thread'[t].at \notin Making
    BY <2>1 DEF Making, Generating
  <2> QED
    BY <1>16, <2>1, <2>2, OutsideBuilt DEF RefuseParts
<1>3. ASSUME NEW t \in Threads, ReadClock(t) PROVE Built'
  <2>1. /\ thread[t].at = "reading" /\ thread'[t].at = "asking"
        /\ \A u \in Threads : u # t => thread'[u] = thread[u]
    BY <1>3 DEF ReadClock, Typed, Reader
  <2>2. thread[t].at \notin Making /\ thread'[t].at \notin Making
    BY <2>1 DEF Making, Generating
  <2> QED
    BY <1>3, <2>1, <2>2, OutsideBuilt DEF ReadClock
<1>4. ASSUME NEW t \in Threads, AskInit(t) PROVE Built'
  <2>1. thread[t].at = "asking"
    BY <1>4 DEF AskInit, Goes
  <2>2. t # Startup
    BY <2>1 DEF Typed, Inside, Generating
  <2>3. /\ thread'[t].at \in {"searching", "entering"}
        /\ \A u \in Threads : u # t => thread'[u] = thread[u]
    BY <1>4, <2>2, GoesTyped DEF AskInit, Place
  <2>4. thread[t].at \notin Making /\ thread'[t].at \notin Making
    BY <2>1, <2>3 DEF Making, Generating
  <2>9. UNCHANGED <<formatsAlreadyInit, table>> BY <1>4 DEF AskInit
  <2> QED
    BY <2>9, <2>3, <2>4, OutsideBuilt
<1>5. ASSUME NEW t \in Threads, Search(t) PROVE Built'
  <2>1. /\ thread[t].at = "searching" /\ thread'[t].at \in {"reading", "idle"}
        /\ \A u \in Threads : u # t => thread'[u] = thread[u]
    BY <1>5 DEF Search, Typed, Reader
  <2>2. thread[t].at \notin Making /\ thread'[t].at \notin Making
    BY <2>1 DEF Making, Generating
  <2>9. UNCHANGED <<formatsAlreadyInit, table>> BY <1>5 DEF Search
  <2> QED
    BY <2>9, <2>1, <2>2, OutsideBuilt
<1>6. ASSUME NEW t \in Threads, Enter(t) PROVE Built'
  <2>0. /\ "checking" \in Place /\ "checking" \in Inside
        /\ Goes(t, "entering", "checking")
    BY <1>6 DEF Enter, Inside, Place
  <2>1. /\ thread[t].at = "entering" /\ thread'[t].at = "checking"
        /\ \A u \in Threads : u # t => thread'[u] = thread[u]
    BY <2>0, GoesTyped DEF Goes
  <2>2. thread[t].at \notin Making /\ thread'[t].at \notin Making
    BY <2>1 DEF Making, Generating
  <2>9. UNCHANGED <<formatsAlreadyInit, table>> BY <1>6 DEF Enter
  <2> QED
    BY <2>9, <2>1, <2>2, OutsideBuilt
<1>7. ASSUME NEW t \in Threads, Check(t) PROVE Built'
  <2> DEFINE to == IF formatsAlreadyInit THEN "leaving" ELSE "time"
  <2>1. to \in Place /\ to \in Inside
    BY DEF Inside, Generating, Place
  <2>2. Goes(t, "checking", to)
    BY <1>7 DEF Check
  <2> HIDE DEF to
  <2>3. /\ thread'[t].at = to
        /\ \A u \in Threads : u # t => thread'[u] = thread[u]
    BY <2>1, <2>2, GoesTyped
  <2>4. /\ thread[t].at = "checking"
        /\ thread'[t].at = IF formatsAlreadyInit THEN "leaving" ELSE "time"
        /\ \A u \in Threads : u # t => thread'[u] = thread[u]
    BY <2>2, <2>3 DEF Goes, to
  <2>5. thread[t].at \notin Making
    BY <2>4 DEF Making, Generating
  <2>6. CASE formatsAlreadyInit
    <3>1. thread'[t].at \notin Making
      BY <2>4, <2>6 DEF Making, Generating
    <3> QED BY <1>7, <2>4, <2>5, <3>1, OutsideBuilt DEF Check
  <2>7. CASE ~formatsAlreadyInit
    <3>1. thread'[t].at = "time" /\ "time" \in Making /\ thread[t].at \in Inside
      BY <2>4, <2>7 DEF Making, Generating, Inside
    <3>2. \A u \in Threads : thread[u].at \notin Making
      BY <2>5, <3>1 DEF Excluded, Inside, Making
    <3>3. table' = FullTo(Progress("time")) /\ ~formatsAlreadyInit'
      BY <1>7, <2>7, <3>2, Stepwise DEF Check, Built
    <3> QED BY <2>4, <3>1, <3>3, InsideBuilt
  <2> QED BY <2>6, <2>7
<1>8. ASSUME NEW t \in Threads, SetInit(t) PROVE Built'
  <2>0. /\ "leaving" \in Place /\ "leaving" \in Inside
        /\ Goes(t, "made", "leaving")
    BY <1>8 DEF SetInit, Inside, Place
  <2>1. /\ thread[t].at = "made" /\ thread'[t].at = "leaving"
        /\ \A u \in Threads : u # t => thread'[u] = thread[u]
    BY <2>0, GoesTyped DEF Goes
  <2>2. thread[t].at \in Making /\ thread'[t].at \notin Making
    BY <2>1 DEF Making, Generating
  <2>3. ASSUME NEW u \in Threads PROVE thread'[u].at \notin Making
    BY <2>1, <2>2 DEF Excluded, Inside, Making
  <2>4. table' = FullTo(5) /\ formatsAlreadyInit'
    BY <1>8, <2>1, <2>2, Stepwise DEF SetInit, Built
  <2> QED
    BY <2>3, <2>4 DEF Built
<1>9. ASSUME NEW t \in Threads, Leave(t) PROVE Built'
  <2> DEFINE to == IF t = Startup THEN "ended" ELSE "searching"
  <2>0. /\ to \in Place /\ to \in {"ended", "searching"}
        /\ t = Startup => to \in Inside \cup {"entering", "ended"}
    BY DEF Place
  <2>3. Goes(t, "leaving", to)
    BY <1>9 DEF Leave
  <2> HIDE DEF to
  <2>1. /\ thread[t].at = "leaving" /\ thread'[t].at \in {"ended", "searching"}
        /\ \A u \in Threads : u # t => thread'[u] = thread[u]
    BY <2>0, <2>3, GoesTyped DEF Goes
  <2>2. thread[t].at \notin Making /\ thread'[t].at \notin Making
    BY <2>1 DEF Making, Generating
  <2> QED
    BY <1>9, <2>1, <2>2, OutsideBuilt DEF Leave
<1>10. ASSUME NEW t \in Threads, NEW from \in Generating, NEW to \in Making, Goes(t, from, to),
              UNCHANGED formatsAlreadyInit,
              table = FullTo(Progress(from)) => table' = FullTo(Progress(to))
       PROVE  Built'
  <2>1. thread[t].at = from /\ from \in Making /\ from \in Inside
    BY <1>10 DEF Goes, Making, Inside
  <2>2. thread'[t].at = to /\ \A u \in Threads : u # t => thread'[u] = thread[u]
    BY <1>10, GoesTyped DEF Generating, Making, Inside, Place
  <2>3. ~formatsAlreadyInit' /\ table' = FullTo(Progress(to))
    BY <1>10, <2>1 DEF Excluded, Built
  <2> QED
    BY <1>10, <2>1, <2>2, <2>3, InsideBuilt
<1>11. ASSUME NEW t \in Threads, GenerateTimeFormats(t) PROVE Built'
  <2>1. Goes(t, "time", "date_without_year") /\ UNCHANGED formatsAlreadyInit
    BY <1>11 DEF GenerateTimeFormats, Adds
  <2> QED
    BY <1>10, <1>11, <2>1, GenerateFills, Stepwise DEF Making, Generating
<1>12. ASSUME NEW t \in Threads, GenerateDateFormatsWithoutYear(t) PROVE Built'
  <2>1. Goes(t, "date_without_year", "date") /\ UNCHANGED formatsAlreadyInit
    BY <1>12 DEF GenerateDateFormatsWithoutYear, Adds
  <2> QED
    BY <1>10, <1>12, <2>1, GenerateFills, Stepwise DEF Making, Generating
<1>13. ASSUME NEW t \in Threads, GenerateDateFormats(t) PROVE Built'
  <2>1. Goes(t, "date", "date_and_time_without_year") /\ UNCHANGED formatsAlreadyInit
    BY <1>13 DEF GenerateDateFormats, Adds
  <2> QED
    BY <1>10, <1>13, <2>1, GenerateFills, Stepwise DEF Making, Generating
<1>14. ASSUME NEW t \in Threads, GenerateDateTimeFormatsWithoutYear(t) PROVE Built'
  <2>1. Goes(t, "date_and_time_without_year", "date_and_time") /\ UNCHANGED formatsAlreadyInit
    BY <1>14 DEF GenerateDateTimeFormatsWithoutYear, Adds
  <2> QED
    BY <1>10, <1>14, <2>1, GenerateFills, Stepwise DEF Making, Generating
<1>15. ASSUME NEW t \in Threads, GenerateDateTimeFormats(t) PROVE Built'
  <2>1. Goes(t, "date_and_time", "made") /\ UNCHANGED formatsAlreadyInit
    BY <1>15 DEF GenerateDateTimeFormats, Adds
  <2> QED
    BY <1>10, <1>15, <2>1, GenerateFills, Stepwise DEF Making, Generating
<1> QED
  BY <1>1, <1>2, <1>3, <1>4, <1>5, <1>6, <1>7, <1>8, <1>9, <1>11, <1>12, <1>13, <1>14, <1>15,
     <1>16
     DEF Next, Step, InitFormats

(* Nothing is in the lists when the program starts. *)
LEMMA InitBuilt == Init => Typed /\ Excluded /\ Built
<1> SUFFICES ASSUME Init PROVE Excluded /\ Built
  BY InitTyped
<1>1. \A t \in Threads : thread[t].at \in {"idle", "entering"}
  BY DEF Init, Nowhere
<1>2. \A t \in Threads : thread[t].at \notin Making
  BY <1>1 DEF Making, Generating
<1>3. \A n \in Tables : ~(Stage(n) <= 0)
  BY DEF Stage
<1>4. table = FullTo(0)
  BY <1>3 DEF Init, FullTo
<1>5. ~formatsAlreadyInit
  BY DEF Init
<1> QED
  BY <1>1, <1>2, <1>4, <1>5 DEF Excluded, Built, Making, Inside, Generating

(* What every step keeps. *)
Whole == Typed /\ Excluded /\ Built

(* It is an invariant of every run of the program. *)
LEMMA WholeInvariant == Spec => []Whole
<1>1. Init => Whole
  BY InitBuilt DEF Whole
<1>2. Whole /\ [Next]_vars => Whole'
  BY NextTyped, NextExcluded, NextBuilt DEF Whole
<1> QED
  BY <1>1, <1>2, PTL DEF Spec

(* Whoever searches the lists finds all the forms the program understands, for any
   number of threads that want them made.                                  *)
THEOREM WholeTablesCorrect == Spec => []WholeTables
<1>1. Whole => WholeTables
  <2> SUFFICES ASSUME Whole, NEW t \in Threads, thread[t].at = "searching"
               PROVE  UNION {table[n] : n \in Tables} = Understood
    BY DEF WholeTables
  <2>1. table = FullTo(5)
    BY DEF Whole, Excluded, Built
  <2> QED
    BY <2>1, FullIsUnderstood
<1> QED
  BY <1>1, WholeInvariant, PTL

(* Every list holds forms only, with `am' and `pm' in those named for them. *)
THEOREM ListsTyped == Spec => []TypeOK
<1>1. ASSUME NEW k \in 0 .. 5, table = FullTo(k)
      PROVE  /\ table \in [Tables -> SUBSET Form]
             /\ \A n \in Tables : \A f \in table[n] : n \in WithAp <=> f.time \in ApTimes
  <2>1. \A n \in Tables : Full(n) \subseteq Form
    BY DEF Full
  <2>2. \A n \in Tables : table[n] = {} \/ table[n] = Full(n)
    BY <1>1 DEF FullTo
  <2>3. table \in [Tables -> SUBSET Form]
    BY <1>1, <2>1 DEF FullTo
  <2>4. \A n \in Tables : \A f \in Full(n) : n \in WithAp <=> f.time \in ApTimes
    BY DEF Full
  <2> QED
    BY <2>2, <2>3, <2>4
<1>2. Built => \E k \in 0 .. 5 : table = FullTo(k)
  <2> SUFFICES ASSUME Built PROVE \E k \in 0 .. 5 : table = FullTo(k)
    OBVIOUS
  <2>1. CASE formatsAlreadyInit
    BY <2>1 DEF Built
  <2>2. CASE ~formatsAlreadyInit /\ \A t \in Threads : thread[t].at \notin Making
    BY <2>2 DEF Built
  <2>3. ASSUME NEW t \in Threads, thread[t].at \in Making PROVE \E k \in 0 .. 5 : table = FullTo(k)
    <3>1. Progress(thread[t].at) \in {0, 1, 2, 3, 4, 5}
      <4>1. \A at \in Making : Progress(at) \in {0, 1, 2, 3, 4, 5}
        BY Stepwise DEF Making, Generating
      <4> QED BY <2>3, <4>1
    <3>2. table = FullTo(Progress(thread[t].at))
      BY <2>3 DEF Built
    <3>3. {0, 1, 2, 3, 4, 5} \subseteq 0 .. 5
      OBVIOUS
    <3> QED BY <3>1, <3>2, <3>3
  <2> QED BY <2>1, <2>2, <2>3
<1>3. Whole => TypeOK
  BY <1>1, <1>2 DEF Whole, Typed, TypeOK, ApTimes
<1> QED
  BY <1>3, WholeInvariant, PTL

(* What is read of a text on a day, once the lists are whole. *)
DayOf(said, day) == IF said.form.date = "none" THEN day ELSE SaidDay(said, day)
Reading(said, part, day) ==
  IF said.form \in Understood THEN At(DayOf(said, day), Hour(said, part = "begin"))
                              ELSE Invalid

(* The dates with dashes that may be taken for two times. *)
AllHours(typed) ==
  \A i \in DOMAIN typed : typed[i].form.year = "apart" /\ typed[i].form.time = "hour_ap"

Stands(r) ==
  /\ StandsAsTyped(r.typed) => r.answer = "read"
  /\ r.answer = "read" /\ r.period.begin # NoText => ~Earlier(r.read.end, r.read.begin)
  /\ r.answer = "read" /\ HasDash(r.typed) => AllHours(r.typed)

Standing == {r \in Reader : r.answer # "none" => Stands(r)}

(* A thread that is not done has no answer yet, and reads what the typed period was
   split into; the begin it has read is that of a day no later than the one it
   reads the end on.                                                        *)
Pending(r) ==
  /\ r.answer = "none"
  /\ r.typed \in Periods /\ ~TooManyParts(r.typed) /\ r.period \in Split(r.typed)
  /\ r.at # "reading" => r.day <= today
  /\ r.part = "end" /\ r.period.begin # NoText =>
       \E d \in Nat : /\ d <= IF r.at = "reading" THEN today ELSE r.day
                      /\ r.read.begin = Reading(r.period.begin, "begin", d)

Answers ==
  \A t \in Parsers :
    IF thread[t].at = "idle" THEN thread[t] \in Standing ELSE Pending(thread[t])

(* The text is found in a list that has its form, and in none that has another. *)
LEMMA ParseDateReads ==
  ASSUME table = FullTo(5), NEW said \in Text, NEW part \in {"begin", "end"}, NEW day \in Nat
  PROVE  ParseDate(said, part, day) = Reading(said, part, day)
<1> DEFINE f == said.form
           searched == IF f.time \in {"clock_ap", "hour_ap"} THEN WithAp ELSE WithoutAp
           found == {n \in searched : f \in table[n]}
<1>1. f \in Form BY DEF Text
<1>2. \A n \in Tables : table[n] = Full(n) BY DEF FullTo, Stage
<1>3. searched \subseteq Tables BY DEF Tables
<1>4. ParseDate(said, part, day) =
        CASE found = {} -> Invalid
          [] found # {} /\ found \subseteq TimesOnly -> At(day, said.hour)
          [] found # {} /\ found \subseteq DatesOnly -> At(SaidDay(said, day), DefaultHour(part))
          [] OTHER -> At(SaidDay(said, day), said.hour)
  BY DEF ParseDate, TimesOnly, DatesOnly
<1>5. CASE f \notin Understood
  <2>1. \A n \in Tables : f \notin table[n] BY <1>5, FullIsUnderstood DEF FullTo
  <2>2. found = {} BY <1>3, <2>1
  <2>3. Reading(said, part, day) = Invalid BY <1>5 DEF Reading
  <2> HIDE DEF found
  <2> QED BY <1>4, <2>2, <2>3
<1>6. CASE f \in Understood
  <2>1. PICK n \in Tables : f \in Full(n)
    <3>1. \E n \in Tables : f \in FullTo(5)[n] BY <1>6, FullIsUnderstood
    <3>2. \A n \in Tables : FullTo(5)[n] = Full(n) BY <1>2
    <3> QED BY <3>1, <3>2
  <2>2. n \in searched BY <2>1 DEF Full, Tables, ApTimes
  <2>3. n \in found BY <1>2, <2>1, <2>2
  <2>4. \A m \in found : m \in Tables /\ f \in Full(m) BY <1>2, <1>3
  <2>5. Reading(said, part, day) = At(DayOf(said, day), Hour(said, part = "begin"))
    BY <1>6 DEF Reading
  <2> HIDE DEF found
  <2>6. CASE f.date = "none"
    <3>1. found \subseteq TimesOnly BY <2>4, <2>6 DEF Full
    <3>2. f.time # "none" BY <1>6, <2>6 DEF Understood
    <3>3. n \in TimesOnly /\ n \notin DatesOnly BY <2>3, <3>1 DEF TimesOnly, DatesOnly
    <3>4. ParseDate(said, part, day) = At(day, said.hour) BY <1>4, <2>3, <3>1, <3>3
    <3>5. DayOf(said, day) = day BY <2>6 DEF DayOf
    <3>6. Hour(said, part = "begin") = said.hour BY <3>2 DEF Hour
    <3> QED BY <2>5, <3>4, <3>5, <3>6
  <2>7. CASE f.date # "none" /\ f.time = "none"
    <3>1. found \subseteq DatesOnly BY <2>4, <2>7 DEF Full
    <3>2. n \notin TimesOnly BY <2>3, <3>1 DEF TimesOnly, DatesOnly
    <3>3. ParseDate(said, part, day) = At(SaidDay(said, day), DefaultHour(part))
      BY <1>4, <2>3, <3>1, <3>2
    <3>4. DayOf(said, day) = SaidDay(said, day) BY <2>7 DEF DayOf
    <3>5. Hour(said, part = "begin") = DefaultHour(part) BY <2>7 DEF Hour, DefaultHour
    <3> QED BY <2>5, <3>3, <3>4, <3>5
  <2>8. CASE f.date # "none" /\ f.time # "none"
    <3>1. n \notin DatesOnly /\ n \notin TimesOnly BY <2>1, <2>8 DEF Full
    <3>2. ParseDate(said, part, day) = At(SaidDay(said, day), said.hour)
      BY <1>4, <2>3, <3>1
    <3>3. DayOf(said, day) = SaidDay(said, day) BY <2>8 DEF DayOf
    <3>4. Hour(said, part = "begin") = said.hour BY <2>8 DEF Hour
    <3> QED BY <2>5, <3>2, <3>3, <3>4
  <2> QED BY <2>6, <2>7, <2>8
<1> QED BY <1>5, <1>6

(* A period that is forward from one moment is so when its begin is read on one day
   and its end on that or a later one.                                      *)
LEMMA ForwardReads ==
  ASSUME NEW period \in Period, period.begin # NoText, Forward(period),
         NEW d \in Nat, NEW e \in Nat, d <= e
  PROVE  ~Earlier(Reading(period.end, "end", e), Reading(period.begin, "begin", d))
<1> DEFINE b == period.begin
           f == period.end
           hb == Hour(b, TRUE)
           hf == Hour(f, FALSE)
<1>1. b \in Text /\ f \in Text BY DEF Period
<1>2. /\ b.form \in Understood /\ f.form \in Understood /\ Present(b) = Present(f)
      /\ ~Earlier(At(Ahead(f), hf), At(Ahead(b), hb))
  BY DEF Forward
<1>3. \A h : \A g : \A i \in Nat : \A j \in Nat :
        Earlier(At(i, g), At(j, h)) <=> i < j \/ (i = j /\ g < h)
  BY DEF Earlier, At
<1>4. \A said \in Text :
        /\ Ahead(said) \in Nat /\ \A i \in Nat : DayOf(said, i) \in Nat
        /\ Present(said) => \A i \in Nat : DayOf(said, i) = i + Ahead(said)
        /\ ~Present(said) => \A i \in Nat : DayOf(said, i) = Ahead(said)
  BY DEF Text, Ahead, DayOf, SaidDay, Present
<1>5. hb \in Nat /\ hf \in Nat
  BY <1>1, ClockAssumption DEF Hour, Text
<1>6. /\ Reading(f, "end", e) = At(DayOf(f, e), hf)
      /\ Reading(b, "begin", d) = At(DayOf(b, d), hb)
  BY <1>2 DEF Reading
<1> HIDE DEF b, f, hb, hf
<1>7. Ahead(f) \in Nat /\ Ahead(b) \in Nat /\ DayOf(f, e) \in Nat /\ DayOf(b, d) \in Nat
  BY <1>1, <1>4
<1>8. ~(Ahead(f) < Ahead(b)) /\ (Ahead(f) = Ahead(b) => ~(hf < hb))
  BY <1>2, <1>3, <1>7
<1>9. CASE Present(b)
  <2>1. DayOf(f, e) = e + Ahead(f) /\ DayOf(b, d) = d + Ahead(b) BY <1>1, <1>2, <1>4, <1>9
  <2>2. ~(DayOf(f, e) < DayOf(b, d)) /\ (DayOf(f, e) = DayOf(b, d) => ~(hf < hb))
    BY <1>7, <1>8, <2>1
  <2> QED BY <1>3, <1>6, <1>7, <2>2 DEF b, f
<1>10. CASE ~Present(b)
  <2>1. DayOf(f, e) = Ahead(f) /\ DayOf(b, d) = Ahead(b) BY <1>1, <1>2, <1>4, <1>10
  <2> QED BY <1>3, <1>6, <1>7, <1>8, <2>1 DEF b, f
<1> QED BY <1>9, <1>10

(* What is typed forward is read forward.  Of a date with dashes one half at least is
   nothing the program understands, unless its year is apart and it has an hour. *)
LEMMA SplitStands ==
  ASSUME NEW typed \in Periods, ~TooManyParts(typed), NEW p \in Split(typed)
  PROVE  /\ StandsAsTyped(typed) => Forward(p)
         /\ HasDash(typed) =>
              \/ AllHours(typed)
              \/ p.end.form \notin Understood
              \/ p.begin # NoText /\ p.begin.form \notin Understood
<1>1. StandsAsTyped(typed) => Forward(p)
  BY DEF StandsAsTyped, Split
<1>2. ASSUME HasDash(typed), p.end.form \in Understood,
             p.begin # NoText => p.begin.form \in Understood
      PROVE  AllHours(typed)
  <2>1. Unreadable.form \notin Understood
    BY DEF Unreadable, Dateless, Understood
  <2>2. Unreadable # NoText
    BY HalvesTyped, PeriodsAssumption
  <2>3. p.begin # Unreadable /\ p.end # Unreadable
    BY <1>2, <2>1, <2>2
  <2>4. p \in Halves(typed[1])
    BY <1>2 DEF Split
  <2>5. \E b \in IF typed[1].form.year = "apart" THEN TimesOf("clock") ELSE {} :
          p.begin = b
    BY <2>3, <2>4 DEF Halves
  <2>6. p.end \in {Unreadable} \cup (IF typed[1].form.time = "hour_ap" THEN TimesOf("clock_ap")
                                                                    ELSE {})
    BY <2>4 DEF Halves
  <2>7. typed[1].form.year = "apart" /\ typed[1].form.time = "hour_ap"
    BY <2>3, <2>5, <2>6
  <2>8. Len(typed) = 1
    <3>1. Len(typed) \in Nat \ {0} BY PeriodsTyped
    <3>2. ~(Len(typed) > 2) /\ Len(typed) # 2 BY <1>2 DEF TooManyParts
    <3>3. \A n \in Nat \ {0} : ~(n > 2) /\ n # 2 => n = 1 OBVIOUS
    <3> QED BY <3>1, <3>2, <3>3
  <2>9. \A i \in DOMAIN typed : i = 1
    BY <2>8, PeriodsTyped
  <2> QED
    BY <2>7, <2>9 DEF AllHours
<1> QED
  BY <1>1, <1>2

(* What is answered when the end has been read too. *)
LEMMA AnswerStands ==
  ASSUME NEW period \in Period, NEW read, NEW e \in Nat,
         read.end = Reading(period.end, "end", e),
         period.begin # NoText =>
           \E d \in Nat : d <= e /\ read.begin = Reading(period.begin, "begin", d)
  PROVE  /\ Forward(period) => Answer(period, read) = "read"
         /\ Answer(period, read) = "read" /\ period.begin # NoText =>
              ~Earlier(read.end, read.begin)
         /\ Answer(period, read) = "read" =>
              /\ period.end.form \in Understood
              /\ period.begin # NoText => period.begin.form \in Understood
<1> DEFINE open == period.begin = NoText
           begun == read.begin.valid
           ended == read.end.valid
           reversed == Earlier(read.end, read.begin)
<1>1. Answer(period, read) =
        CASE ~open /\ ~begun -> "no_begin"
          [] open /\ ~ended -> "no_end"
          [] ~open /\ begun /\ ~ended -> "no_end"
          [] ~open /\ begun /\ ended /\ reversed -> "reversed"
          [] OTHER -> "read"
  BY DEF Answer
<1>2. \A said, part, day :
        Reading(said, part, day).valid <=> said.form \in Understood
  BY DEF Reading, At, Invalid
<1> HIDE DEF open, begun, ended, reversed
<1>3. ASSUME Forward(period) PROVE Answer(period, read) = "read"
  <2>1. ended BY <1>2, <1>3 DEF Forward, ended
  <2>2. CASE open BY <1>1, <2>1, <2>2
  <2>3. CASE ~open
    <3>1. begun BY <1>2, <1>3, <2>3 DEF Forward, begun, open
    <3>2. ~reversed BY <1>3, <2>3, ForwardReads DEF reversed, open
    <3> QED BY <1>1, <2>1, <2>3, <3>1, <3>2
  <2> QED BY <2>2, <2>3
<1>4. ASSUME Answer(period, read) = "read", ~open PROVE ~reversed
  BY <1>1, <1>4
<1>5. ASSUME Answer(period, read) = "read" PROVE ended /\ (~open => begun)
  BY <1>1, <1>5
<1>6. ASSUME Answer(period, read) = "read"
      PROVE  /\ period.end.form \in Understood
             /\ period.begin # NoText => period.begin.form \in Understood
  BY <1>2, <1>5, <1>6 DEF ended, begun, open
<1> QED BY <1>3, <1>4, <1>6 DEF open, reversed

(* A step of one thread keeps the answers if it keeps its own. *)
LEMMA OneAnswers ==
  ASSUME Answers, today' = today, NEW t \in Threads,
         \A u \in Threads : u # t => thread'[u] = thread[u],
         t \in Parsers /\ thread'[t].at = "idle" => thread'[t] \in Standing,
         t \in Parsers /\ thread'[t].at # "idle" => Pending(thread'[t])
  PROVE  Answers'
<1> SUFFICES ASSUME NEW u \in Parsers
             PROVE  (IF thread[u].at = "idle" THEN thread[u] \in Standing
                                              ELSE Pending(thread[u]))'
  BY DEF Answers
<1>1. CASE u = t
  <2>1. CASE thread'[t].at = "idle" BY <1>1, <2>1
  <2>2. CASE thread'[t].at # "idle"
    <3>1. Pending(thread'[t]) BY <1>1, <2>2
    <3>2. Pending(thread[t])' BY <3>1 DEF Pending
    <3> QED BY <1>1, <2>2, <3>2
  <2> QED BY <2>1, <2>2
<1>2. CASE u # t BY <1>2 DEF Answers, Pending, Threads
<1> QED BY <1>1, <1>2

(* What each thread has read so far stays right while the others go on, the lists
   are made, and midnight passes.                                           *)
LEMMA NextAnswers == Whole /\ Answers /\ [Next]_vars => Answers'
<1> SUFFICES ASSUME Whole, Answers, [Next]_vars PROVE Answers'
  OBVIOUS
<1>0. /\ Typed /\ thread \in [Threads -> Reader] /\ today \in Nat
      /\ Startup \notin Parsers
  BY ClockAssumption, ThreadsAssumption DEF Whole, Typed
<1>1. CASE Tick
  <2>1. today' = today + 1 /\ UNCHANGED thread BY <1>1 DEF Tick
  <2>2. ASSUME NEW t \in Parsers, Pending(thread[t]) PROVE Pending(thread[t])'
    <3>1. thread[t].day \in Nat BY <1>0 DEF Threads, Reader
    <3>2. thread'[t] = thread[t] BY <2>1
    <3>3. \A d \in Nat : d <= today => d <= today' BY <1>0, <2>1
    <3> QED BY <1>0, <2>1, <2>2, <3>1, <3>2, <3>3 DEF Pending
  <2> QED BY <2>1, <2>2 DEF Answers
<1>2. ASSUME NEW t \in Threads, Parse(t) PROVE Answers'
  <2>0. PICK typed \in Periods : ~TooManyParts(typed) /\ \E p \in Split(typed) :
          thread' = [thread EXCEPT ![t] =
                       [Nowhere EXCEPT !.at = "reading", !.typed = typed, !.period = p,
                                       !.part = IF p.begin = NoText THEN "end" ELSE "begin"]]
    BY <1>2 DEF Parse
  <2>1. PICK p \in Split(typed) :
          thread' = [thread EXCEPT ![t] =
                       [Nowhere EXCEPT !.at = "reading", !.typed = typed, !.period = p,
                                       !.part = IF p.begin = NoText THEN "end" ELSE "begin"]]
    BY <2>0
  <2> DEFINE begun == [Nowhere EXCEPT !.at = "reading", !.typed = typed, !.period = p,
                                      !.part = IF p.begin = NoText THEN "end" ELSE "begin"]
  <2>5. /\ begun.at = "reading" /\ begun.answer = "none" /\ begun.period = p
        /\ begun.typed = typed
        /\ begun.part = (IF p.begin = NoText THEN "end" ELSE "begin")
    BY DEF Nowhere
  <2> HIDE DEF begun
  <2>6. /\ thread'[t] = begun
        /\ \A u \in Threads : u # t => thread'[u] = thread[u]
    BY <1>0, <2>1 DEF begun
  <2>2. /\ thread'[t].at = "reading" /\ thread'[t].answer = "none" /\ thread'[t].period = p
        /\ thread'[t].typed = typed
        /\ thread'[t].part = (IF p.begin = NoText THEN "end" ELSE "begin")
        /\ \A u \in Threads : u # t => thread'[u] = thread[u]
    BY <2>5, <2>6
  <2>3. today' = today BY <1>2 DEF Parse
  <2>4. Pending(thread'[t]) BY <2>0, <2>2 DEF Pending
  <2> QED BY <2>2, <2>3, <2>4, OneAnswers
<1>9. ASSUME NEW t \in Threads, RefuseParts(t) PROVE Answers'
  <2>1. /\ thread'[t] \in Reader /\ thread'[t].at = "idle"
        /\ thread'[t].answer = "no_range" /\ TooManyParts(thread'[t].typed)
        /\ thread'[t].typed \in Periods
        /\ \A u \in Threads : u # t => thread'[u] = thread[u]
    BY <1>0, <1>9, RefusePartsRefuses
  <2>2. ~StandsAsTyped(thread'[t].typed)
    <3>1. Len(thread'[t].typed) \in Nat BY <2>1, PeriodsTyped
    <3> QED BY <2>1, <3>1 DEF TooManyParts, StandsAsTyped, HasDash
  <2>3. thread'[t] \in Standing BY <2>1, <2>2 DEF Standing, Stands
  <2>4. today' = today BY <1>9 DEF RefuseParts
  <2> QED BY <2>1, <2>3, <2>4, OneAnswers
<1>3. ASSUME NEW t \in Threads, NEW from \in Place \ {"idle", "reading"},
             NEW to \in Place \ {"idle", "reading"}, Goes(t, from, to), today' = today
      PROVE  Answers'
  <2>1. /\ thread[t].at = from /\ thread'[t].at = to
        /\ thread'[t].answer = thread[t].answer /\ thread'[t].period = thread[t].period
        /\ thread'[t].part = thread[t].part /\ thread'[t].day = thread[t].day
        /\ thread'[t].read = thread[t].read /\ thread'[t].typed = thread[t].typed
        /\ \A u \in Threads : u # t => thread'[u] = thread[u]
    BY <1>0, <1>3 DEF Goes, Reader
  <2>2. t \in Parsers => Pending(thread'[t]) BY <2>1 DEF Answers, Pending
  <2> QED BY <1>3, <2>1, <2>2, OneAnswers
<1>4. ASSUME NEW t \in Threads, InitFormats(t) PROVE Answers'
  <2>1. today' = today
    BY <1>4
    DEF InitFormats, Enter, Check, SetInit, Leave, GenerateTimeFormats,
        GenerateDateFormatsWithoutYear, GenerateDateFormats,
        GenerateDateTimeFormatsWithoutYear, GenerateDateTimeFormats, Adds
  <2>2. Inside \cup {"entering", "searching", "ended"} \subseteq Place \ {"idle", "reading"}
    BY DEF Inside, Generating, Place
  <2> QED BY <1>3, <1>4, <2>1, <2>2, InitFormatsMoves
<1>5. ASSUME NEW t \in Threads, AskInit(t) PROVE Answers'
  <2>1. {"asking", "searching", "entering"} \subseteq Place \ {"idle", "reading"} BY DEF Place
  <2>2. \E to \in {"searching", "entering"} : Goes(t, "asking", to) BY <1>5 DEF AskInit
  <2> QED BY <1>3, <1>5, <2>1, <2>2 DEF AskInit
<1>6. ASSUME NEW t \in Threads, ReadClock(t) PROVE Answers'
  <2>1. /\ thread[t].at = "reading" /\ thread'[t].at = "asking"
        /\ thread'[t].answer = thread[t].answer /\ thread'[t].period = thread[t].period
        /\ thread'[t].part = thread[t].part /\ thread'[t].day = today
        /\ thread'[t].read = thread[t].read /\ thread'[t].typed = thread[t].typed
        /\ \A u \in Threads : u # t => thread'[u] = thread[u]
    BY <1>0, <1>6 DEF ReadClock, Reader
  <2>2. t \in Parsers => Pending(thread'[t]) BY <1>0, <2>1 DEF Answers, Pending
  <2> QED BY <1>6, <2>1, <2>2, OneAnswers DEF ReadClock
<1>7. ASSUME NEW t \in Threads, Search(t) PROVE Answers'
  <2> DEFINE r == thread[t]
             part == r.part
             read == [r.read EXCEPT ![part] = ParseDate(r.period[part], part, r.day)]
  <2>1. thread[t].at = "searching" /\ today' = today BY <1>7 DEF Search
  <2>2. t \in Parsers BY <1>0, <2>1 DEF Typed, Inside, Generating, Threads
  <2>3. /\ r \in Reader /\ r.day \in Nat /\ part \in {"begin", "end"}
        /\ r.read \in [begin : Moment, end : Moment]
        /\ r.period \in Period /\ r.period[part] \in Text
    BY <1>0, <2>1, <2>2 DEF Reader, Typed
  <2>4. table = FullTo(5) BY <2>1 DEF Whole, Excluded, Built
  <2>5. ParseDate(r.period[part], part, r.day) = Reading(r.period[part], part, r.day)
    BY <2>3, <2>4, ParseDateReads
  <2>6. Pending(r) BY <2>1, <2>2 DEF Answers
  <2>7. /\ r.day <= today /\ r.answer = "none"
        /\ r.typed \in Periods /\ ~TooManyParts(r.typed) /\ r.period \in Split(r.typed)
    BY <2>1, <2>6 DEF Pending
  <2>8. /\ thread'[t].at = (IF part = "begin" THEN "reading" ELSE "idle")
        /\ thread'[t].part = "end" /\ thread'[t].read = read
        /\ thread'[t].period = r.period /\ thread'[t].day = r.day
        /\ thread'[t].typed = r.typed
        /\ thread'[t].answer = IF part = "begin" THEN "none" ELSE Answer(r.period, read)
        /\ \A u \in Threads : u # t => thread'[u] = thread[u]
    BY <1>0, <1>7 DEF Search, Reader
  <2>9. CASE part = "begin"
    <3>1. read.begin = Reading(r.period.begin, "begin", r.day) BY <2>3, <2>5, <2>9
    <3>2. Pending(thread'[t])
      BY <2>1, <2>3, <2>7, <2>8, <2>9, <3>1 DEF Pending
    <3>3. thread'[t].at # "idle" BY <2>8, <2>9
    <3> QED BY <2>1, <2>8, <3>2, <3>3, OneAnswers
  <2>10. CASE part = "end"
    <3>1. /\ read.end = Reading(r.period.end, "end", r.day)
          /\ read.begin = r.read.begin
      BY <2>3, <2>5, <2>10
    <3>2. r.period.begin # NoText =>
            \E d \in Nat : d <= r.day /\ read.begin = Reading(r.period.begin, "begin", d)
      BY <2>1, <2>6, <2>10, <3>1 DEF Pending
    <3>3. /\ Forward(r.period) => Answer(r.period, read) = "read"
          /\ Answer(r.period, read) = "read" /\ r.period.begin # NoText =>
               ~Earlier(read.end, read.begin)
          /\ Answer(r.period, read) = "read" =>
               /\ r.period.end.form \in Understood
               /\ r.period.begin # NoText => r.period.begin.form \in Understood
      <4> HIDE DEF read
      <4> QED BY <2>3, <3>1, <3>2, AnswerStands
    <3>8. /\ StandsAsTyped(r.typed) => Forward(r.period)
          /\ Answer(r.period, read) = "read" /\ HasDash(r.typed) => AllHours(r.typed)
      <4> HIDE DEF read
      <4> QED BY <2>7, <3>3, SplitStands
    <3>4. Stands(thread'[t])
      <4> HIDE DEF read
      <4> QED BY <2>8, <2>10, <3>3, <3>8 DEF Stands
    <3>5. thread'[t].at = "idle" BY <2>8, <2>10
    <3>6. thread'[t] \in Reader BY <1>0, NextTyped DEF Typed
    <3>7. thread'[t] \in Standing BY <3>4, <3>6 DEF Standing
    <3> QED BY <2>1, <2>8, <3>5, <3>7, OneAnswers
  <2> QED BY <2>3, <2>9, <2>10
<1>8. CASE UNCHANGED vars BY <1>8 DEF vars, Answers, Pending
<1> QED BY <1>1, <1>2, <1>4, <1>5, <1>6, <1>7, <1>8, <1>9 DEF Next, Step

(* Whatever the clock does between begin and end, no period that stands as it is
   typed, in dates without dashes, is refused, none that is accepted is reversed,
   and no date with dashes is read, but for those that may be taken for two times,
   for any number of threads and any periods.                               *)
THEOREM PeriodsStandCorrect == Spec => []PeriodsStand
<1>1. Init => Answers
  <2> SUFFICES ASSUME Init, NEW t \in Parsers
               PROVE  thread[t].at = "idle" /\ thread[t] \in Standing
    BY DEF Answers
  <2>1. thread[t] = Nowhere BY ThreadsAssumption DEF Init, Threads
  <2>2. thread[t] \in Reader BY InitTyped DEF Typed, Threads
  <2> QED BY <2>1, <2>2 DEF Nowhere, Standing
<1>2. ASSUME Answers, NEW t \in Parsers
      PROVE  /\ thread[t].answer # "none" /\ StandsAsTyped(thread[t].typed)
                  => thread[t].answer = "read"
             /\ thread[t].answer = "read" /\ thread[t].period.begin # NoText
                  => ~Earlier(thread[t].read.end, thread[t].read.begin)
             /\ thread[t].answer = "read" /\ HasDash(thread[t].typed)
                  => AllHours(thread[t].typed)
  <2>1. CASE thread[t].at = "idle"
    <3>1. thread[t] \in Standing BY <1>2, <2>1 DEF Answers
    <3>2. thread[t].answer # "none" => Stands(thread[t]) BY <3>1 DEF Standing
    <3> QED BY <3>2 DEF Stands
  <2>2. CASE thread[t].at # "idle"
    <3>1. thread[t].answer = "none" BY <1>2, <2>2 DEF Answers, Pending
    <3> QED BY <3>1
  <2> QED BY <2>1, <2>2
<1>3. Answers => PeriodsStand BY <1>2 DEF PeriodsStand, AllHours
<1> QED
  BY <1>1, <1>3, NextAnswers, WholeInvariant, PTL DEF Spec

(***************************************************************************)
(* The text of a command (CommandText).                                    *)
(***************************************************************************)
OfTag(key) == key.kind \in {"hash", "dash_hash"}
Kinds == {"word", "at", "hash", "dash_at", "dash_hash"}
Phases == {"reading", "filling", "done", "refused"}

(* The part of a tag holds its own name alone: so after a tag the key is the tag's
   and no word may follow, for that would be added to the part.             *)
NextIsNoWord == OfTag(current) => expectNewDelimiter

TextTypes ==
  /\ kind \in {"add", "edit"} /\ original \in Task /\ task \in Task
  /\ text \in Seq(Token) /\ current \in Key /\ expectNewDelimiter \in BOOLEAN
  /\ parts \in [Key -> Value] /\ keys \subseteq Key
  /\ phase \in Phases

TagParts ==
  \A k \in Key : OfTag(k) => \A i \in DOMAIN parts[k] : parts[k][i] = k.name

Limit ==
  /\ IsFiniteSet(original.tags) /\ IsFiniteSet(task.tags)
  /\ Cardinality(original.tags) <= MAXIMUM_TAGS => Cardinality(task.tags) <= MAXIMUM_TAGS

TextInv == TextTypes /\ NextIsNoWord /\ TagParts /\ Limit

-----------------------------------------------------------------------------
(* The key of a delimiter is a key of its kind; that of a tag is the tag itself. *)
LEMMA KeyTyped ==
  /\ \A t \in Token : t.kind \in Kinds /\ t.name \in Names \cup {Nameless}
  /\ \A k \in Key : k.kind \in Kinds
  /\ DescriptionKey \in Key /\ ~OfTag(DescriptionKey)
  /\ \A t \in Token : t.kind # "word" =>
       /\ KeyOf(t) \in Key /\ KeyOf(t).kind = t.kind
       /\ OfTag(t) => KeyOf(t) = t
<1>1. \A t \in Token : t.kind \in Kinds /\ t.name \in Names \cup {Nameless}
  BY DEF Token, Kinds
<1>2. DescriptionKey.kind = "word" BY DEF DescriptionKey, Blank
<1>3. ASSUME NEW t \in Token PROVE KeyOf(t).kind = t.kind
  BY DEF KeyOf, Token
<1>4. \A k \in Key : k.kind \in Kinds BY <1>1, <1>2, <1>3 DEF Key, Kinds
<1>5. \A t \in Token : OfTag(t) => KeyOf(t) = t BY DEF OfTag, KeyOf
<1>6. \A t \in Token : t.kind # "word" => KeyOf(t) \in Key BY DEF Key
<1>7. DescriptionKey \in Key BY DEF Key
<1> QED BY <1>1, <1>2, <1>3, <1>4, <1>5, <1>6, <1>7 DEF OfTag

(* A set of numbers that is not empty has a smallest one. *)
LEMMA HasSmallest ==
  ASSUME NEW S \in SUBSET Nat, S # {}
  PROVE  \E m \in S : \A k \in S : m <= k
<1> DEFINE Less == OpToRel(<, Nat)
<1>1. IsWellFoundedOn(Less, Nat) BY NatLessThanWellFounded DEF OpToRel
<1>2. \A i, j \in Nat : i < j => <<i, j>> \in Less BY DEF OpToRel
<1> HIDE DEF Less
<1>3. PICK m \in S : \A k \in S : ~(<<k, m>> \in Less) BY <1>1, WFMin
<1>4. \A k \in S : ~(k < m) BY <1>2, <1>3
<1> QED BY <1>4

(* A value with a name joined is one; of one name over and over it stays so. *)
LEMMA JoinedTyped ==
  ASSUME NEW value \in Value, NEW name \in Names \cup {Nameless}
  PROVE  /\ Joined(value, name) \in Value /\ Joined(value, name) # <<>>
         /\ (\A i \in DOMAIN value : value[i] = name) =>
              \A i \in DOMAIN Joined(value, name) : Joined(value, name)[i] = name
<1> DEFINE S == Names \cup {Nameless}
<1>1. CASE value \in {<<>>, <<Nameless>>}
  <2>1. Joined(value, name) = <<name>> BY <1>1 DEF Joined
  <2>2. <<name>> \in Seq(S) /\ <<name>> # <<>> OBVIOUS
  <2>3. \A i \in DOMAIN <<name>> : <<name>>[i] = name OBVIOUS
  <2> QED BY <2>1, <2>2, <2>3 DEF Value
<1>2. CASE value \notin {<<>>, <<Nameless>>}
  <2>1. Joined(value, name) = Append(value, name) BY <1>2 DEF Joined
  <2>2. value \in Seq(S) BY DEF Value
  <2>3. /\ Append(value, name) \in Seq(S) /\ Append(value, name) # <<>>
        /\ Len(Append(value, name)) = Len(value) + 1
        /\ \A i \in 1 .. Len(value) : Append(value, name)[i] = value[i]
        /\ Append(value, name)[Len(value) + 1] = name
    BY <2>2, AppendProperties
  <2>4. Len(value) \in Nat /\ DOMAIN value = 1 .. Len(value) BY <2>2, LenProperties
  <2>5. DOMAIN Append(value, name) = 1 .. Len(value) + 1 BY <2>3, LenProperties
  <2>6. \A i \in 1 .. Len(value) + 1 : i \in 1 .. Len(value) \/ i = Len(value) + 1
    BY <2>4
  <2> QED BY <2>1, <2>3, <2>4, <2>5, <2>6 DEF Value
<1> QED BY <1>1, <1>2

(* From the first name of a value to the last. *)
Spans(v, first, last) ==
  /\ first \in 1 .. Len(v) /\ last \in first .. Len(v)
  /\ v[first] # Nameless /\ v[last] # Nameless
  /\ \A j \in 1 .. Len(v) : v[j] # Nameless => first <= j /\ j <= last

(* What is trimmed goes from the first name to the last. *)
LEMMA TrimmedSpan ==
  ASSUME NEW v \in Value, NEW first, NEW last, Spans(v, first, last)
  PROVE  Trimmed(v) = SubSeq(v, first, last)
<1> DEFINE named == {i \in DOMAIN v : v[i] # Nameless}
           least == CHOOSE i \in named : \A j \in named : i <= j
           most == CHOOSE i \in named : \A j \in named : j <= i
<1>1. DOMAIN v = 1 .. Len(v) /\ Len(v) \in Nat BY LenProperties DEF Value
<1>2. first \in named /\ last \in named /\ named \subseteq Nat
  BY <1>1 DEF Spans
<1>3. \A j \in named : first <= j /\ j <= last BY <1>1 DEF Spans
<1>4. named # {} BY <1>2
<1>5. Trimmed(v) = SubSeq(v, least, most) BY <1>4 DEF Trimmed
<1> HIDE DEF named
<1>6. least \in named /\ \A j \in named : least <= j BY <1>2, <1>3
<1>7. most \in named /\ \A j \in named : j <= most BY <1>2, <1>3
<1>8. least <= first /\ first <= least /\ most <= last /\ last <= most
  BY <1>2, <1>3, <1>6, <1>7
<1>9. least \in Nat /\ most \in Nat /\ first \in Nat /\ last \in Nat
  BY <1>2, <1>6, <1>7
<1> HIDE DEF least, most
<1>10. least = first /\ most = last BY <1>8, <1>9
<1> QED BY <1>5, <1>10

(* A value has a name and so a first and a last one, or it is all blanks. *)
LEMMA TrimmedCases ==
  ASSUME NEW v \in Value
  PROVE  \/ (\A j \in 1 .. Len(v) : v[j] = Nameless) /\ Trimmed(v) = <<>>
         \/ \E first, last \in 1 .. Len(v) :
              Spans(v, first, last) /\ Trimmed(v) = SubSeq(v, first, last)
<1> DEFINE n == Len(v)
           named == {i \in DOMAIN v : v[i] # Nameless}
<1>1. DOMAIN v = 1 .. n /\ n \in Nat BY LenProperties DEF Value
<1>2. named \subseteq 1 .. n BY <1>1
<1>3. CASE named = {}
  <2>1. Trimmed(v) = <<>> BY <1>3 DEF Trimmed
  <2> QED BY <1>1, <1>3, <2>1
<1>4. CASE named # {}
  <2>1. \E i \in named : \A j \in named : i <= j
    <3>1. named \in SUBSET Nat BY <1>1, <1>2
    <3> HIDE DEF named
    <3> QED BY <1>4, <3>1, HasSmallest
  <2>2. \E i \in named : \A j \in named : j <= i
    <3> DEFINE mirrored == {m \in Nat : n + 1 - m \in named}
    <3> HIDE DEF named
    <3>1. \A i \in named : n + 1 - i \in mirrored
      <4> TAKE i \in named
      <4>1. i \in 1 .. n BY <1>2
      <4>2. n + 1 - i \in Nat /\ n + 1 - (n + 1 - i) = i BY <1>1, <4>1
      <4> QED BY <4>2
    <3>2. mirrored \in SUBSET Nat /\ mirrored # {} BY <1>4, <3>1
    <3>3. PICK m \in mirrored : \A k \in mirrored : m <= k
      <4> HIDE DEF mirrored
      <4> QED BY <3>2, HasSmallest
    <3>4. n + 1 - m \in named /\ m \in Nat OBVIOUS
    <3>5. ASSUME NEW j \in named PROVE j <= n + 1 - m
      <4>1. m <= n + 1 - j BY <3>1, <3>3
      <4>2. j \in 1 .. n BY <1>2
      <4> QED BY <1>1, <3>4, <4>1, <4>2
    <3> QED BY <3>4, <3>5
  <2>3. PICK first \in named : \A j \in named : first <= j BY <2>1
  <2>4. PICK last \in named : \A j \in named : j <= last BY <2>2
  <2>5. first \in 1 .. n /\ last \in 1 .. n /\ first <= last BY <1>2, <2>3
  <2>6. \A j \in 1 .. n : v[j] # Nameless => first <= j /\ j <= last
    BY <1>1, <2>3, <2>4
  <2>7. v[first] # Nameless /\ v[last] # Nameless OBVIOUS
  <2>8. Spans(v, first, last) BY <1>1, <2>5, <2>6, <2>7 DEF Spans
  <2> QED BY <2>5, <2>8, TrimmedSpan
<1> QED BY <1>3, <1>4

(* A piece of a value, name by name. *)
LEMMA Piece ==
  ASSUME NEW v \in Value, NEW first \in 1 .. Len(v), NEW last \in first .. Len(v)
  PROVE  /\ SubSeq(v, first, last) \in Value
         /\ Len(SubSeq(v, first, last)) = last - first + 1
         /\ \A i \in 1 .. last - first + 1 : SubSeq(v, first, last)[i] = v[first + i - 1]
<1>1. Len(v) \in Nat BY LenProperties DEF Value
<1>2. first \in Int /\ last \in Int /\ first <= last BY <1>1
<1>3. \A i \in first .. last : v[i] \in Names \cup {Nameless}
  <2> TAKE i \in first .. last
  <2>1. i \in 1 .. Len(v) BY <1>1
  <2> QED BY <2>1, ElementOfSeq DEF Value
<1> QED BY <1>2, <1>3, SubSeqProperties DEF Value

(* Trimming takes names of a value and makes none up. *)
LEMMA TrimmedTyped ==
  ASSUME NEW value \in Value
  PROVE  Trimmed(value) \in Value
<1>1. CASE Trimmed(value) = <<>>
  BY <1>1, EmptySeq DEF Value
<1>2. ASSUME NEW first \in 1 .. Len(value), NEW last \in 1 .. Len(value),
             Spans(value, first, last), Trimmed(value) = SubSeq(value, first, last)
      PROVE  Trimmed(value) \in Value
  <2>1. last \in first .. Len(value) BY <1>2 DEF Spans
  <2> QED BY <1>2, <2>1, Piece
<1> QED BY <1>1, <1>2, TrimmedCases

(* A new task is one, without a tag. *)
LEMMA FreshTyped == Fresh \in Task /\ IsFiniteSet(Fresh.tags) /\ Cardinality(Fresh.tags) = 0
<1>1. <<>> \in Value BY EmptySeq DEF Value
<1>2. Fresh.tags = {} BY DEF Fresh
<1> QED BY <1>1, <1>2, FS_EmptySet DEF Fresh, NoDate, Task

(* What one part does to the task. *)
LEMMA FilledParts ==
  ASSUME TextInv, NEW key \in Key
  PROVE  /\ Filled(key) \in Task
         /\ Filled(key).tags =
              IF key.kind = "hash" THEN task.tags \cup {Trimmed(parts[key])}
              ELSE IF key.kind = "dash_hash" /\ kind = "edit"
                   THEN task.tags \ {Trimmed(parts[key])} ELSE task.tags
         /\ Filled(key).description =
              IF key.kind = "word" /\ kind = "edit" THEN Trimmed(parts[key])
              ELSE task.description
         /\ Filled(key).date =
              IF key.kind = "at" THEN Trimmed(parts[key])
              ELSE IF key.kind = "dash_at" /\ kind = "edit" THEN NoDate ELSE task.date
<1> DEFINE value == Trimmed(parts[key])
<1>1. value \in Value BY TrimmedTyped DEF TextInv, TextTypes
<1>2. task \in Task /\ kind \in {"add", "edit"} BY DEF TextInv, TextTypes
<1>3. key.kind \in Kinds BY KeyTyped
<1>4. NoDate \in Value BY EmptySeq DEF NoDate, Value
<1>5. Filled(key) =
        CASE key.kind = "hash" -> [task EXCEPT !.tags = @ \cup {value}]
          [] key.kind = "at" -> [task EXCEPT !.date = value]
          [] key.kind = "word" /\ kind = "edit" -> [task EXCEPT !.description = value]
          [] key.kind = "dash_hash" /\ kind = "edit" -> [task EXCEPT !.tags = @ \ {value}]
          [] key.kind = "dash_at" /\ kind = "edit" -> [task EXCEPT !.date = NoDate]
          [] key.kind \in {"word", "dash_hash", "dash_at"} /\ kind = "add" -> task
  BY DEF Filled
<1> HIDE DEF value
<1>6. CASE key.kind = "hash"
  <2>1. Filled(key) = [task EXCEPT !.tags = @ \cup {value}] BY <1>5, <1>6
  <2> QED BY <1>1, <1>2, <1>6, <2>1 DEF Task, value
<1>7. CASE key.kind = "at"
  <2>1. Filled(key) = [task EXCEPT !.date = value] BY <1>5, <1>7
  <2> QED BY <1>1, <1>2, <1>7, <2>1 DEF Task, value
<1>8. CASE key.kind \in {"word", "dash_hash", "dash_at"} /\ kind = "add"
  <2>1. Filled(key) = task BY <1>5, <1>8
  <2> QED BY <1>2, <1>8, <2>1
<1>9. CASE key.kind = "word" /\ kind = "edit"
  <2>1. Filled(key) = [task EXCEPT !.description = value] BY <1>5, <1>9
  <2> QED BY <1>1, <1>2, <1>9, <2>1 DEF Task, value
<1>10. CASE key.kind = "dash_hash" /\ kind = "edit"
  <2>1. Filled(key) = [task EXCEPT !.tags = @ \ {value}] BY <1>5, <1>10
  <2> QED BY <1>1, <1>2, <1>10, <2>1 DEF Task, value
<1>11. CASE key.kind = "dash_at" /\ kind = "edit"
  <2>1. Filled(key) = [task EXCEPT !.date = NoDate] BY <1>5, <1>11
  <2> QED BY <1>2, <1>4, <1>11, <2>1 DEF Task
<1> QED BY <1>2, <1>3, <1>6, <1>7, <1>8, <1>9, <1>10, <1>11 DEF Kinds

-----------------------------------------------------------------------------
(* It holds at first. *)
LEMMA InitText == TextInit => TextInv
<1> SUFFICES ASSUME TextInit PROVE TextInv
  OBVIOUS
<1>1. parts = [k \in Key |-> <<>>] BY DEF TextInit, NoParts
<1>2. <<>> \in Value /\ <<>> \in Seq(Token) BY EmptySeq DEF Value
<1>3. parts \in [Key -> Value] BY <1>1, <1>2
<1>4. TagParts BY <1>1 DEF TagParts
<1>5. original = Fresh /\ task = Fresh BY DEF TextInit
<1>6. Limit BY <1>5, FreshTyped DEF Limit
<1>7. TextTypes BY <1>2, <1>3, <1>5, FreshTyped, KeyTyped DEF TextInit, TextTypes, Phases
<1>8. NextIsNoWord BY KeyTyped DEF TextInit, NextIsNoWord
<1> QED BY <1>4, <1>6, <1>7, <1>8 DEF TextInv

(* Another command starts it anew. *)
LEMMA BeginTextKeeps ==
  ASSUME TextInv, BeginText
  PROVE  TextInv'
<1>1. parts' = [k \in Key |-> <<>>] BY DEF BeginText, NoParts
<1>2. <<>> \in Value /\ <<>> \in Seq(Token) BY EmptySeq DEF Value
<1>3. parts' \in [Key -> Value] BY <1>1, <1>2
<1>4. TagParts' BY <1>1 DEF TagParts
<1>5. original' \in Task /\ IsFiniteSet(original'.tags) /\ kind' \in {"add", "edit"}
  BY FreshTyped, TasksAssumption DEF BeginText
<1>6. task' = original' BY DEF BeginText
<1>7. Limit' BY <1>5, <1>6 DEF Limit
<1>8. TextTypes' BY <1>2, <1>3, <1>5, <1>6, KeyTyped DEF BeginText, TextTypes, Phases
<1>9. NextIsNoWord' BY KeyTyped DEF BeginText, NextIsNoWord
<1> QED BY <1>4, <1>7, <1>8, <1>9 DEF TextInv

(* No word gets into the part of a tag. *)
LEMMA ReadTokenKeeps ==
  ASSUME TextInv, ReadToken
  PROVE  TextInv'
<1>1. PICK t \in Token :
        /\ MayFollow(t) /\ ~Misplaced(t)
        /\ text' = Append(text, t)
        /\ current' = IF t.kind = "word" THEN current ELSE KeyOf(t)
        /\ expectNewDelimiter' = (t.kind \notin {"word", "at"})
        /\ parts' = [parts EXCEPT ![current'] = Joined(@, t.name)]
        /\ UNCHANGED <<commandVars, keys, task, phase>>
  BY DEF ReadToken
<1>2. t.name \in Names \cup {Nameless} /\ t.kind \in Kinds BY KeyTyped
<1>3. current' \in Key BY <1>1, KeyTyped DEF TextInv, TextTypes
<1>4. OfTag(current') => current' = t
  <2>1. CASE t.kind = "word"
    <3>1. ~expectNewDelimiter BY <1>1, <2>1 DEF Misplaced
    <3> QED BY <1>1, <2>1, <3>1 DEF TextInv, NextIsNoWord
  <2>2. CASE t.kind # "word"
    <3>1. current' = KeyOf(t) /\ KeyOf(t).kind = t.kind BY <1>1, <2>2, KeyTyped
    <3> QED BY <2>2, <3>1, KeyTyped DEF OfTag
  <2> QED BY <2>1, <2>2
<1>5. NextIsNoWord' BY <1>1, <1>4 DEF NextIsNoWord, OfTag
<1> DEFINE old == parts[current']
           new == Joined(old, t.name)
<1>6. old \in Value BY <1>3 DEF TextInv, TextTypes
<1>7. new \in Value BY <1>2, <1>6, JoinedTyped
<1>8. /\ parts' \in [Key -> Value]
      /\ \A k \in Key : parts'[k] = IF k = current' THEN new ELSE parts[k]
  <2>1. parts \in [Key -> Value] BY DEF TextInv, TextTypes
  <2>2. parts' = [parts EXCEPT ![current'] = new] BY <1>1, <1>3, <2>1
  <2> HIDE DEF new
  <2> QED BY <1>3, <1>7, <2>1, <2>2
<1>9. TagParts'
  <2> SUFFICES ASSUME NEW k \in Key, OfTag(k), NEW i \in DOMAIN parts'[k]
               PROVE  parts'[k][i] = k.name
    BY DEF TagParts
  <2>1. CASE k # current' BY <1>8, <2>1 DEF TextInv, TagParts
  <2>2. CASE k = current'
    <3>1. k.name = t.name BY <1>4, <2>2
    <3>2. \A j \in DOMAIN old : old[j] = t.name
      BY <1>3, <2>2, <3>1 DEF TextInv, TagParts
    <3>3. \A j \in DOMAIN new : new[j] = t.name BY <1>2, <1>6, <3>2, JoinedTyped
    <3>4. parts'[k] = new BY <1>8, <2>2
    <3> HIDE DEF new
    <3> QED BY <3>1, <3>3, <3>4
  <2> QED BY <2>1, <2>2
<1>10. text' \in Seq(Token) BY <1>1, AppendProperties DEF TextInv, TextTypes
<1>11. TextTypes'
  BY <1>1, <1>3, <1>8, <1>10 DEF TextInv, TextTypes, commandVars
<1>12. Limit' BY <1>1 DEF TextInv, Limit, commandVars
<1> QED BY <1>5, <1>9, <1>11, <1>12 DEF TextInv

(* The description of an add changes no tag. *)
LEMMA DecomposedKeeps ==
  ASSUME TextInv, Decomposed
  PROVE  TextInv'
<1>1. task \in Task /\ parts[DescriptionKey] \in Value
  BY KeyTyped DEF TextInv, TextTypes
<1>2. task' \in Task /\ task'.tags = task.tags
  BY <1>1 DEF Decomposed, Task
<1>3. keys' \subseteq Key /\ phase' = "filling" BY DEF Decomposed
<1>4. UNCHANGED <<kind, original, text, parts, current, expectNewDelimiter>>
  BY DEF Decomposed, commandVars
<1>5. TextTypes' BY <1>2, <1>3, <1>4 DEF TextInv, TextTypes, Phases
<1> QED BY <1>2, <1>4, <1>5 DEF TextInv, NextIsNoWord, TagParts, Limit

(* A tag is added only where there is room for it. *)
LEMMA FillKeeps ==
  ASSUME TextInv, Fill
  PROVE  TextInv'
<1>1. PICK key \in keys : ~Refused(key) /\ task' = Filled(key) /\ keys' = keys \ {key}
  BY DEF Fill
<1>2. key \in Key /\ keys \subseteq Key BY DEF TextInv, TextTypes
<1>3. UNCHANGED <<kind, original, text, parts, current, expectNewDelimiter, phase>>
  BY DEF Fill, commandVars
<1> DEFINE value == Trimmed(parts[key])
<1>4. IsFiniteSet(task.tags) /\ Cardinality(task.tags) \in Nat /\ MAXIMUM_TAGS \in Nat
  BY FS_CardinalityType, LimitsAssumption DEF TextInv, Limit
<1>5. task' \in Task BY <1>1, <1>2, FilledParts
<1>6. /\ IsFiniteSet(task'.tags)
      /\ Cardinality(task.tags) <= MAXIMUM_TAGS => Cardinality(task'.tags) <= MAXIMUM_TAGS
  <2>1. CASE task'.tags = task.tags BY <1>4, <2>1
  <2>2. CASE task'.tags = task.tags \ {value}
    <3>1. /\ IsFiniteSet(task.tags \ {value})
          /\ Cardinality(task.tags \ {value}) \in
               {Cardinality(task.tags), Cardinality(task.tags) - 1}
      BY <1>4, FS_RemoveElement
    <3> HIDE DEF value
    <3> QED BY <1>4, <2>2, <3>1
  <2>3. CASE task'.tags = task.tags \cup {value} /\ key.kind = "hash"
    <3>1. ~(Cardinality(task.tags) >= MAXIMUM_TAGS)
      BY <1>1, <2>3 DEF Refused, TooManyTags
    <3>2. /\ IsFiniteSet(task.tags \cup {value})
          /\ Cardinality(task.tags \cup {value}) \in
               {Cardinality(task.tags), Cardinality(task.tags) + 1}
      BY <1>4, FS_AddElement
    <3> HIDE DEF value
    <3> QED BY <1>4, <2>3, <3>1, <3>2
  <2> QED BY <1>1, <1>2, <2>1, <2>2, <2>3, FilledParts
<1>7. TextTypes' BY <1>1, <1>2, <1>3, <1>5 DEF TextInv, TextTypes
<1>8. Limit'
  BY <1>3, <1>6 DEF TextInv, Limit
<1> QED BY <1>3, <1>7, <1>8 DEF TextInv, NextIsNoWord, TagParts

(* Every step keeps it. *)
LEMMA StepText == TextInv /\ [TextNext]_textVars => TextInv'
<1> SUFFICES ASSUME TextInv, [TextNext]_textVars PROVE TextInv'
  OBVIOUS
<1>1. CASE RefuseToken
  <2>1. \E t \in Token : text' = Append(text, t) BY <1>1 DEF RefuseToken
  <2>2. text' \in Seq(Token) BY <2>1, AppendProperties DEF TextInv, TextTypes
  <2> QED BY <1>1, <2>2
      DEF RefuseToken, TextInv, TextTypes, NextIsNoWord, TagParts, Limit, commandVars, Phases
<1>2. CASE RefuseUndescribed \/ RefusePart \/ MakeCommand
  BY <1>2 DEF RefuseUndescribed, RefusePart, MakeCommand,
      TextInv, TextTypes, NextIsNoWord, TagParts, Limit, commandVars, Phases
<1>3. CASE UNCHANGED textVars
  BY <1>3 DEF textVars, TextInv, TextTypes, NextIsNoWord, TagParts, Limit, commandVars
<1> QED BY <1>1, <1>2, <1>3, BeginTextKeeps, ReadTokenKeeps, DecomposedKeeps, FillKeeps
  DEF TextNext

(* So it holds of any text at any time. *)
LEMMA Texts == TextSpec => []TextInv
  BY InitText, StepText, PTL DEF TextSpec

-----------------------------------------------------------------------------
(* Every variable keeps its type, and no word behind a tag gets into its part. *)
THEOREM TextTyped == TextSpec => []TypeOKText
<1>1. TextInv => TypeOKText BY DEF TextInv, TextTypes, TagParts, OfTag, Phases, TypeOKText
<1> QED BY <1>1, Texts, PTL

(* A task that had no more tags than there may be never gets more, whatever the
   order its parts are applied in: the third of the rules texts are judged by. *)
THEOREM NeverTooManyTags ==
  TextSpec => [](Cardinality(original.tags) <= MAXIMUM_TAGS =>
                   Cardinality(task.tags) <= MAXIMUM_TAGS)
<1>1. TextInv => (Cardinality(original.tags) <= MAXIMUM_TAGS =>
                    Cardinality(task.tags) <= MAXIMUM_TAGS)
  BY DEF TextInv, Limit
<1> QED BY <1>1, Texts, PTL

-----------------------------------------------------------------------------
IsDelimiter(t) == t.kind \in {"hash", "dash_hash", "dash_at"}

(* Of what has been read, what the next token is judged by: whether there is a date,
   and whether the last token was a delimiter no word may follow.           *)
WellFormed ==
  /\ ~IsMalformed
  /\ \A i \in DOMAIN text : text[i].kind = "at" => parts[AtKey] # <<>>
  /\ text # <<>> /\ IsDelimiter(text[Len(text)]) => expectNewDelimiter

FormInv == phase # "refused" => WellFormed

(* There is nothing wrong with no text. *)
LEMMA EmptyIsWellFormed ==
  ASSUME text = <<>>
  PROVE  WellFormed
  BY DEF WellFormed, IsMalformed

(* A token that is taken leaves the text well-formed. *)
LEMMA ReadTokenForms ==
  ASSUME TextInv, FormInv, ReadToken
  PROVE  WellFormed'
<1> DEFINE n == Len(text)
<1>1. PICK t \in Token :
        /\ MayFollow(t) /\ ~Misplaced(t)
        /\ text' = Append(text, t)
        /\ current' = IF t.kind = "word" THEN current ELSE KeyOf(t)
        /\ expectNewDelimiter' = (t.kind \notin {"word", "at"})
        /\ parts' = [parts EXCEPT ![current'] = Joined(@, t.name)]
  BY DEF ReadToken
<1>2. WellFormed BY <1>1 DEF FormInv, MayFollow
<1>3. text \in Seq(Token) /\ parts \in [Key -> Value] BY DEF TextInv, TextTypes
<1>4. n \in Nat /\ DOMAIN text = 1 .. n BY <1>3, LenProperties
<1>5. /\ DOMAIN text' = 1 .. n + 1 /\ Len(text') = n + 1
      /\ \A i \in 1 .. n : text'[i] = text[i]
      /\ text'[n + 1] = t
  BY <1>1, <1>3, AppendProperties, LenProperties
<1> HIDE DEF n
<1>6. \A i \in 1 .. n + 1 : i \in 1 .. n \/ i = n + 1 BY <1>4
<1>7. current' \in Key BY <1>1, KeyTyped DEF TextInv, TextTypes
<1>8. parts'[current'] # <<>> /\ \A k \in Key : k # current' => parts'[k] = parts[k]
  <2>1. parts'[current'] = Joined(parts[current'], t.name) BY <1>1, <1>3, <1>7
  <2>2. parts[current'] \in Value BY <1>3, <1>7
  <2> QED BY <1>1, <1>3, <1>7, <2>1, <2>2, KeyTyped, JoinedTyped
<1>9. AtKey \in Key /\ (t.kind = "at" => current' = AtKey)
  <2>1. \A u \in Token : u.kind = "at" => KeyOf(u) = AtKey BY DEF Token, KeyOf, AtKey
  <2>2. AtKey \in Token /\ AtKey.kind = "at" BY DEF AtKey, Token
  <2>3. AtKey \in Key BY <2>1, <2>2, KeyTyped
  <2> QED BY <1>1, <2>1, <2>3
<1>10. \A i \in 1 .. n + 1 : text'[i].kind = "at" => parts'[AtKey] # <<>>
  BY <1>2, <1>4, <1>5, <1>6, <1>8, <1>9 DEF WellFormed
<1>11. ~\E i, j \in 1 .. n + 1 : i # j /\ text'[i].kind = "at" /\ text'[j].kind = "at"
  <2>1. t.kind = "at" => \A i \in 1 .. n : text[i].kind # "at"
    BY <1>1, <1>2, <1>4 DEF Misplaced, WellFormed
  <2>2. \A i, j \in 1 .. n : i # j => ~(text[i].kind = "at" /\ text[j].kind = "at")
    BY <1>2, <1>4 DEF WellFormed, IsMalformed
  <2> QED BY <1>5, <1>6, <2>1, <2>2
<1>12. ~\E i \in 1 .. n + 1 : text'[i].kind \in {"hash", "dash_hash"} /\ text'[i].name = Nameless
  BY <1>1, <1>2, <1>4, <1>5, <1>6 DEF WellFormed, IsMalformed, Misplaced
<1>13. ~\E i \in 1 .. n + 1 : i > 1 /\ text'[i].kind = "word" /\ IsDelimiter(text'[i - 1])
  <2> SUFFICES ASSUME NEW i \in 1 .. n + 1, i > 1, text'[i].kind = "word",
                      IsDelimiter(text'[i - 1])
               PROVE  FALSE
    OBVIOUS
  <2>1. i - 1 \in 1 .. n BY <1>4
  <2>2. text'[i - 1] = text[i - 1] BY <1>5, <2>1
  <2>3. CASE i \in 1 .. n
    BY <1>2, <1>4, <1>5, <2>2, <2>3 DEF WellFormed, IsMalformed, IsDelimiter
  <2>4. CASE i = n + 1
    <3>1. t.kind = "word" /\ ~expectNewDelimiter BY <1>1, <1>5, <2>4 DEF Misplaced
    <3>2. n = i - 1 /\ text # <<>> BY <1>4, <2>1, <2>4
    <3> QED BY <1>2, <2>2, <3>1, <3>2 DEF WellFormed, n
  <2> QED BY <1>6, <2>3, <2>4
<1>14. ~IsMalformed'
  BY <1>5, <1>11, <1>12, <1>13 DEF IsMalformed, IsDelimiter
<1>15. IsDelimiter(text'[Len(text')]) => expectNewDelimiter'
  BY <1>1, <1>5 DEF IsDelimiter
<1> QED BY <1>5, <1>10, <1>14, <1>15 DEF WellFormed

(* Every step keeps a text well-formed that is not refused. *)
LEMMA StepForm == TextInv /\ FormInv /\ [TextNext]_textVars => FormInv'
<1> SUFFICES ASSUME TextInv, FormInv, [TextNext]_textVars PROVE FormInv'
  OBVIOUS
<1>1. CASE BeginText
  <2>1. (text = <<>>)' BY <1>1 DEF BeginText
  <2> QED BY <2>1 DEF FormInv, WellFormed, IsMalformed
<1>2. CASE ReadToken BY <1>2, ReadTokenForms DEF FormInv
<1>3. CASE RefuseToken \/ RefuseUndescribed \/ RefusePart
  BY <1>3 DEF RefuseToken, RefuseUndescribed, RefusePart, FormInv
<1>4. CASE Decomposed \/ Fill \/ MakeCommand \/ UNCHANGED textVars
  <2>1. UNCHANGED <<text, parts, expectNewDelimiter>>
    BY <1>4 DEF Decomposed, Fill, MakeCommand, textVars
  <2>2. phase' # "refused" => phase # "refused"
    BY <1>4 DEF Decomposed, IsWhole, Fill, MakeCommand, textVars
  <2>3. WellFormed => WellFormed' BY <2>1 DEF WellFormed, IsMalformed
  <2> QED BY <2>2, <2>3 DEF FormInv
<1> QED BY <1>1, <1>2, <1>3, <1>4 DEF TextNext

(* No command comes of a text with two dates, a nameless tag, or a word behind a tag,
   however it goes on: the first half of the second of the rules.           *)
THEOREM MalformedIsRefused == TextSpec => [](phase = "done" => ~IsMalformed)
<1>1. TextInit => FormInv BY EmptyIsWellFormed DEF TextInit, FormInv
<1>2. FormInv => (phase = "done" => ~IsMalformed) BY DEF FormInv, WellFormed
<1> QED BY <1>1, <1>2, StepForm, Texts, PTL DEF TextSpec

-----------------------------------------------------------------------------
(* Values and words *)

(* What is trimmed is not trimmed further. *)
LEMMA TrimmedTwice ==
  ASSUME NEW v \in Value
  PROVE  Trimmed(Trimmed(v)) = Trimmed(v)
<1>1. CASE Trimmed(v) = <<>>
  <2>1. <<>> \in Value /\ Len(<<>>) = 0 BY EmptySeq DEF Value
  <2>2. Trimmed(<<>>) = <<>> BY <2>1, TrimmedCases
  <2> QED BY <1>1, <2>2
<1>2. ASSUME NEW first \in 1 .. Len(v), NEW last \in 1 .. Len(v),
             Spans(v, first, last), Trimmed(v) = SubSeq(v, first, last)
      PROVE  Trimmed(Trimmed(v)) = Trimmed(v)
  <2> DEFINE u == SubSeq(v, first, last)
             m == last - first + 1
  <2>1. last \in first .. Len(v) /\ Len(v) \in Nat
        /\ v[first] # Nameless /\ v[last] # Nameless
    BY <1>2, LenProperties DEF Spans, Value
  <2>2. u \in Value /\ Len(u) = m /\ \A i \in 1 .. m : u[i] = v[first + i - 1]
    BY <2>1, Piece
  <2>3. m \in Nat /\ m >= 1 /\ first + 1 - 1 = first /\ first + m - 1 = last BY <2>1
  <2> HIDE DEF u
  <2>4. u[1] = v[first] /\ u[m] = v[last]
    <3>1. 1 \in 1 .. m /\ m \in 1 .. m BY <2>3
    <3>2. u[1] = v[first + 1 - 1] /\ u[m] = v[first + m - 1] BY <2>2, <3>1
    <3> HIDE DEF m
    <3> QED BY <2>3, <3>2
  <2>5. Spans(u, 1, m)
    <3> HIDE DEF m
    <3> QED BY <2>1, <2>2, <2>3, <2>4 DEF Spans
  <2>6. Trimmed(u) = SubSeq(u, 1, m) BY <2>2, <2>5, TrimmedSpan
  <2>7. SubSeq(u, 1, m) = u BY <2>2, SubSeqFull DEF Value
  <2> QED BY <1>2, <2>6, <2>7 DEF u
<1> QED BY <1>1, <1>2, TrimmedCases

(* A name alone is what it is. *)
LEMMA TrimmedName ==
  ASSUME NEW name \in Names
  PROVE  Trimmed(<<name>>) = <<name>>
<1>1. <<name>> \in Value /\ Len(<<name>>) = 1 /\ <<name>>[1] = name BY DEF Value
<1>2. name # Nameless BY NamesAssumption
<1>3. Spans(<<name>>, 1, 1) BY <1>1, <1>2 DEF Spans
<1>4. Trimmed(<<name>>) = SubSeq(<<name>>, 1, 1) BY <1>1, <1>3, TrimmedSpan
<1> QED BY <1>1, <1>4, SubSeqFull DEF Value

(* The words, but for some of the blanks they begin with: what joining them one by
   one makes of them, for a blank alone is overwritten.                     *)
Holds(value, words) ==
  /\ value = <<>> <=> words = <<>>
  /\ \E m \in 0 .. Len(words) :
       /\ Len(value) = Len(words) - m
       /\ \A j \in 1 .. m : words[j] = Nameless
       /\ \A j \in 1 .. Len(value) : value[j] = words[m + j]

(* So when it is trimmed it is the words trimmed. *)
LEMMA HoldsTrimmed ==
  ASSUME NEW v \in Value, NEW w \in Value, Holds(v, w)
  PROVE  Trimmed(v) = Trimmed(w)
<1>1. Len(v) \in Nat /\ Len(w) \in Nat BY LenProperties DEF Value
<1>2. PICK m \in 0 .. Len(w) :
        /\ Len(v) = Len(w) - m
        /\ \A j \in 1 .. m : w[j] = Nameless
        /\ \A j \in 1 .. Len(v) : v[j] = w[m + j]
  BY DEF Holds
<1>3. ASSUME NEW j \in 1 .. Len(w), w[j] # Nameless
      PROVE  j - m \in 1 .. Len(v) /\ v[j - m] = w[j]
  <2>1. ~(j \in 1 .. m) BY <1>2, <1>3
  <2>2. j - m \in 1 .. Len(v) /\ m + (j - m) = j BY <1>1, <1>2, <2>1
  <2>3. v[j - m] = w[m + (j - m)] BY <1>2, <2>2
  <2> QED BY <2>2, <2>3
<1>4. CASE (\A j \in 1 .. Len(v) : v[j] = Nameless) /\ Trimmed(v) = <<>>
  <2>1. \A j \in 1 .. Len(w) : w[j] = Nameless BY <1>3, <1>4
  <2>2. Trimmed(w) = <<>> BY <2>1, TrimmedCases DEF Spans
  <2> QED BY <1>4, <2>2
<1>5. ASSUME NEW first \in 1 .. Len(v), NEW last \in 1 .. Len(v),
             Spans(v, first, last), Trimmed(v) = SubSeq(v, first, last)
      PROVE  Trimmed(v) = Trimmed(w)
  <2>1. last \in first .. Len(v) /\ v[first] # Nameless /\ v[last] # Nameless
    BY <1>5 DEF Spans
  <2>2. /\ m + first \in 1 .. Len(w) /\ m + last \in m + first .. Len(w)
        /\ w[m + first] = v[first] /\ w[m + last] = v[last]
    BY <1>1, <1>2, <2>1
  <2>3. ASSUME NEW j \in 1 .. Len(w), w[j] # Nameless
        PROVE  m + first <= j /\ j <= m + last
    <3>1. j - m \in 1 .. Len(v) /\ v[j - m] = w[j] BY <1>3, <2>3
    <3>2. first <= j - m /\ j - m <= last BY <1>5, <2>3, <3>1 DEF Spans
    <3> QED BY <1>1, <2>1, <3>1, <3>2
  <2>4. Spans(w, m + first, m + last) BY <2>1, <2>2, <2>3 DEF Spans
  <2> DEFINE a == SubSeq(v, first, last)
             b == SubSeq(w, m + first, m + last)
             n == last - first + 1
  <2>5. Trimmed(w) = b BY <2>4, TrimmedSpan
  <2>6. a \in Value /\ Len(a) = n /\ \A i \in 1 .. n : a[i] = v[first + i - 1]
    BY <2>1, Piece
  <2>7. b \in Value /\ Len(b) = n /\ \A i \in 1 .. n : b[i] = w[m + first + i - 1]
    <3>1. m + last - (m + first) + 1 = n BY <1>1, <2>1
    <3> QED BY <2>2, <3>1, Piece
  <2>8. ASSUME NEW i \in 1 .. n PROVE a[i] = b[i]
    <3>1. first + i - 1 \in 1 .. Len(v) /\ m + (first + i - 1) = m + first + i - 1
      BY <1>1, <2>1
    <3>2. v[first + i - 1] = w[m + (first + i - 1)] BY <1>2, <3>1
    <3> HIDE DEF a, b, n
    <3> QED BY <2>6, <2>7, <3>1, <3>2
  <2> HIDE DEF a, b
  <2>9. a = b BY <2>6, <2>7, <2>8, SeqEqual DEF Value
  <2> QED BY <1>5, <2>5, <2>9 DEF a
<1> QED BY <1>4, <1>5, TrimmedCases

(* It stays so when one more is joined. *)
LEMMA JoinedHolds ==
  ASSUME NEW v \in Value, NEW w \in Value, NEW name \in Names \cup {Nameless}, Holds(v, w)
  PROVE  Holds(Joined(v, name), Append(w, name))
<1> DEFINE S == Names \cup {Nameless}
<1>0. Len(v) \in Nat /\ Len(w) \in Nat BY LenProperties DEF Value
<1>1. v \in Seq(S) /\ w \in Seq(S) /\ Len(v) \in Nat /\ Len(w) \in Nat
  BY <1>0 DEF Value
<1>2. PICK m \in 0 .. Len(w) :
        /\ Len(v) = Len(w) - m
        /\ \A j \in 1 .. m : w[j] = Nameless
        /\ \A j \in 1 .. Len(v) : v[j] = w[m + j]
  BY DEF Holds
<1> DEFINE x == Append(w, name)
<1>3. /\ x \in Seq(S) /\ x # <<>> /\ Len(x) = Len(w) + 1
      /\ \A i \in 1 .. Len(w) : x[i] = w[i]
      /\ x[Len(w) + 1] = name
  BY <1>1, AppendProperties
<1> HIDE DEF x
<1>4. CASE v \in {<<>>, <<Nameless>>}
  <2>1. Joined(v, name) = <<name>> BY <1>4 DEF Joined
  <2>2. \A j \in 1 .. Len(w) : w[j] = Nameless
    <3>1. CASE v = <<>>
      <4>1. w = <<>> BY <3>1 DEF Holds
      <4> QED BY <4>1
    <3>2. CASE v = <<Nameless>>
      <4>0. Len(v) = 1 BY <3>2
      <4>1. Len(v) = 1 /\ v[1] = Nameless BY <3>2
      <4>2. Len(w) = m + 1
        <5>1. Len(w) = Len(v) + m /\ m \in Int BY <1>0, <1>2
        <5> QED BY <1>0, <4>0, <5>1
      <4>3. 1 \in 1 .. Len(v) BY <4>1
      <4>4. w[m + 1] = Nameless BY <1>2, <4>1, <4>3
      <4>5. \A j \in 1 .. m + 1 : j \in 1 .. m \/ j = m + 1 BY <1>2
      <4> QED BY <1>2, <4>2, <4>4, <4>5
    <3> QED BY <1>4, <3>1, <3>2
  <2>3. Len(w) \in 0 .. Len(x) /\ Len(<<name>>) = Len(x) - Len(w)
        /\ \A j \in 1 .. Len(<<name>>) : <<name>>[j] = x[Len(w) + j]
    BY <1>1, <1>3
  <2>4. \A j \in 1 .. Len(w) : x[j] = Nameless BY <1>3, <2>2
  <2>5. <<name>> # <<>> OBVIOUS
  <2>6. Holds(<<name>>, x) BY <1>3, <2>3, <2>4, <2>5 DEF Holds
  <2> QED BY <2>1, <2>6 DEF x
<1>5. CASE v \notin {<<>>, <<Nameless>>}
  <2> DEFINE u == Append(v, name)
  <2>1. Joined(v, name) = u BY <1>5 DEF Joined
  <2>2. /\ u # <<>> /\ Len(u) = Len(v) + 1
        /\ \A i \in 1 .. Len(v) : u[i] = v[i]
        /\ u[Len(v) + 1] = name
    BY <1>1, AppendProperties
  <2> HIDE DEF u
  <2>3. m \in 0 .. Len(x) /\ Len(u) = Len(x) - m BY <1>1, <1>2, <1>3, <2>2
  <2>4. \A j \in 1 .. m : x[j] = Nameless BY <1>1, <1>2, <1>3
  <2>5. ASSUME NEW j \in 1 .. Len(u) PROVE u[j] = x[m + j]
    <3>1. CASE j \in 1 .. Len(v)
      <4>1. m + j \in 1 .. Len(w) BY <1>1, <1>2, <3>1
      <4> QED BY <1>2, <1>3, <2>2, <3>1, <4>1
    <3>2. CASE j = Len(v) + 1
      <4>1. m + j = Len(w) + 1 BY <1>1, <1>2, <3>2
      <4> QED BY <1>3, <2>2, <3>2, <4>1
    <3> QED BY <1>1, <2>2, <3>1, <3>2
  <2>6. Holds(u, x) BY <1>3, <2>2, <2>3, <2>4, <2>5 DEF Holds
  <2> QED BY <2>1, <2>6 DEF x
<1> QED BY <1>4, <1>5

-----------------------------------------------------------------------------
(* The words from one position on go up to another one, and no further. *)
Run(s, first, last) ==
  /\ last \in first - 1 .. Len(s)
  /\ \A j \in first .. last : s[j].kind = "word"
  /\ last < Len(s) => s[last + 1].kind # "word"

WordsIn(s, first) ==
  LET words == {i \in first .. Len(s) : \A j \in first .. i : s[j].kind = "word"}
  IN  [i \in 1 .. Cardinality(words) |-> s[first + i - 1].name]

(* The words of the text are those of the sequence it is. *)
LEMMA WordsInText == \A first : /\ WordsFrom(first) = WordsIn(text, first)
                               /\ WordsFrom(first)' = WordsIn(text', first)
  BY DEF WordsFrom, WordsIn

(* There is always a last one. *)
LEMMA RunEnds ==
  ASSUME NEW s \in Seq(Token), NEW first \in 1 .. Len(s) + 1
  PROVE  \E last \in first - 1 .. Len(s) : Run(s, first, last)
<1> DEFINE n == Len(s)
           S == {i \in first .. n + 1 : i = n + 1 \/ s[i].kind # "word"}
<1>1. n \in Nat BY LenProperties
<1>2. S \in SUBSET Nat /\ n + 1 \in S BY <1>1
<1>3. PICK i \in S : \A k \in S : i <= k
  <2> HIDE DEF S
  <2> QED BY <1>2, HasSmallest
<1>4. i \in first .. n + 1 /\ (i = n + 1 \/ s[i].kind # "word") OBVIOUS
<1>5. \A j \in first .. i - 1 : s[j].kind = "word"
  <2> SUFFICES ASSUME NEW j \in first .. i - 1, s[j].kind # "word" PROVE FALSE
    OBVIOUS
  <2>1. j \in S /\ j < i BY <1>1, <1>4
  <2>2. i <= j BY <1>3, <2>1
  <2> QED BY <1>1, <1>4, <2>1, <2>2
<1> HIDE DEF S
<1>6. i - 1 \in first - 1 .. n /\ (i - 1 < n => s[i - 1 + 1].kind # "word")
  BY <1>1, <1>4
<1> QED BY <1>5, <1>6 DEF Run

(* What a token of a text is. *)
LEMMA TokenFields ==
  ASSUME NEW s \in Seq(Token), NEW i \in 1 .. Len(s)
  PROVE  s[i] \in Token /\ s[i].kind \in Kinds /\ s[i].name \in Names \cup {Nameless}
  BY ElementOfSeq, KeyTyped

(* The words from one position on are those up to the end of their run. *)
LEMMA WordsOfRun ==
  ASSUME NEW s \in Seq(Token), NEW first \in 1 .. Len(s) + 1, NEW last, Run(s, first, last)
  PROVE  /\ WordsIn(s, first) \in Value
         /\ Len(WordsIn(s, first)) = last - first + 1
         /\ \A i \in 1 .. last - first + 1 : WordsIn(s, first)[i] = s[first + i - 1].name
<1> DEFINE n == Len(s)
           words == {i \in first .. n : \A j \in first .. i : s[j].kind = "word"}
           m == last - first + 1
<1>1. n \in Nat /\ last \in first - 1 .. n /\ m \in Nat BY LenProperties DEF Run
<1>2. words = first .. last
  <2>1. ASSUME NEW i \in first .. last PROVE i \in words
    <3>1. i \in first .. n /\ \A j \in first .. i : j \in first .. last BY <1>1
    <3> QED BY <3>1 DEF Run
  <2>2. ASSUME NEW i \in words PROVE i \in first .. last
    <3> SUFFICES ASSUME ~(i <= last) PROVE FALSE
      BY <1>1
    <3>1. last + 1 \in first .. i /\ last < n BY <1>1
    <3> QED BY <3>1 DEF Run
  <2> HIDE DEF words
  <2> QED BY <2>1, <2>2
<1>3. Cardinality(words) = m
  <2>1. first \in Int /\ last \in Int BY <1>1
  <2>2. Cardinality(first .. last) = IF first > last THEN 0 ELSE last - first + 1
    BY <2>1, FS_Interval
  <2> HIDE DEF words
  <2> QED BY <1>1, <1>2, <2>2
<1> DEFINE names == [i \in 1 .. m |-> s[first + i - 1].name]
<1>4. WordsIn(s, first) = names BY <1>3 DEF WordsIn
<1>5. \A i \in 1 .. m : s[first + i - 1].name \in Names \cup {Nameless}
  <2> TAKE i \in 1 .. m
  <2>1. first + i - 1 \in 1 .. n BY <1>1
  <2> QED BY <2>1, TokenFields
<1>6. names \in Seq(Names \cup {Nameless}) BY <1>1, <1>5, IsASeq
<1>7. Len(names) = m
  <2>1. DOMAIN names = 1 .. m BY <1>1
  <2>2. DOMAIN names = 1 .. Len(names) /\ Len(names) \in Nat BY <1>6, LenProperties
  <2> HIDE DEF names, m
  <2> QED BY <1>1, <2>1, <2>2
<1> QED BY <1>4, <1>6, <1>7 DEF Value

(* The words of the text are a value. *)
LEMMA WordsTyped ==
  ASSUME text \in Seq(Token), NEW first \in 1 .. Len(text) + 1
  PROVE  WordsFrom(first) \in Value
<1>1. PICK last \in first - 1 .. Len(text) : Run(text, first, last) BY RunEnds
<1> QED BY <1>1, WordsInText, WordsOfRun

(* All that has been read from one position on is words. *)
WordsToEnd(first) == \A j \in first .. Len(text) : text[j].kind = "word"

(* Another token is one more word if all before it are words, and none if not. *)
LEMMA WordsGrow ==
  ASSUME text \in Seq(Token), NEW t \in Token, text' = Append(text, t),
         NEW first \in 1 .. Len(text) + 1
  PROVE  WordsFrom(first)' = IF WordsToEnd(first) /\ t.kind = "word"
                             THEN Append(WordsFrom(first), t.name) ELSE WordsFrom(first)
<1> DEFINE n == Len(text)
           S == Names \cup {Nameless}
           old == WordsFrom(first)
           new == WordsFrom(first)'
<1>1. /\ text' \in Seq(Token) /\ n \in Nat /\ Len(text') = n + 1
      /\ \A i \in 1 .. n : text'[i] = text[i]
      /\ text'[n + 1] = t
  BY AppendProperties, LenProperties
<1>2. PICK last \in first - 1 .. n : Run(text, first, last) BY RunEnds
<1> DEFINE m == last - first + 1
<1>3. m \in Nat /\ last \in Nat /\ first >= 1 BY <1>1
<1>4. /\ old \in Seq(S) /\ Len(old) = m
      /\ \A i \in 1 .. m : old[i] = text[first + i - 1].name
  BY <1>2, WordsInText, WordsOfRun DEF Value
<1>5. t.name \in S BY KeyTyped
<1>6. ASSUME NEW r \in Int, Run(text', first, r)
      PROVE  /\ new \in Seq(S) /\ Len(new) = r - first + 1
             /\ \A i \in 1 .. r - first + 1 : new[i] = text'[first + i - 1].name
  <2>1. first \in 1 .. Len(text') + 1 BY <1>1
  <2> DEFINE seen == WordsIn(text', first)
  <2>2. /\ seen \in Value /\ Len(seen) = r - first + 1
        /\ \A i \in 1 .. r - first + 1 : seen[i] = text'[first + i - 1].name
    BY <1>1, <1>6, <2>1, WordsOfRun
  <2>3. new = seen BY WordsInText
  <2> QED BY <2>2, <2>3 DEF Value
<1>7. CASE WordsToEnd(first) /\ t.kind = "word"
  <2>1. last = n
    <3> SUFFICES ASSUME last < n PROVE FALSE
      BY <1>1
    <3>1. last + 1 \in first .. n BY <1>1
    <3> QED BY <1>2, <1>7, <3>1 DEF Run, WordsToEnd
  <2>2. Run(text', first, n + 1)
    <3>1. n + 1 \in first - 1 .. n + 1 BY <1>1
    <3>2. \A j \in first .. n + 1 : text'[j].kind = "word"
      <4> TAKE j \in first .. n + 1
      <4>1. CASE j = n + 1 BY <1>1, <1>7, <4>1
      <4>2. CASE j # n + 1
        <5>1. j \in first .. n /\ j \in 1 .. n BY <1>1, <4>2
        <5> QED BY <1>1, <1>7, <5>1 DEF WordsToEnd
      <4> QED BY <4>1, <4>2
    <3> QED BY <1>1, <3>1, <3>2 DEF Run
  <2>3. /\ new \in Seq(S) /\ Len(new) = m + 1
        /\ \A i \in 1 .. m + 1 : new[i] = text'[first + i - 1].name
    <3> DEFINE e == n + 1
    <3>1. e \in Int /\ e - first + 1 = m + 1 BY <1>1, <2>1
    <3>2. Run(text', first, e) BY <2>2
    <3> HIDE DEF e, m, new
    <3>3. /\ new \in Seq(S) /\ Len(new) = e - first + 1
          /\ \A i \in 1 .. e - first + 1 : new[i] = text'[first + i - 1].name
      BY <1>6, <3>1, <3>2
    <3> QED BY <3>1, <3>3
  <2> DEFINE x == Append(old, t.name)
  <2> HIDE DEF old, new
  <2>4. /\ x \in Seq(S) /\ Len(x) = m + 1
        /\ \A i \in 1 .. m : x[i] = old[i]
        /\ x[m + 1] = t.name
    <3>1. old \in Seq(S) /\ t.name \in S /\ Len(old) = m BY <1>4, <1>5
    <3> HIDE DEF m, S
    <3> QED BY <3>1, AppendProperties
  <2>5. ASSUME NEW i \in 1 .. m + 1 PROVE new[i] = x[i]
    <3>1. CASE i = m + 1
      <4>1. first + i - 1 = n + 1 BY <1>1, <2>1, <3>1
      <4> QED BY <1>1, <2>3, <2>4, <3>1, <4>1
    <3>2. CASE i # m + 1
      <4>1. i \in 1 .. m /\ first + i - 1 \in 1 .. n BY <1>1, <1>3, <2>1, <3>2
      <4> QED BY <1>1, <1>4, <2>3, <2>4, <4>1
    <3> QED BY <3>1, <3>2
  <2> HIDE DEF x
  <2>6. new = x BY <2>3, <2>4, <2>5, SeqEqual
  <2> QED BY <1>7, <2>6 DEF x, old, new
<1>8. CASE ~(WordsToEnd(first) /\ t.kind = "word")
  <2>1. last < n \/ t.kind # "word"
    <3> SUFFICES ASSUME last = n PROVE t.kind # "word"
      BY <1>1
    <3> QED BY <1>2, <1>8 DEF Run, WordsToEnd
  <2>2. Run(text', first, last)
    <3>1. last \in first - 1 .. n + 1 BY <1>1
    <3>2. \A j \in first .. last : text'[j].kind = "word"
      <4> TAKE j \in first .. last
      <4>1. j \in 1 .. n BY <1>1
      <4> QED BY <1>1, <1>2, <4>1 DEF Run
    <3>3. last < n + 1 => text'[last + 1].kind # "word"
      <4>1. CASE last < n
        <5>1. last + 1 \in 1 .. n BY <1>1, <1>3, <4>1
        <5> QED BY <1>1, <1>2, <4>1, <5>1 DEF Run
      <4>2. CASE last = n BY <1>1, <2>1, <4>2
      <4> QED BY <1>1, <4>1, <4>2
    <3> QED BY <1>1, <3>1, <3>2, <3>3 DEF Run
  <2>3. /\ new \in Seq(S) /\ Len(new) = m
        /\ \A i \in 1 .. m : new[i] = text'[first + i - 1].name
    BY <1>1, <1>3, <1>6, <2>2
  <2>4. ASSUME NEW i \in 1 .. m PROVE new[i] = old[i]
    <3>1. first + i - 1 \in 1 .. n BY <1>1, <1>3
    <3> QED BY <1>1, <1>4, <2>3, <3>1
  <2> HIDE DEF old, new
  <2>5. new = old BY <1>4, <2>3, <2>4, SeqEqual
  <2> QED BY <1>8, <2>5 DEF old, new
<1> QED BY <1>7, <1>8

-----------------------------------------------------------------------------
(* There is one key of each kind, but for those of tags, which are the tags. *)
LEMMA KeysByKind ==
  /\ DescriptionKey \in Key /\ AtKey \in Key /\ DashAtKey \in Key
  /\ DescriptionKey.kind = "word" /\ AtKey.kind = "at" /\ DashAtKey.kind = "dash_at"
  /\ \A k \in Key : /\ k.kind = "word" => k = DescriptionKey
                    /\ k.kind = "at" => k = AtKey
                    /\ k.kind = "dash_at" => k = DashAtKey
                    /\ OfTag(k) => k \in Token
<1>1. DescriptionKey.kind = "word" /\ AtKey.kind = "at" /\ DashAtKey.kind = "dash_at"
  BY DEF DescriptionKey, Blank, AtKey, DashAtKey
<1>2. AtKey \in Token /\ DashAtKey \in Token BY DEF AtKey, DashAtKey, Token
<1>3. KeyOf(AtKey) = AtKey /\ KeyOf(DashAtKey) = DashAtKey
  BY DEF AtKey, DashAtKey, KeyOf
<1>4. AtKey \in Key /\ DashAtKey \in Key BY <1>1, <1>2, <1>3 DEF Key
<1>5. ASSUME NEW k \in Key
      PROVE  k = DescriptionKey \/ \E t \in Token : t.kind # "word" /\ k = KeyOf(t)
  BY DEF Key
<1>6. ASSUME NEW t \in Token, t.kind # "word"
      PROVE  /\ KeyOf(t).kind = t.kind
             /\ t.kind = "at" => KeyOf(t) = AtKey
             /\ t.kind = "dash_at" => KeyOf(t) = DashAtKey
             /\ OfTag(t) => KeyOf(t) = t
  BY DEF Token, KeyOf, AtKey, DashAtKey, OfTag
<1>7. ASSUME NEW k \in Key
      PROVE  /\ k.kind = "word" => k = DescriptionKey
             /\ k.kind = "at" => k = AtKey
             /\ k.kind = "dash_at" => k = DashAtKey
             /\ OfTag(k) => k \in Token
  <2>1. CASE k = DescriptionKey BY <1>1, <2>1 DEF OfTag
  <2>2. ASSUME NEW t \in Token, t.kind # "word", k = KeyOf(t)
        PROVE  /\ k.kind # "word"
               /\ k.kind = "at" => k = AtKey
               /\ k.kind = "dash_at" => k = DashAtKey
               /\ OfTag(k) => k \in Token
    BY <1>6, <2>2 DEF OfTag
  <2> QED BY <1>5, <2>1, <2>2
<1> QED BY <1>1, <1>4, <1>7, KeyTyped

(* What the parts hold of the text read so far. *)
DescriptionRead == Holds(parts[DescriptionKey], WordsFrom(1))

DateRead ==
  /\ parts[AtKey] # <<>> <=> IsTyped("at")
  /\ \A i \in DOMAIN text :
       text[i].kind = "at" => Holds(parts[AtKey], <<text[i].name>> \o WordsFrom(i + 1))

DateRemovalRead == parts[DashAtKey] # <<>> <=> IsTyped("dash_at")

TagsRead ==
  \A k \in Key : OfTag(k) =>
    /\ parts[k] # <<>> <=> \E i \in DOMAIN text : text[i] = k
    /\ (\A i, j \in DOMAIN text : text[i] = k /\ text[j] = k => i = j)
         => parts[k] \in {<<>>, <<k.name>>}

PartsRead == DescriptionRead /\ DateRead /\ DateRemovalRead /\ TagsRead

(* What the flags say of its end: whose part a word that follows would be added to. *)
EndRead ==
  /\ expectNewDelimiter => text # <<>> /\ IsDelimiter(text[Len(text)])
  /\ \/ current = DescriptionKey /\ WordsToEnd(1)
     \/ current = AtKey /\ \E i \in DOMAIN text : text[i].kind = "at" /\ WordsToEnd(i + 1)
     \/ expectNewDelimiter

ReadInv == phase # "refused" => PartsRead /\ EndRead

Reads(t) ==
  /\ MayFollow(t) /\ ~Misplaced(t)
  /\ text' = Append(text, t)
  /\ current' = IF t.kind = "word" THEN current ELSE KeyOf(t)
  /\ expectNewDelimiter' = (t.kind \notin {"word", "at"})
  /\ parts' = [parts EXCEPT ![current'] = Joined(@, t.name)]

(* Reading a token. *)
LEMMA OneMoreToken ==
  ASSUME TextInv, NEW t \in Token, Reads(t)
  PROVE  /\ text \in Seq(Token) /\ Len(text) \in Nat /\ DOMAIN text = 1 .. Len(text)
         /\ DOMAIN text' = 1 .. Len(text) + 1 /\ Len(text') = Len(text) + 1
         /\ \A i \in 1 .. Len(text) : text'[i] = text[i]
         /\ text'[Len(text) + 1] = t
  BY AppendProperties, LenProperties DEF TextInv, TextTypes, Reads

(* Only the part of the current key is added to, which is then that of the token. *)
LEMMA OnePartGrows ==
  ASSUME TextInv, NEW t \in Token, Reads(t)
  PROVE  /\ t.name \in Names \cup {Nameless} /\ current' \in Key
         /\ parts \in [Key -> Value]
         /\ \A k \in Key :
              parts'[k] = IF k = current' THEN Joined(parts[k], t.name) ELSE parts[k]
         /\ parts'[current'] # <<>>
         /\ t.kind = "word" => current' = current /\ ~expectNewDelimiter
         /\ t.kind # "word" => current'.kind = t.kind
         /\ OfTag(t) => current' = t
         /\ OfTag(current') => current' = t
<1>1. parts \in [Key -> Value] /\ current \in Key BY DEF TextInv, TextTypes
<1>2. t.name \in Names \cup {Nameless} BY KeyTyped
<1>3. t.kind = "word" => current' = current /\ ~expectNewDelimiter BY DEF Reads, Misplaced
<1>4. t.kind # "word" =>
        /\ current' = KeyOf(t) /\ current' \in Key /\ current'.kind = t.kind
        /\ OfTag(t) => current' = t
  BY KeyTyped DEF Reads
<1>5. current' \in Key BY <1>1, <1>3, <1>4
<1>6. \A k \in Key :
        parts'[k] = IF k = current' THEN Joined(parts[k], t.name) ELSE parts[k]
  <2>1. parts' = [parts EXCEPT ![current'] = Joined(parts[current'], t.name)]
    BY <1>1, <1>5 DEF Reads
  <2> QED BY <1>1, <1>5, <2>1
<1>7. parts'[current'] # <<>>
  <2>1. parts[current'] \in Value BY <1>1, <1>5
  <2>2. parts'[current'] = Joined(parts[current'], t.name) BY <1>5, <1>6
  <2> QED BY <1>2, <2>1, <2>2, JoinedTyped
<1>8. OfTag(current') => current' = t
  <2>1. t.kind = "word" => ~OfTag(current') BY <1>3 DEF TextInv, NextIsNoWord
  <2>2. t.kind # "word" /\ OfTag(current') => OfTag(t) BY <1>4 DEF OfTag
  <2> QED BY <1>4, <2>1, <2>2
<1>9. OfTag(t) => t.kind # "word" BY DEF OfTag
<1> QED BY <1>1, <1>2, <1>3, <1>4, <1>5, <1>6, <1>7, <1>8, <1>9

(* Where a word goes. *)
LEMMA WordGoesOn ==
  ASSUME TextInv, EndRead, NEW t \in Token, Reads(t), t.kind = "word"
  PROVE  \/ current' = DescriptionKey /\ WordsToEnd(1)
         \/ current' = AtKey /\ \E i \in DOMAIN text : text[i].kind = "at" /\ WordsToEnd(i + 1)
  BY OnePartGrows DEF EndRead

(* A word is added to the description while there is nothing but words. *)
LEMMA DescriptionKept ==
  ASSUME TextInv, EndRead, DescriptionRead, NEW t \in Token, Reads(t)
  PROVE  DescriptionRead'
<1> DEFINE old == parts[DescriptionKey]
           words == WordsFrom(1)
<1>1. /\ text \in Seq(Token) /\ Len(text) \in Nat /\ DOMAIN text = 1 .. Len(text)
      /\ text' = Append(text, t) /\ t.name \in Names \cup {Nameless}
      /\ 1 \in 1 .. Len(text) + 1
  <2>1. text' = Append(text, t) /\ t.name \in Names \cup {Nameless}
    BY OnePartGrows DEF Reads
  <2>2. text \in Seq(Token) /\ Len(text) \in Nat /\ DOMAIN text = 1 .. Len(text)
    BY OneMoreToken
  <2> QED BY <2>1, <2>2
<1>2. old \in Value BY OnePartGrows, KeysByKind
<1>3. words \in Value BY <1>1, WordsTyped
<1>4. Holds(old, words) BY DEF DescriptionRead
<1>5. WordsFrom(1)' = IF WordsToEnd(1) /\ t.kind = "word" THEN Append(words, t.name) ELSE words
  BY <1>1, WordsGrow
<1>6. DescriptionRead' <=> Holds(parts'[DescriptionKey], WordsFrom(1)')
  BY DEF DescriptionRead, Holds
<1> HIDE DEF old, words
<1>7. CASE t.kind = "word" /\ current' = DescriptionKey /\ WordsToEnd(1)
  <2>1. parts'[DescriptionKey] = Joined(old, t.name)
    BY <1>7, OnePartGrows, KeysByKind DEF old
  <2> QED BY <1>1, <1>2, <1>3, <1>4, <1>5, <1>6, <1>7, <2>1, JoinedHolds
<1>8. CASE /\ t.kind = "word" /\ current' = AtKey
           /\ \E i \in DOMAIN text : text[i].kind = "at"
  <2>1. parts'[DescriptionKey] = old BY <1>8, OnePartGrows, KeysByKind DEF old
  <2>2. ~WordsToEnd(1) BY <1>1, <1>8 DEF WordsToEnd
  <2> QED BY <1>4, <1>5, <1>6, <2>1, <2>2
<1>9. CASE t.kind # "word"
  <2>1. parts'[DescriptionKey] = old BY <1>9, OnePartGrows, KeysByKind DEF old
  <2> QED BY <1>4, <1>5, <1>6, <1>9, <2>1
<1> QED BY <1>7, <1>8, <1>9, WordGoesOn

(* One more at the end is one more behind the first. *)
LEMMA FirstAndMore ==
  ASSUME NEW a \in Names \cup {Nameless}, NEW b \in Names \cup {Nameless}, NEW w \in Value
  PROVE  <<a>> \o w \in Value /\ <<a>> \o Append(w, b) = Append(<<a>> \o w, b)
<1> DEFINE S == Names \cup {Nameless}
<1>1. <<a>> \in Seq(S) /\ <<b>> \in Seq(S) /\ w \in Seq(S) BY DEF Value
<1>2. <<a>> \o w \in Seq(S) BY <1>1, ConcatProperties
<1>3. Append(w, b) = w \o <<b>> /\ Append(<<a>> \o w, b) = (<<a>> \o w) \o <<b>>
  BY <1>1, <1>2, AppendIsConcat
<1>4. (<<a>> \o w) \o <<b>> = <<a>> \o (w \o <<b>>) BY <1>1, ConcatAssociative
<1> QED BY <1>2, <1>3, <1>4 DEF Value

(* A delimiter has been typed if it had been or is the one that is read. *)
LEMMA IsTypedGrows ==
  ASSUME TextInv, NEW t \in Token, Reads(t), NEW delimiter
  PROVE  IsTyped(delimiter)' <=> IsTyped(delimiter) \/ t.kind = delimiter
<1> DEFINE n == Len(text)
<1>1. /\ n \in Nat /\ DOMAIN text = 1 .. n /\ DOMAIN text' = 1 .. n + 1
      /\ \A i \in 1 .. n : text'[i] = text[i]
      /\ text'[n + 1] = t
  BY OneMoreToken
<1> HIDE DEF n
<1>2. \A i \in 1 .. n + 1 : i \in 1 .. n \/ i = n + 1 BY <1>1
<1>3. \A i \in 1 .. n : i \in 1 .. n + 1 BY <1>1
<1>4. n + 1 \in 1 .. n + 1 BY <1>1
<1>5. IsTyped(delimiter)' <=> \E i \in 1 .. n + 1 : text'[i].kind = delimiter
  BY <1>1 DEF IsTyped
<1>6. IsTyped(delimiter) <=> \E i \in 1 .. n : text[i].kind = delimiter BY <1>1 DEF IsTyped
<1> QED BY <1>1, <1>2, <1>3, <1>4, <1>5, <1>6

(* A word is added to the date while there is nothing but words behind its @. *)
LEMMA DateKept ==
  ASSUME TextInv, EndRead, DateRead, ~IsMalformed, NEW t \in Token, Reads(t)
  PROVE  DateRead'
<1> DEFINE old == parts[AtKey]
<1> PICK n \in Nat : n = Len(text)
  BY OneMoreToken
<1>0. text' = Append(text, t) /\ t.name \in Names \cup {Nameless} /\ old \in Value
  BY OnePartGrows, KeysByKind DEF Reads
<1>1. /\ text \in Seq(Token) /\ n \in Nat /\ DOMAIN text = 1 .. n
      /\ DOMAIN text' = 1 .. n + 1
      /\ \A i \in 1 .. n : text'[i] = text[i]
      /\ text'[n + 1] = t
  BY OneMoreToken
<1>2. parts'[AtKey] = IF current' = AtKey THEN Joined(old, t.name) ELSE old
  BY OnePartGrows, KeysByKind
<1>3. current' = AtKey => parts'[AtKey] # <<>> /\ (t.kind = "at" \/ IsTyped("at"))
  <2>1. current' = AtKey => parts'[AtKey] # <<>> BY OnePartGrows
  <2>2. current' = AtKey /\ t.kind # "word" => t.kind = "at" BY OnePartGrows, KeysByKind
  <2>3. current' = AtKey /\ t.kind = "word" => IsTyped("at")
    BY WordGoesOn, KeysByKind DEF IsTyped
  <2> QED BY <2>1, <2>2, <2>3
<1>4. (parts[AtKey] # <<>> <=> IsTyped("at"))'
  <2>1. t.kind = "at" => current' = AtKey BY OnePartGrows, KeysByKind
  <2>2. IsTyped("at")' <=> IsTyped("at") \/ t.kind = "at" BY IsTypedGrows
  <2> QED BY <1>2, <1>3, <2>1, <2>2 DEF DateRead
<1>5. ASSUME NEW i \in 1 .. n, text[i].kind = "at"
      PROVE  Holds(parts'[AtKey], <<text[i].name>> \o WordsFrom(i + 1)')
  <2> DEFINE words == WordsFrom(i + 1)
  <2>1. i + 1 \in 1 .. n + 1 /\ text[i].name \in Names \cup {Nameless}
    BY <1>1, TokenFields
  <2>2. words \in Value BY <1>1, <2>1, WordsTyped
  <2>3. Holds(old, <<text[i].name>> \o words) BY <1>1, <1>5 DEF DateRead
  <2>4. WordsFrom(i + 1)' =
          IF WordsToEnd(i + 1) /\ t.kind = "word" THEN Append(words, t.name) ELSE words
    BY <1>0, <1>1, <2>1, WordsGrow
  <2>5. t.kind # "at"
    <3>1. old # <<>> BY <1>1, <1>5 DEF DateRead, IsTyped
    <3> QED BY <3>1 DEF Reads, Misplaced
  <2> HIDE DEF words, old
  <2>6. CASE t.kind = "word" /\ WordsToEnd(i + 1)
    <3>1. current' = AtKey
      <4>1. ~WordsToEnd(1) BY <1>1, <1>5 DEF WordsToEnd
      <4> QED BY <2>6, <4>1, WordGoesOn
    <3>2. parts'[AtKey] = Joined(old, t.name) BY <1>2, <3>1
    <3>3. /\ <<text[i].name>> \o words \in Value
          /\ <<text[i].name>> \o Append(words, t.name) =
               Append(<<text[i].name>> \o words, t.name)
      BY <1>0, <2>1, <2>2, FirstAndMore
    <3>4. Holds(Joined(old, t.name), Append(<<text[i].name>> \o words, t.name))
      BY <1>0, <2>3, <3>3, JoinedHolds DEF old
    <3> QED BY <2>4, <2>6, <3>2, <3>3, <3>4
  <2>7. CASE ~(t.kind = "word" /\ WordsToEnd(i + 1))
    <3>1. current' # AtKey
      <4>1. CASE t.kind # "word" BY <2>5, <4>1, OnePartGrows, KeysByKind
      <4>2. CASE t.kind = "word" /\ ~WordsToEnd(i + 1)
        <5>1. ASSUME NEW j \in DOMAIN text, text[j].kind = "at", WordsToEnd(j + 1)
              PROVE  FALSE
          <6>1. i = j BY <1>1, <1>5, <5>1 DEF IsMalformed
          <6> QED BY <4>2, <5>1, <6>1
        <5>2. AtKey # DescriptionKey BY KeysByKind
        <5> QED BY <4>2, <5>1, <5>2, WordGoesOn
      <4> QED BY <2>7, <4>1, <4>2
    <3>2. parts'[AtKey] = old BY <1>2, <3>1
    <3> QED BY <2>3, <2>4, <2>7, <3>2
  <2> QED BY <2>6, <2>7
<1>6. ASSUME t.kind = "at"
      PROVE  Holds(parts'[AtKey], <<t.name>> \o WordsFrom(n + 1 + 1)')
  <2>1. old = <<>> BY <1>6 DEF Reads, Misplaced
  <2>2. current' = AtKey BY <1>6, OnePartGrows, KeysByKind
  <2>3. parts'[AtKey] = <<t.name>> BY <1>2, <2>1, <2>2 DEF Joined
  <2>4. WordsFrom(n + 1 + 1)' = <<>>
    <3> DEFINE e == n + 1
    <3>1. e \in Nat /\ e + 1 \in 1 .. e + 1 /\ Len(text') = e /\ text' \in Seq(Token)
      BY <1>0, <1>1, AppendProperties
    <3>2. Run(text', e + 1, e) BY <3>1 DEF Run
    <3> DEFINE words == WordsIn(text', e + 1)
    <3>3. words \in Value /\ Len(words) = e - (e + 1) + 1
      BY <3>1, <3>2, WordsOfRun
    <3>4. Len(words) = 0 BY <3>1, <3>3
    <3>5. WordsFrom(e + 1)' = words BY WordsInText
    <3> HIDE DEF words
    <3>6. words = <<>> BY <3>3, <3>4, EmptySeq DEF Value
    <3> QED BY <3>5, <3>6
  <2>5. <<t.name>> \o <<>> = <<t.name>> /\ <<t.name>> \in Value
    <3>1. <<t.name>> \in Seq(Names \cup {Nameless}) BY <1>0
    <3> QED BY <3>1, ConcatEmptySeq DEF Value
  <2>6. Holds(<<t.name>>, <<t.name>>)
    <3>1. Len(<<t.name>>) = 1 OBVIOUS
    <3>2. /\ 0 \in 0 .. 1 /\ 1 = 1 - 0
          /\ \A j \in 1 .. 0 : <<t.name>>[j] = Nameless
          /\ \A j \in 1 .. 1 : <<t.name>>[j] = <<t.name>>[0 + j]
      OBVIOUS
    <3> QED BY <3>1, <3>2 DEF Holds
  <2> QED BY <2>3, <2>4, <2>5, <2>6
<1>7. ASSUME NEW i \in 1 .. n + 1, text'[i].kind = "at"
      PROVE  Holds(parts'[AtKey], <<text'[i].name>> \o WordsFrom(i + 1)')
  <2>1. CASE i \in 1 .. n BY <1>1, <1>5, <1>7, <2>1
  <2>2. CASE i = n + 1 BY <1>1, <1>6, <1>7, <2>2
  <2> QED BY <1>1, <2>1, <2>2
<1>8. DateRead' <=>
        /\ (parts[AtKey] # <<>> <=> IsTyped("at"))'
        /\ \A i \in DOMAIN text' : text'[i].kind = "at" =>
             Holds(parts'[AtKey], <<text'[i].name>> \o WordsFrom(i + 1)')
  BY DEF DateRead, Holds
<1> QED BY <1>1, <1>4, <1>7, <1>8

(* A -@ has a part, and nothing else is added to that. *)
LEMMA DateRemovalKept ==
  ASSUME TextInv, EndRead, DateRemovalRead, NEW t \in Token, Reads(t)
  PROVE  DateRemovalRead'
<1>1. parts'[DashAtKey] # <<>> <=> parts[DashAtKey] # <<>> \/ current' = DashAtKey
  BY OnePartGrows, KeysByKind
<1>2. current' = DashAtKey <=> t.kind = "dash_at"
  <2>1. CASE t.kind = "word" BY <2>1, WordGoesOn, KeysByKind
  <2>2. CASE t.kind # "word" BY <2>2, OnePartGrows, KeysByKind
  <2> QED BY <2>1, <2>2
<1>3. IsTyped("dash_at")' <=> IsTyped("dash_at") \/ t.kind = "dash_at" BY IsTypedGrows
<1> QED BY <1>1, <1>2, <1>3 DEF DateRemovalRead

(* A tag has a part, which holds its name once if it is read once. *)
LEMMA TagsKept ==
  ASSUME TextInv, TagsRead, NEW t \in Token, Reads(t)
  PROVE  TagsRead'
<1> DEFINE n == Len(text)
<1>1. /\ n \in Nat /\ DOMAIN text = 1 .. n /\ DOMAIN text' = 1 .. n + 1
      /\ \A i \in 1 .. n : text'[i] = text[i]
      /\ text'[n + 1] = t
  BY OneMoreToken
<1> HIDE DEF n
<1>2. /\ \A i \in 1 .. n + 1 : i \in 1 .. n \/ i = n + 1
      /\ \A i \in 1 .. n : i \in 1 .. n + 1 /\ i # n + 1
      /\ n + 1 \in 1 .. n + 1
  BY <1>1
<1> SUFFICES ASSUME NEW k \in Key, OfTag(k)
             PROVE  /\ parts'[k] # <<>> <=> \E i \in DOMAIN text' : text'[i] = k
                    /\ (\A i, j \in DOMAIN text' : text'[i] = k /\ text'[j] = k => i = j)
                         => parts'[k] \in {<<>>, <<k.name>>}
  BY DEF TagsRead
<1>3. /\ parts[k] # <<>> <=> \E i \in 1 .. n : text[i] = k
      /\ (\A i, j \in 1 .. n : text[i] = k /\ text[j] = k => i = j)
           => parts[k] \in {<<>>, <<k.name>>}
  BY <1>1 DEF TagsRead
<1>4. CASE current' # k
  <2>1. parts'[k] = parts[k] BY <1>4, OnePartGrows
  <2>2. t # k BY <1>4, OnePartGrows
  <2>3. (\E i \in 1 .. n + 1 : text'[i] = k) <=> \E i \in 1 .. n : text[i] = k
    BY <1>1, <1>2, <2>2
  <2>4. (\A i, j \in 1 .. n + 1 : text'[i] = k /\ text'[j] = k => i = j)
          => \A i, j \in 1 .. n : text[i] = k /\ text[j] = k => i = j
    BY <1>1, <1>2
  <2> QED BY <1>1, <1>3, <2>1, <2>3, <2>4
<1>5. CASE current' = k
  <2>1. t = k /\ parts'[k] = Joined(parts[k], k.name) /\ parts'[k] # <<>>
    BY <1>5, OnePartGrows
  <2>2. \E i \in 1 .. n + 1 : text'[i] = k BY <1>1, <1>2, <2>1
  <2>3. ASSUME \A i, j \in 1 .. n + 1 : text'[i] = k /\ text'[j] = k => i = j
        PROVE  parts'[k] = <<k.name>>
    <3>1. ~\E i \in 1 .. n : text[i] = k BY <1>1, <1>2, <2>1, <2>3
    <3>2. parts[k] = <<>> BY <1>3, <3>1
    <3> QED BY <2>1, <3>2 DEF Joined
  <2> QED BY <1>1, <2>1, <2>2, <2>3
<1> QED BY <1>4, <1>5

(* The flags say of the longer text what they said of the one before. *)
LEMMA EndKept ==
  ASSUME TextInv, EndRead, NEW t \in Token, Reads(t)
  PROVE  EndRead'
<1> PICK n \in Nat : n = Len(text)
  BY OneMoreToken
<1>1. /\ n \in Nat /\ DOMAIN text = 1 .. n /\ DOMAIN text' = 1 .. n + 1 /\ Len(text') = n + 1
      /\ \A i \in 1 .. n : text'[i] = text[i]
      /\ text'[n + 1] = t
  BY OneMoreToken
<1>2. /\ \A i \in 1 .. n + 1 : i \in 1 .. n \/ i = n + 1
      /\ \A i \in 1 .. n : i \in 1 .. n + 1
      /\ n + 1 \in 1 .. n + 1 /\ n + 1 # 0
  BY <1>1
<1>3. expectNewDelimiter' <=> t.kind \notin {"word", "at"} BY DEF Reads
<1>4. t.kind \in Kinds BY KeyTyped
<1>5. expectNewDelimiter' => text' # <<>> /\ IsDelimiter(text'[Len(text')])
  <2>1. text' # <<>> BY <1>1, <1>2
  <2>2. t.kind \notin {"word", "at"} => IsDelimiter(t) BY <1>4 DEF Kinds, IsDelimiter
  <2> QED BY <1>1, <1>3, <2>1, <2>2
<1>6. ASSUME t.kind = "word", NEW first \in 1 .. n + 1, WordsToEnd(first)
      PROVE  WordsToEnd(first)'
  <2> SUFFICES ASSUME NEW j \in first .. n + 1
               PROVE  text'[j].kind = "word"
    BY <1>1 DEF WordsToEnd
  <2>1. CASE j = n + 1 BY <1>1, <1>6, <2>1
  <2>2. CASE j # n + 1
    <3>1. j \in first .. n /\ j \in 1 .. n BY <1>1, <2>2
    <3>2. text[j].kind = "word" BY <1>6, <3>1 DEF WordsToEnd
    <3> QED BY <1>1, <3>1, <3>2
  <2> QED BY <2>1, <2>2
<1>7. CASE t.kind = "word" /\ current' = DescriptionKey /\ WordsToEnd(1)
    <2>1. 1 \in 1 .. n + 1 BY <1>1
  <2>2. WordsToEnd(1)' BY <1>6, <1>7, <2>1
  <2> QED BY <1>5, <1>7, <2>2 DEF EndRead
<1>8. ASSUME t.kind = "word", current' = AtKey,
             NEW i \in DOMAIN text, text[i].kind = "at", WordsToEnd(i + 1)
      PROVE  EndRead'
  <2>1. i \in 1 .. n /\ i + 1 \in 1 .. n + 1 BY <1>1
  <2>2. WordsToEnd(i + 1)' BY <1>6, <1>8, <2>1
  <2>3. i \in DOMAIN text' /\ text'[i].kind = "at" BY <1>1, <1>2, <1>8, <2>1
  <2> QED BY <1>5, <1>8, <2>2, <2>3 DEF EndRead
<1>9. CASE t.kind = "at"
  <2>1. current' = AtKey BY <1>9, OnePartGrows, KeysByKind
  <2>2. WordsToEnd(n + 1 + 1)'
    <3> SUFFICES ASSUME NEW j \in n + 1 + 1 .. n + 1 PROVE FALSE
      BY <1>1 DEF WordsToEnd
    <3> QED BY <1>1
  <2>3. n + 1 \in DOMAIN text' /\ text'[n + 1].kind = "at" BY <1>1, <1>2, <1>9
  <2> QED BY <1>5, <2>1, <2>2, <2>3 DEF EndRead
<1>10. CASE t.kind \notin {"word", "at"} BY <1>3, <1>5, <1>10 DEF EndRead
<1> QED BY <1>7, <1>8, <1>9, <1>10, WordGoesOn

(* Before the first token there is nothing in the parts. *)
LEMMA NothingRead ==
  /\ Holds(<<>>, WordsIn(<<>>, 1))
  /\ DOMAIN <<>> = {} /\ Len(<<>>) = 0
  /\ \A k \in Key : NoParts[k] = <<>>
<1>1. <<>> \in Seq(Token) /\ Len(<<>>) = 0 /\ DOMAIN <<>> = {} BY EmptySeq
<1>2. Run(<<>>, 1, 0) BY <1>1 DEF Run
<1> DEFINE words == WordsIn(<<>>, 1)
<1>3. words \in Value /\ Len(words) = 0 - 1 + 1
  <2> PICK s : s = <<>>
    OBVIOUS
  <2>1. s \in Seq(Token) /\ 1 \in 1 .. Len(s) + 1 /\ Run(s, 1, 0) BY <1>1, <1>2
  <2>2. WordsIn(s, 1) \in Value /\ Len(WordsIn(s, 1)) = 0 - 1 + 1 BY <2>1, WordsOfRun
  <2> QED BY <2>2
<1>4. words = <<>>
  <2> HIDE DEF words
  <2>1. Len(words) = 0 BY <1>3
  <2> QED BY <1>3, <2>1, EmptySeq DEF Value
<1>5. Holds(<<>>, <<>>)
  <2>1. 0 \in 0 .. 0 /\ 0 = 0 - 0 OBVIOUS
  <2> QED BY <1>1, <2>1 DEF Holds
<1> QED BY <1>1, <1>4, <1>5 DEF NoParts

NothingYet ==
  text = <<>> /\ parts = NoParts /\ current = DescriptionKey /\ expectNewDelimiter = FALSE

(* So a text that has just begun is read. *)
LEMMA NothingIsRead ==
  /\ NothingYet => PartsRead /\ EndRead
  /\ NothingYet' => (PartsRead /\ EndRead)'
<1>1. ASSUME NothingYet PROVE PartsRead /\ EndRead
  <2>1. WordsFrom(1) = WordsIn(<<>>, 1) BY <1>1, WordsInText DEF NothingYet
  <2>2. DescriptionRead BY <1>1, <2>1, NothingRead, KeysByKind DEF NothingYet, DescriptionRead
  <2>3. ~IsTyped("at") /\ ~IsTyped("dash_at") BY <1>1, NothingRead DEF NothingYet, IsTyped
  <2>4. DateRead /\ DateRemovalRead
    BY <1>1, <2>3, NothingRead, KeysByKind DEF NothingYet, DateRead, DateRemovalRead
  <2>5. TagsRead BY <1>1, NothingRead DEF NothingYet, TagsRead
  <2>6. EndRead
    <3>1. WordsToEnd(1) BY <1>1, NothingRead DEF NothingYet, WordsToEnd
    <3> QED BY <1>1, <3>1 DEF NothingYet, EndRead
  <2> QED BY <2>2, <2>4, <2>5, <2>6 DEF PartsRead
<1>2. ASSUME NothingYet' PROVE (PartsRead /\ EndRead)'
  <2>1. WordsFrom(1)' = WordsIn(<<>>, 1) BY <1>2, WordsInText DEF NothingYet
  <2>2. DescriptionRead'
    BY <1>2, <2>1, NothingRead, KeysByKind DEF NothingYet, DescriptionRead, Holds
  <2>3. ~IsTyped("at")' /\ ~IsTyped("dash_at")' BY <1>2, NothingRead DEF NothingYet, IsTyped
  <2>4. DateRead' /\ DateRemovalRead'
    BY <1>2, <2>3, NothingRead, KeysByKind DEF NothingYet, DateRead, DateRemovalRead
  <2>5. TagsRead' BY <1>2, NothingRead DEF NothingYet, TagsRead
  <2>6. EndRead'
    <3>1. WordsToEnd(1)' BY <1>2, NothingRead DEF NothingYet, WordsToEnd
    <3> QED BY <1>2, <3>1 DEF NothingYet, EndRead
  <2> QED BY <2>2, <2>4, <2>5, <2>6 DEF PartsRead
<1> QED BY <1>1, <1>2

(* Reading what may follow keeps what has been read in its parts, and once it is all
   read, nothing changes it.                                                 *)
LEMMA StepRead == TextInv /\ FormInv /\ ReadInv /\ [TextNext]_textVars => ReadInv'
<1> SUFFICES ASSUME TextInv, FormInv, ReadInv, [TextNext]_textVars PROVE ReadInv'
  OBVIOUS
<1>1. CASE BeginText
  <2>1. NothingYet' BY <1>1 DEF BeginText, NothingYet
  <2> QED BY <2>1, NothingIsRead DEF ReadInv
<1>2. CASE ReadToken
  <2>1. PICK t \in Token : Reads(t) /\ phase = "reading" BY <1>2 DEF ReadToken, Reads, MayFollow
  <2>2. PartsRead /\ EndRead /\ ~IsMalformed BY <2>1 DEF ReadInv, FormInv, WellFormed
  <2>3. DescriptionRead' /\ DateRead' /\ DateRemovalRead' /\ TagsRead' /\ EndRead'
    BY <2>1, <2>2, DescriptionKept, DateKept, DateRemovalKept, TagsKept, EndKept DEF PartsRead
  <2> QED BY <2>3 DEF ReadInv, PartsRead
<1>3. CASE RefuseToken \/ RefuseUndescribed \/ RefusePart
  BY <1>3 DEF RefuseToken, RefuseUndescribed, RefusePart, ReadInv
<1>4. CASE Decomposed \/ Fill \/ MakeCommand \/ UNCHANGED textVars
  <2>1. UNCHANGED <<text, parts, current, expectNewDelimiter>>
    BY <1>4 DEF Decomposed, Fill, MakeCommand, textVars
  <2>2. phase' # "refused" => phase # "refused"
    BY <1>4 DEF Decomposed, IsWhole, Fill, MakeCommand, textVars
  <2>3. PartsRead => PartsRead'
    <3>1. \A first : WordsFrom(first)' = WordsFrom(first) BY <2>1, WordsInText
    <3>2. DescriptionRead => DescriptionRead' BY <2>1, <3>1 DEF DescriptionRead, Holds
    <3>3. \A delimiter : IsTyped(delimiter)' <=> IsTyped(delimiter) BY <2>1 DEF IsTyped
    <3>4. DateRead => DateRead'
      <4>1. DateRead' <=>
              /\ parts'[AtKey] # <<>> <=> IsTyped("at")'
              /\ \A i \in DOMAIN text' : text'[i].kind = "at" =>
                   Holds(parts'[AtKey], <<text'[i].name>> \o WordsFrom(i + 1)')
        BY DEF DateRead, Holds
      <4> QED BY <2>1, <3>1, <3>3, <4>1 DEF DateRead
    <3>5. DateRemovalRead => DateRemovalRead' BY <2>1, <3>3 DEF DateRemovalRead
    <3>6. TagsRead => TagsRead' BY <2>1 DEF TagsRead
    <3> QED BY <3>2, <3>4, <3>5, <3>6 DEF PartsRead
  <2>4. EndRead => EndRead' BY <2>1 DEF EndRead, WordsToEnd
  <2> QED BY <2>2, <2>3, <2>4 DEF ReadInv
<1> QED BY <1>1, <1>2, <1>3, <1>4 DEF TextNext

-----------------------------------------------------------------------------
(* What the parts say is what the text says: the description, the date and, where
   no tag is repeated, the tags.                                             *)
LEMMA DescriptionSaid ==
  ASSUME TextInv, DescriptionRead
  PROVE  /\ Trimmed(parts[DescriptionKey]) = TypedDescription
         /\ text # <<>> => (parts[DescriptionKey] # <<>> <=> text[1].kind = "word")
<1> DEFINE words == WordsFrom(1)
           n == Len(text)
<1>1. text \in Seq(Token) /\ n \in Nat /\ 1 \in 1 .. n + 1
  BY LenProperties DEF TextInv, TextTypes
<1>2. parts[DescriptionKey] \in Value BY KeysByKind DEF TextInv, TextTypes
<1>3. PICK last \in 0 .. n : Run(text, 1, last) BY <1>1, RunEnds
<1>4. words \in Value /\ Len(words) = last
  <2>1. WordsIn(text, 1) \in Value /\ Len(WordsIn(text, 1)) = last - 1 + 1
    BY <1>1, <1>3, WordsOfRun
  <2>2. last - 1 + 1 = last BY <1>3
  <2> QED BY <2>1, <2>2, WordsInText
<1>5. Holds(parts[DescriptionKey], words) BY DEF DescriptionRead
<1>6. Trimmed(parts[DescriptionKey]) = TypedDescription
  <2> HIDE DEF words
  <2>1. Trimmed(parts[DescriptionKey]) = Trimmed(words) BY <1>2, <1>4, <1>5, HoldsTrimmed
  <2> QED BY <2>1 DEF TypedDescription, words
<1>7. parts[DescriptionKey] # <<>> <=> last # 0
  <2> HIDE DEF words
  <2>1. parts[DescriptionKey] = <<>> <=> words = <<>> BY <1>5 DEF Holds
  <2>2. words = <<>> <=> Len(words) = 0 BY <1>4, EmptySeq DEF Value
  <2> QED BY <1>4, <2>1, <2>2
<1>8. ASSUME text # <<>> PROVE last # 0 <=> text[1].kind = "word"
  <2>1. n # 0 BY <1>1, <1>8, EmptySeq
  <2>2. CASE last = 0
    <3>1. text[0 + 1].kind # "word" BY <1>1, <1>3, <2>1, <2>2 DEF Run
    <3> QED BY <2>2, <3>1
  <2>3. CASE last # 0
    <3>1. 1 \in 1 .. last BY <1>3, <2>3
    <3> QED BY <1>3, <2>3, <3>1 DEF Run
  <2> QED BY <2>2, <2>3
<1> QED BY <1>6, <1>7, <1>8

(* The part of the date is what follows the @, whichever is meant: there is one. *)
LEMMA DateSaid ==
  ASSUME TextInv, DateRead, IsTyped("at")
  PROVE  Trimmed(parts[AtKey]) = TypedDate
<1> DEFINE i == CHOOSE j \in DOMAIN text : text[j].kind = "at"
           words == <<text[i].name>> \o WordsFrom(i + 1)
<1>1. i \in DOMAIN text /\ text[i].kind = "at" BY DEF IsTyped
<1>2. TypedDate = Trimmed(words) BY DEF TypedDate
<1> HIDE DEF i
<1>3. /\ text \in Seq(Token) /\ Len(text) \in Nat
      /\ i \in 1 .. Len(text) /\ i + 1 \in 1 .. Len(text) + 1
  BY <1>1, LenProperties DEF TextInv, TextTypes
<1>4. text[i].name \in Names \cup {Nameless} BY <1>3, TokenFields
<1>5. WordsFrom(i + 1) \in Value BY <1>3, WordsTyped
<1>6. words \in Value BY <1>4, <1>5, FirstAndMore
<1>7. Holds(parts[AtKey], words) BY <1>1 DEF DateRead
<1>8. parts[AtKey] \in Value BY KeysByKind DEF TextInv, TextTypes
<1> HIDE DEF words
<1> QED BY <1>2, <1>6, <1>7, <1>8, HoldsTrimmed

(* The keys of the parts there are, those applied so far, and their tags. *)
Given == {k \in Key : parts[k] # <<>>}
GivenOf(delimiter) == {k \in Given : k.kind = delimiter}
Applied == Given \ keys
AppliedOf(delimiter) == {k \in Applied : k.kind = delimiter}
TagsOf(ks) == {<<k.name>> : k \in ks}

(* The parts of tags there are, are the tags in the text. *)
LEMMA TagsSaid ==
  ASSUME TextInv, TagsRead, NEW delimiter \in {"hash", "dash_hash"}
  PROVE  /\ GivenOf(delimiter) = {text[i] : i \in {j \in DOMAIN text : text[j].kind = delimiter}}
         /\ TypedTags(delimiter) = TagsOf(GivenOf(delimiter))
<1> DEFINE places == {j \in DOMAIN text : text[j].kind = delimiter}
<1>1. text \in Seq(Token) /\ DOMAIN text = 1 .. Len(text)
  BY LenProperties DEF TextInv, TextTypes
<1>2. ASSUME NEW i \in places PROVE text[i] \in GivenOf(delimiter)
  <2>1. text[i] \in Token /\ text[i].kind = delimiter BY <1>1, TokenFields
  <2>2. OfTag(text[i]) /\ text[i].kind # "word" BY <2>1 DEF OfTag
  <2>3. text[i] \in Key
    <3>1. KeyOf(text[i]) = text[i] /\ KeyOf(text[i]) \in Key BY <2>1, <2>2, KeyTyped
    <3> QED BY <3>1
  <2>4. parts[text[i]] # <<>> BY <2>2, <2>3 DEF TagsRead
  <2> QED BY <2>1, <2>3, <2>4 DEF GivenOf, Given
<1>3. ASSUME NEW k \in GivenOf(delimiter) PROVE \E i \in places : text[i] = k
  <2>1. k \in Key /\ parts[k] # <<>> /\ k.kind = delimiter /\ OfTag(k)
    BY DEF GivenOf, Given, OfTag
  <2> QED BY <2>1 DEF TagsRead
<1>4. GivenOf(delimiter) = {text[i] : i \in places} BY <1>2, <1>3
<1>5. TypedTags(delimiter) = {<<text[i].name>> : i \in places} BY DEF TypedTags
<1> HIDE DEF places
<1>6. TagsOf(GivenOf(delimiter)) = {<<text[i].name>> : i \in places}
  BY <1>2, <1>3 DEF TagsOf
<1> QED BY <1>4, <1>5, <1>6 DEF places

(* No two of the parts get in each other's way. *)
PlainParts ==
  /\ \A k \in Given : OfTag(k) => Trimmed(parts[k]) = <<k.name>>
  /\ TagsOf(GivenOf("hash")) \cap TagsOf(GivenOf("dash_hash")) = {}
  /\ ~(AtKey \in Given /\ DashAtKey \in Given)

(* A plain text's parts are apart. *)
LEMMA PlainSaid ==
  ASSUME TextInv, PartsRead, ~IsMalformed, IsPlain
  PROVE  PlainParts
<1>1. \A k \in Given : OfTag(k) => Trimmed(parts[k]) = <<k.name>>
  <2> SUFFICES ASSUME NEW k \in Given, OfTag(k) PROVE Trimmed(parts[k]) = <<k.name>>
    OBVIOUS
  <2>1. k \in Key /\ parts[k] # <<>> BY DEF Given
  <2>2. PICK i \in DOMAIN text : text[i] = k BY <2>1 DEF PartsRead, TagsRead
  <2>3. \A p, q \in DOMAIN text : text[p] = k /\ text[q] = k => p = q
    BY DEF IsPlain, OfTag
  <2>4. parts[k] = <<k.name>> BY <2>1, <2>3 DEF PartsRead, TagsRead
  <2>5. k.name \in Names
    <3>1. k \in Token BY <2>1, KeysByKind
    <3>2. k.name # Nameless BY <2>2 DEF IsMalformed, OfTag
    <3> QED BY <3>1, <3>2, KeyTyped
  <2> QED BY <2>4, <2>5, TrimmedName
<1>2. TagsOf(GivenOf("hash")) \cap TagsOf(GivenOf("dash_hash")) = {}
  BY TagsSaid DEF PartsRead, IsPlain
<1>3. ~(AtKey \in Given /\ DashAtKey \in Given)
  BY DEF PartsRead, DateRead, DateRemovalRead, IsPlain, Given
<1> QED BY <1>1, <1>2, <1>3 DEF PlainParts

-----------------------------------------------------------------------------
(* What the task has been made of the parts applied so far, in whatever order. *)
Begun ==
  /\ kind = "add" => original = Fresh
  /\ phase = "reading" => task = original
  /\ phase = "done" => keys = {}

IsFilling == phase = "filling" \/ (phase = "done" /\ text # <<>>)

DatesRead == AtKey \in Applied => Trimmed(parts[AtKey]) \in Dates

TagsFilled ==
  /\ task.tags \subseteq original.tags \cup {Trimmed(parts[k]) : k \in AppliedOf("hash")}
  /\ PlainParts =>
       task.tags = (original.tags \cup TagsOf(AppliedOf("hash")))
                     \ (IF kind = "edit" THEN TagsOf(AppliedOf("dash_hash")) ELSE {})

DescriptionFilled ==
  Trimmed(task.description) = IF kind = "add" \/ DescriptionKey \in Applied
                              THEN Trimmed(parts[DescriptionKey])
                              ELSE Trimmed(original.description)

DateFilled ==
  PlainParts =>
    task.date = IF AtKey \in Applied THEN Trimmed(parts[AtKey])
                ELSE IF kind = "edit" /\ DashAtKey \in Applied THEN NoDate
                ELSE original.date

FillInv ==
  /\ Begun
  /\ IsFilling => /\ text # <<>> /\ keys \subseteq Given
                  /\ kind = "add" => DescriptionKey \in Given
                  /\ DatesRead /\ TagsFilled /\ DescriptionFilled /\ DateFilled

(* At first no part has been applied, but an add has its description. *)
LEMMA DecomposedFills ==
  ASSUME TextInv, FillInv, Decomposed
  PROVE  FillInv'
<1>1. UNCHANGED <<kind, original, text, parts>> /\ phase' = "filling"
  BY DEF Decomposed, commandVars
<1>2. keys' = Given /\ Given' = Given BY <1>1 DEF Decomposed, Given
<1>3. Applied' = {} /\ \A delimiter : AppliedOf(delimiter)' = {}
  BY <1>2 DEF Applied, AppliedOf
<1>4. task = original /\ (kind = "add" => original = Fresh) /\ kind \in {"add", "edit"}
  BY DEF Decomposed, IsWhole, FillInv, Begun, TextInv, TextTypes
<1>5. text # <<>> /\ (kind = "add" => DescriptionKey \in Given)
  BY KeysByKind DEF Decomposed, IsWhole, Given
<1>6. /\ task'.tags = original.tags /\ task'.date = original.date
      /\ kind = "add" => task'.description = parts[DescriptionKey]
      /\ kind = "edit" => task'.description = original.description
  BY <1>4 DEF Decomposed, TextInv, TextTypes, Task
<1>7. Begun' BY <1>1, <1>4 DEF Begun
<1>8. TagsFilled' BY <1>1, <1>3, <1>6 DEF TagsFilled, TagsOf
<1>9. DescriptionFilled'
  <2>1. DescriptionFilled' <=>
          Trimmed(task'.description) = IF kind' = "add" \/ DescriptionKey \in Applied'
                                       THEN Trimmed(parts'[DescriptionKey])
                                       ELSE Trimmed(original'.description)
    BY DEF DescriptionFilled, Trimmed
  <2> QED BY <1>1, <1>3, <1>4, <1>6, <2>1
<1>10. DateFilled' /\ DatesRead' BY <1>1, <1>3, <1>6 DEF DateFilled, DatesRead
<1> QED BY <1>1, <1>2, <1>5, <1>7, <1>8, <1>9, <1>10 DEF FillInv

(* One more part has been applied, which was not before. *)
LEMMA OneMoreApplied ==
  ASSUME FillInv, IsFilling, UNCHANGED <<kind, original, text, parts>>,
         NEW key \in keys, keys' = keys \ {key}
  PROVE  /\ key \in Given /\ key \in Key /\ key \notin Applied
         /\ Given' = Given /\ (PlainParts' <=> PlainParts)
         /\ Applied' = Applied \cup {key}
         /\ \A delimiter : AppliedOf(delimiter)' =
              IF key.kind = delimiter THEN AppliedOf(delimiter) \cup {key}
              ELSE AppliedOf(delimiter)
<1>1. keys \subseteq Given BY DEF FillInv
<1>2. Given' = Given BY DEF Given
<1>3. PlainParts' <=> PlainParts
  BY <1>2 DEF PlainParts, GivenOf, TagsOf, Trimmed
<1>4. Applied' = Applied \cup {key} /\ key \notin Applied BY <1>1, <1>2 DEF Applied
<1>5. \A delimiter : AppliedOf(delimiter)' =
        IF key.kind = delimiter THEN AppliedOf(delimiter) \cup {key}
        ELSE AppliedOf(delimiter)
  BY <1>4 DEF AppliedOf
<1> QED BY <1>1, <1>2, <1>3, <1>4, <1>5 DEF Given

(* Any one part that is applied next does to the task what it says. *)
LEMMA FillFills ==
  ASSUME TextInv, FillInv, Fill
  PROVE  FillInv'
<1>1. PICK key \in keys : ~Refused(key) /\ task' = Filled(key) /\ keys' = keys \ {key}
  BY DEF Fill
<1>2. UNCHANGED <<kind, original, text, parts, phase>> /\ phase = "filling"
  BY DEF Fill, commandVars
<1>3. IsFilling /\ kind \in {"add", "edit"} BY <1>2 DEF IsFilling, TextInv, TextTypes
<1> DEFINE value == Trimmed(parts[key])
<1>4. /\ key \in Given /\ key \in Key /\ key \notin Applied
      /\ Given' = Given /\ (PlainParts' <=> PlainParts)
      /\ Applied' = Applied \cup {key}
      /\ \A delimiter : AppliedOf(delimiter)' =
           IF key.kind = delimiter THEN AppliedOf(delimiter) \cup {key}
           ELSE AppliedOf(delimiter)
  BY <1>1, <1>2, <1>3, OneMoreApplied
<1>5. /\ task'.tags =
           IF key.kind = "hash" THEN task.tags \cup {value}
           ELSE IF key.kind = "dash_hash" /\ kind = "edit" THEN task.tags \ {value}
           ELSE task.tags
      /\ task'.description =
           IF key.kind = "word" /\ kind = "edit" THEN value ELSE task.description
      /\ task'.date =
           IF key.kind = "at" THEN value
           ELSE IF key.kind = "dash_at" /\ kind = "edit" THEN NoDate ELSE task.date
  BY <1>1, <1>4, FilledParts
<1>6. text # <<>> /\ keys \subseteq Given /\ (kind = "add" => DescriptionKey \in Given)
      /\ DatesRead /\ TagsFilled /\ DescriptionFilled /\ DateFilled /\ Begun
  BY <1>3 DEF FillInv
<1>7. /\ key.kind = "at" <=> key = AtKey
      /\ key.kind = "word" <=> key = DescriptionKey
      /\ key.kind = "dash_at" <=> key = DashAtKey
  BY <1>4, KeysByKind
<1>8. /\ AtKey \in Applied' <=> AtKey \in Applied \/ key.kind = "at"
      /\ DescriptionKey \in Applied' <=> DescriptionKey \in Applied \/ key.kind = "word"
      /\ DashAtKey \in Applied' <=> DashAtKey \in Applied \/ key.kind = "dash_at"
  BY <1>4, <1>7
<1>9. DatesRead'
  <2>1. key.kind = "at" => value \in Dates BY <1>1 DEF Refused
  <2> QED BY <1>2, <1>6, <1>7, <1>8, <2>1 DEF DatesRead, Trimmed
<1>10. DateFilled'
  <2> SUFFICES ASSUME PlainParts
               PROVE  task'.date = IF AtKey \in Applied' THEN Trimmed(parts[AtKey])
                                   ELSE IF kind = "edit" /\ DashAtKey \in Applied' THEN NoDate
                                   ELSE original.date
    BY <1>2, <1>4 DEF DateFilled, Trimmed
  <2>1. task.date = IF AtKey \in Applied THEN Trimmed(parts[AtKey])
                    ELSE IF kind = "edit" /\ DashAtKey \in Applied THEN NoDate
                    ELSE original.date
    BY <1>6 DEF DateFilled
  <2>2. ~(AtKey \in Applied /\ key.kind = "dash_at")
    BY <1>4, <1>7 DEF PlainParts, Applied
  <2>3. key.kind = "at" => value = Trimmed(parts[AtKey]) BY <1>7
  <2> HIDE DEF value
  <2> QED BY <1>5, <1>8, <2>1, <2>2, <2>3
<1>11. DescriptionFilled'
  <2>1. Trimmed(value) = value
    <3>1. parts[key] \in Value BY <1>4 DEF TextInv, TextTypes
    <3> QED BY <3>1, TrimmedTwice
  <2>2. key.kind = "word" => value = Trimmed(parts[DescriptionKey]) BY <1>7
  <2>3. Trimmed(task'.description) =
          IF key.kind = "word" /\ kind = "edit" THEN value ELSE Trimmed(task.description)
    BY <1>5, <2>1
  <2>4. Trimmed(task.description) = IF kind = "add" \/ DescriptionKey \in Applied
                                    THEN Trimmed(parts[DescriptionKey])
                                    ELSE Trimmed(original.description)
    BY <1>6 DEF DescriptionFilled
  <2>5. DescriptionFilled' <=>
          Trimmed(task'.description) = IF kind' = "add" \/ DescriptionKey \in Applied'
                                       THEN Trimmed(parts'[DescriptionKey])
                                       ELSE Trimmed(original'.description)
    BY DEF DescriptionFilled, Trimmed
  <2> HIDE DEF value
  <2> QED BY <1>2, <1>3, <1>8, <2>2, <2>3, <2>4, <2>5
<1>12. TagsFilled'
  <2> DEFINE said == {Trimmed(parts[k]) : k \in AppliedOf("hash")}
             Removed(ks) == IF kind = "edit" THEN TagsOf(ks) ELSE {}
  <2>1. /\ AppliedOf("hash")' = IF key.kind = "hash" THEN AppliedOf("hash") \cup {key}
                                ELSE AppliedOf("hash")
        /\ AppliedOf("dash_hash")' =
             IF key.kind = "dash_hash" THEN AppliedOf("dash_hash") \cup {key}
             ELSE AppliedOf("dash_hash")
    BY <1>4
  <2>2. {Trimmed(parts'[k]) : k \in AppliedOf("hash")'} =
          IF key.kind = "hash" THEN said \cup {value} ELSE said
    BY <1>2, <2>1
  <2>3. task'.tags \subseteq original.tags \cup {Trimmed(parts'[k]) : k \in AppliedOf("hash")'}
    <3>1. task.tags \subseteq original.tags \cup said BY <1>6 DEF TagsFilled
    <3> HIDE DEF value, said
    <3> QED BY <1>5, <2>2, <3>1
  <2>4. ASSUME PlainParts
        PROVE  task'.tags = (original.tags \cup TagsOf(AppliedOf("hash")'))
                              \ Removed(AppliedOf("dash_hash")')
    <3>1. task.tags = (original.tags \cup TagsOf(AppliedOf("hash")))
                        \ Removed(AppliedOf("dash_hash"))
      BY <1>6, <2>4 DEF TagsFilled
    <3>2. key.kind \in {"hash", "dash_hash"} => value = <<key.name>>
      BY <1>4, <2>4 DEF PlainParts, OfTag
    <3>3. \A ks : TagsOf(ks \cup {key}) = TagsOf(ks) \cup {<<key.name>>} BY DEF TagsOf
    <3>4. TagsOf(AppliedOf("dash_hash")) \subseteq TagsOf(GivenOf("dash_hash"))
      BY DEF TagsOf, AppliedOf, Applied, GivenOf
    <3>5. key.kind = "hash" => <<key.name>> \in TagsOf(GivenOf("hash"))
      BY <1>4 DEF TagsOf, GivenOf
    <3>6. key.kind = "hash" => <<key.name>> \notin TagsOf(AppliedOf("dash_hash"))
      BY <2>4, <3>4, <3>5 DEF PlainParts
    <3> DEFINE H == TagsOf(AppliedOf("hash"))
               D == TagsOf(AppliedOf("dash_hash"))
               v == <<key.name>>
    <3>7. TagsOf(AppliedOf("hash")') = IF key.kind = "hash" THEN H \cup {v} ELSE H
      BY <2>1, <3>3
    <3>8. TagsOf(AppliedOf("dash_hash")') = IF key.kind = "dash_hash" THEN D \cup {v} ELSE D
      BY <2>1, <3>3
    <3>9. task.tags = (original.tags \cup H) \ (IF kind = "edit" THEN D ELSE {})
      BY <3>1
    <3>10. task'.tags = (original.tags \cup (IF key.kind = "hash" THEN H \cup {v} ELSE H))
             \ (IF kind = "edit"
                THEN (IF key.kind = "dash_hash" THEN D \cup {v} ELSE D) ELSE {})
      <4>1. key.kind = "hash" => v \notin D BY <3>6
      <4>2. key.kind \in {"hash", "dash_hash"} => value = v BY <3>2
      <4> HIDE DEF H, D, v, value
      <4>3. CASE key.kind = "hash" BY <1>5, <3>9, <4>1, <4>2, <4>3
      <4>4. CASE key.kind = "dash_hash" BY <1>5, <3>9, <4>2, <4>4
      <4>5. CASE key.kind \notin {"hash", "dash_hash"} BY <1>5, <3>9, <4>5
      <4> QED BY <4>3, <4>4, <4>5
    <3> QED BY <3>7, <3>8, <3>10
  <2>5. TagsFilled' <=>
          /\ task'.tags \subseteq
               original'.tags \cup {Trimmed(parts'[k]) : k \in AppliedOf("hash")'}
          /\ PlainParts' =>
               task'.tags = (original'.tags \cup TagsOf(AppliedOf("hash")'))
                              \ (IF kind' = "edit" THEN TagsOf(AppliedOf("dash_hash")') ELSE {})
    BY DEF TagsFilled, Trimmed, TagsOf
  <2> QED BY <1>2, <1>4, <2>3, <2>4, <2>5
<1>13. Begun' BY <1>2, <1>6 DEF Begun
<1>14. text' # <<>> /\ keys' \subseteq Given' /\ (kind' = "add" => (DescriptionKey \in Given)')
  BY <1>1, <1>2, <1>4, <1>6
<1> QED BY <1>9, <1>10, <1>11, <1>12, <1>13, <1>14 DEF FillInv

(* Every step keeps the task what the parts applied have made of it. *)
LEMMA StepFill == TextInv /\ FillInv /\ [TextNext]_textVars => FillInv'
<1> SUFFICES ASSUME TextInv, FillInv, [TextNext]_textVars PROVE FillInv'
  OBVIOUS
<1>1. CASE BeginText
  <2>1. Begun' /\ ~IsFilling' BY <1>1 DEF BeginText, Begun, IsFilling
  <2> QED BY <2>1 DEF FillInv
<1>2. CASE ReadToken \/ RefuseToken \/ RefuseUndescribed
  <2>1. UNCHANGED <<kind, original, keys, task>> /\ phase' \in {"reading", "refused"}
        /\ (phase' = "reading" => phase = "reading")
    BY <1>2 DEF ReadToken, RefuseToken, RefuseUndescribed, MayFollow, IsWhole, commandVars
  <2>2. Begun' /\ ~IsFilling' BY <2>1 DEF FillInv, Begun, IsFilling
  <2> QED BY <2>2 DEF FillInv
<1>3. CASE RefusePart
  <2>1. Begun' /\ ~IsFilling' BY <1>3 DEF RefusePart, FillInv, Begun, IsFilling, commandVars
  <2> QED BY <2>1 DEF FillInv
<1>4. CASE MakeCommand \/ UNCHANGED textVars
  <2>1. UNCHANGED <<kind, original, text, parts, keys, task>>
    BY <1>4 DEF MakeCommand, textVars, commandVars
  <2>2. Begun' /\ (IsFilling' => IsFilling)
    BY <1>4, <2>1 DEF MakeCommand, textVars, FillInv, Begun, IsFilling
  <2>3. Given' = Given /\ Applied' = Applied /\ \A d : AppliedOf(d)' = AppliedOf(d)
    BY <2>1 DEF Given, Applied, AppliedOf
  <2>4. PlainParts' <=> PlainParts
    BY <2>1, <2>3 DEF PlainParts, GivenOf, TagsOf, Trimmed
  <2>5. DatesRead => DatesRead' BY <2>1, <2>3 DEF DatesRead, Trimmed
  <2>6. TagsFilled => TagsFilled'
    <3>1. AppliedOf("hash")' = AppliedOf("hash") /\ AppliedOf("dash_hash")' = AppliedOf("dash_hash")
      BY <2>3
    <3>2. TagsFilled' <=>
            /\ task'.tags \subseteq
                 original'.tags \cup {Trimmed(parts'[k]) : k \in AppliedOf("hash")'}
            /\ PlainParts' =>
                 task'.tags = (original'.tags \cup TagsOf(AppliedOf("hash")'))
                                \ (IF kind' = "edit" THEN TagsOf(AppliedOf("dash_hash")') ELSE {})
      BY DEF TagsFilled, Trimmed, TagsOf
    <3> QED BY <2>1, <2>4, <3>1, <3>2 DEF TagsFilled
  <2>7. DescriptionFilled => DescriptionFilled'
    BY <2>1, <2>3 DEF DescriptionFilled, Trimmed
  <2>8. DateFilled => DateFilled' BY <2>1, <2>3, <2>4 DEF DateFilled, Trimmed
  <2> QED BY <2>1, <2>2, <2>3, <2>5, <2>6, <2>7, <2>8 DEF FillInv
<1> QED BY <1>1, <1>2, <1>3, <1>4, DecomposedFills, FillFills DEF TextNext

-----------------------------------------------------------------------------
(* Counting tags: there are as many parts of tags as tags in the text, at most, and
   the task has got at most one of each part applied.                        *)
LEMMA TagsCounted ==
  ASSUME TextInv, TagsRead
  PROVE  /\ IsFiniteSet(GivenOf("hash")) /\ IsFiniteSet(TypedTags("hash"))
         /\ Cardinality(GivenOf("hash")) <= Cardinality(TypedTags("hash"))
<1> DEFINE places == {j \in DOMAIN text : text[j].kind = "hash"}
           G == GivenOf("hash")
           T == TypedTags("hash")
<1>1. DOMAIN text = 1 .. Len(text) /\ Len(text) \in Nat
  BY LenProperties DEF TextInv, TextTypes
<1>2. IsFiniteSet(1 .. Len(text)) BY <1>1, FS_Interval
<1>3. IsFiniteSet(places)
  <2>1. places \in SUBSET (1 .. Len(text)) BY <1>1
  <2> HIDE DEF places
  <2> QED BY <1>2, <2>1, FS_Subset
<1>4. G = {text[i] : i \in places} /\ T = TagsOf(G) BY TagsSaid
<1>5. IsFiniteSet(G)
  <2> DEFINE f == [i \in places |-> text[i]]
  <2> HIDE DEF places, G
  <2>1. f \in Surjection(places, G) BY <1>4 DEF Surjection
  <2> HIDE DEF f
  <2> QED BY <1>3, <2>1, FS_Surjection
<1>6. IsFiniteSet(T)
  <2> DEFINE f == [k \in G |-> <<k.name>>]
  <2> HIDE DEF G, T
  <2>1. f \in Surjection(G, T) BY <1>4 DEF Surjection, TagsOf
  <2> HIDE DEF f
  <2> QED BY <1>5, <2>1, FS_Surjection
<1>7. Cardinality(G) <= Cardinality(T)
  <2> DEFINE f == [tag \in T |-> [kind |-> "hash", name |-> tag[1]]]
  <2>1. \A k \in G : k = [kind |-> "hash", name |-> k.name]
    <3> TAKE k \in G
    <3>1. k \in Key /\ k.kind = "hash" /\ OfTag(k) BY DEF GivenOf, Given, OfTag
    <3>2. k \in Token BY <3>1, KeysByKind
    <3> QED BY <3>1, <3>2 DEF Token
  <2> HIDE DEF G, T
  <2>2. \A tag \in T : \E k \in G : tag = <<k.name>> BY <1>4 DEF TagsOf
  <2>3. \A k \in G : <<k.name>> \in T BY <1>4 DEF TagsOf
  <2>4. f \in [T -> G]
    <3>1. \A tag \in T : [kind |-> "hash", name |-> tag[1]] \in G
      <4> TAKE tag \in T
      <4>1. PICK k \in G : tag = <<k.name>> BY <2>2
      <4>2. tag[1] = k.name BY <4>1
      <4> QED BY <2>1, <4>2
    <3> QED BY <3>1
  <2>5. \A k \in G : \E tag \in T : f[tag] = k
    <3> TAKE k \in G
    <3>1. <<k.name>> \in T /\ <<k.name>>[1] = k.name BY <2>3
    <3>2. f[<<k.name>>] = k BY <2>1, <3>1
    <3> QED BY <3>1, <3>2
  <2>6. f \in Surjection(T, G)
    <3> HIDE DEF f
    <3> QED BY <2>4, <2>5 DEF Surjection
  <2> HIDE DEF f
  <2> QED BY <1>6, <2>6, FS_Surjection
<1> QED BY <1>5, <1>6, <1>7

(* So if a tag finds no room, the text has more of them than there is room for. *)
LEMMA FullIsCrowded ==
  ASSUME TextInv, PartsRead, FillInv, phase = "filling",
         NEW key \in keys, key.kind = "hash", TooManyTags
  PROVE  IsCrowded
<1> DEFINE G == GivenOf("hash")
           A == AppliedOf("hash")
           said == {Trimmed(parts[k]) : k \in A}
           O == original.tags
<1>1. /\ IsFiniteSet(G) /\ IsFiniteSet(TypedTags("hash"))
      /\ Cardinality(G) <= Cardinality(TypedTags("hash"))
  BY TagsCounted DEF PartsRead
<1>2. keys \subseteq Given /\ task.tags \subseteq O \cup said
  BY DEF FillInv, IsFilling, TagsFilled
<1>3. key \in G /\ A \in SUBSET (G \ {key})
  BY <1>2 DEF GivenOf, AppliedOf, Applied
<1>4. IsFiniteSet(O) /\ IsFiniteSet(task.tags) BY DEF TextInv, Limit
<1>5. MAXIMUM_TAGS \in Nat /\ Cardinality(task.tags) >= MAXIMUM_TAGS
  BY LimitsAssumption DEF TooManyTags
<1> HIDE DEF G, A, O
<1>6. IsFiniteSet(G \ {key}) /\ Cardinality(G \ {key}) = Cardinality(G) - 1
  BY <1>1, <1>3, FS_RemoveElement
<1>7. IsFiniteSet(A) /\ Cardinality(A) <= Cardinality(G) - 1
  BY <1>3, <1>6, FS_Subset
<1>8. IsFiniteSet(said) /\ Cardinality(said) <= Cardinality(A)
  <2> DEFINE f == [k \in A |-> Trimmed(parts[k])]
  <2>1. f \in Surjection(A, said) BY DEF Surjection
  <2> HIDE DEF f, said
  <2> QED BY <1>7, <2>1, FS_Surjection
<1> HIDE DEF said
<1>9. IsFiniteSet(O \cup said)
      /\ Cardinality(O \cup said) = Cardinality(O) + Cardinality(said) - Cardinality(O \cap said)
  BY <1>4, <1>8, FS_Union
<1>10. Cardinality(task.tags) <= Cardinality(O \cup said) BY <1>2, <1>9, FS_Subset
<1>11. IsFiniteSet(O \cap said)
  <2>1. O \cap said \in SUBSET O OBVIOUS
  <2> QED BY <1>4, <2>1, FS_Subset
<1>12. /\ Cardinality(O) \in Nat /\ Cardinality(said) \in Nat /\ Cardinality(A) \in Nat
       /\ Cardinality(G) \in Nat /\ Cardinality(task.tags) \in Nat
       /\ Cardinality(O \cap said) \in Nat /\ Cardinality(O \cup said) \in Nat
       /\ Cardinality(TypedTags("hash")) \in Nat
  BY <1>1, <1>4, <1>7, <1>8, <1>9, <1>11, FS_CardinalityType
<1>13. Cardinality(O) + Cardinality(TypedTags("hash")) > MAXIMUM_TAGS
  BY <1>1, <1>5, <1>7, <1>8, <1>9, <1>10, <1>12
<1> QED BY <1>13 DEF IsCrowded, O

-----------------------------------------------------------------------------
(* A text that is refused has been so for a reason, and the reason stays in it. *)
JudgeInv == phase = "refused" => IsMalformed \/ IsUnusable \/ IsCrowded

(* A token that is refused makes the text malformed. *)
LEMMA RefuseTokenJudges ==
  ASSUME TextInv, ReadInv, RefuseToken
  PROVE  IsMalformed'
<1>1. PICK t \in Token : MayFollow(t) /\ Misplaced(t) /\ text' = Append(text, t)
  BY DEF RefuseToken
<1>2. PartsRead /\ EndRead BY <1>1 DEF ReadInv, MayFollow
<1>3. PICK n \in Nat : n = Len(text) BY LenProperties DEF TextInv, TextTypes
<1>4. /\ DOMAIN text = 1 .. n /\ DOMAIN text' = 1 .. n + 1
      /\ \A i \in 1 .. n : text'[i] = text[i]
      /\ text'[n + 1] = t
  BY <1>1, <1>3, AppendProperties, LenProperties DEF TextInv, TextTypes
<1>5. n + 1 \in 1 .. n + 1 /\ \A i \in 1 .. n : i \in 1 .. n + 1 /\ i # n + 1 OBVIOUS
<1>6. CASE t.kind = "word" /\ expectNewDelimiter
  <2>1. text # <<>> /\ IsDelimiter(text[n]) BY <1>2, <1>3, <1>6 DEF EndRead
  <2>2. n # 0 BY <1>3, <2>1, EmptySeq DEF TextInv, TextTypes
  <2>3. n \in 1 .. n /\ n + 1 > 1 /\ n + 1 - 1 = n BY <2>2
  <2>4. text'[n + 1 - 1] = text[n] BY <1>4, <2>3
  <2> QED BY <1>4, <1>5, <1>6, <2>1, <2>3, <2>4 DEF IsMalformed, IsDelimiter
<1>7. CASE t.kind = "at" /\ parts[AtKey] # <<>>
  <2>1. PICK i \in DOMAIN text : text[i].kind = "at"
    BY <1>2, <1>7 DEF PartsRead, DateRead, IsTyped
  <2> QED BY <1>4, <1>5, <1>7, <2>1 DEF IsMalformed
<1>8. CASE t.kind \in {"hash", "dash_hash"} /\ t.name = Nameless
  BY <1>4, <1>5, <1>8 DEF IsMalformed
<1> QED BY <1>1, <1>6, <1>7, <1>8 DEF Misplaced

(* A text that is empty, or an add without a description, is unusable. *)
LEMMA RefuseUndescribedJudges ==
  ASSUME TextInv, ReadInv, RefuseUndescribed
  PROVE  IsUnusable
<1>1. CASE text = <<>> BY <1>1 DEF IsUnusable
<1>2. CASE IsWhole /\ kind = "add" /\ parts[DescriptionKey] = <<>>
  <2>1. text # <<>> /\ DescriptionRead BY <1>2 DEF IsWhole, ReadInv, PartsRead
  <2>2. text[1].kind # "word" BY <1>2, <2>1, DescriptionSaid
  <2> QED BY <1>2, <2>2 DEF IsUnusable
<1> QED BY <1>1, <1>2 DEF RefuseUndescribed

(* A part that is refused is a date that is none, or one tag too many. *)
LEMMA RefusePartJudges ==
  ASSUME TextInv, ReadInv, FillInv, RefusePart
  PROVE  IsUnusable \/ IsCrowded
<1>1. PICK key \in keys : Refused(key) BY DEF RefusePart
<1>2. phase = "filling" BY DEF RefusePart
<1>3. PartsRead BY <1>2 DEF ReadInv
<1>4. CASE key.kind = "hash" /\ TooManyTags BY <1>2, <1>3, <1>4, FullIsCrowded
<1>5. CASE key.kind = "at" /\ Trimmed(parts[key]) \notin Dates
  <2>1. key \in Given /\ key \in Key BY <1>2 DEF FillInv, IsFilling, Given
  <2>2. key = AtKey BY <1>5, <2>1, KeysByKind
  <2>3. IsTyped("at") BY <1>3, <2>1, <2>2 DEF Given, PartsRead, DateRead
  <2>4. Trimmed(parts[AtKey]) = TypedDate BY <1>3, <2>3, DateSaid DEF PartsRead
  <2> QED BY <1>5, <2>2, <2>3, <2>4 DEF IsUnusable
<1> QED BY <1>1, <1>4, <1>5 DEF Refused

(* What the text is judged by depends on it and the task to begin with alone. *)
LEMMA SameText ==
  ASSUME UNCHANGED <<kind, original, text>>
  PROVE  /\ IsMalformed' <=> IsMalformed
         /\ IsUnusable' <=> IsUnusable
         /\ IsCrowded' <=> IsCrowded
<1>1. TypedDate' = TypedDate BY DEF TypedDate, Trimmed, WordsFrom
<1>2. IsTyped("at")' <=> IsTyped("at") BY DEF IsTyped
<1>3. TypedTags("hash")' = TypedTags("hash") BY DEF TypedTags
<1> QED BY <1>1, <1>2, <1>3 DEF IsMalformed, IsUnusable, IsCrowded

(* Every step that refuses has its reason. *)
LEMMA StepJudge ==
  TextInv /\ ReadInv /\ FillInv /\ JudgeInv /\ [TextNext]_textVars => JudgeInv'
<1> SUFFICES ASSUME TextInv, ReadInv, FillInv, JudgeInv, [TextNext]_textVars PROVE JudgeInv'
  OBVIOUS
<1>1. CASE RefuseToken BY <1>1, RefuseTokenJudges DEF JudgeInv
<1>2. CASE RefuseUndescribed
  <2>1. UNCHANGED <<kind, original, text>> BY <1>2 DEF RefuseUndescribed, commandVars
  <2> QED BY <1>2, <2>1, SameText, RefuseUndescribedJudges DEF JudgeInv
<1>3. CASE RefusePart
  <2>1. UNCHANGED <<kind, original, text>> BY <1>3 DEF RefusePart, commandVars
  <2> QED BY <1>3, <2>1, SameText, RefusePartJudges DEF JudgeInv
<1>4. CASE BeginText \/ ReadToken \/ Decomposed \/ Fill \/ MakeCommand
  BY <1>4 DEF BeginText, ReadToken, MayFollow, Decomposed, Fill, MakeCommand, JudgeInv
<1>5. CASE UNCHANGED textVars
  <2>1. UNCHANGED <<kind, original, text, phase>> BY <1>5 DEF textVars, commandVars
  <2> QED BY <2>1, SameText DEF JudgeInv
<1> QED BY <1>1, <1>2, <1>3, <1>4, <1>5 DEF TextNext

(* All that is known of a text being read, and of what becomes of it. *)
WholeInv == TextInv /\ FormInv /\ ReadInv /\ FillInv /\ JudgeInv

(* All of this holds of any text at any time. *)
LEMMA WholeTexts == TextSpec => []WholeInv
<1>1. TextInit => FormInv BY EmptyIsWellFormed DEF TextInit, FormInv
<1>2. TextInit => ReadInv
  <2>1. TextInit => NothingYet BY DEF TextInit, NothingYet
  <2> QED BY <2>1, NothingIsRead DEF ReadInv
<1>3. TextInit => FillInv BY DEF TextInit, FillInv, Begun, IsFilling
<1>4. TextInit => JudgeInv BY DEF TextInit, JudgeInv
<1>5. WholeInv /\ [TextNext]_textVars => WholeInv'
  BY StepText, StepForm, StepRead, StepFill, StepJudge DEF WholeInv
<1>6. TextInit => WholeInv BY <1>1, <1>2, <1>3, <1>4, InitText DEF WholeInv
<1> QED BY <1>5, <1>6, PTL DEF TextSpec

-----------------------------------------------------------------------------
(* A text is refused for what it says and for nothing else, accepted only if there is
   no such thing, and never leaves a task with too many tags.                *)
THEOREM JudgedCorrect == TextSpec => []JudgedByTheRules
<1>1. ASSUME WholeInv, phase = "done", text # <<>> PROVE ~IsMalformed /\ ~IsUnusable
  <2>1. IsFilling BY <1>1 DEF IsFilling
  <2>2. /\ ~IsMalformed /\ PartsRead /\ keys = {} /\ DatesRead
        /\ kind = "add" => DescriptionKey \in Given
    BY <1>1, <2>1 DEF WholeInv, FormInv, WellFormed, ReadInv, FillInv, Begun
  <2>3. kind = "add" => text[1].kind = "word"
    <3>1. kind = "add" => parts[DescriptionKey] # <<>> BY <2>2 DEF Given
    <3> QED BY <1>1, <2>2, <3>1, DescriptionSaid DEF WholeInv, PartsRead
  <2>4. ASSUME IsTyped("at") PROVE TypedDate \in Dates
    <3>1. AtKey \in Applied
      BY <2>2, <2>4, KeysByKind DEF PartsRead, DateRead, Applied, Given
    <3>2. Trimmed(parts[AtKey]) = TypedDate
      BY <1>1, <2>2, <2>4, DateSaid DEF WholeInv, PartsRead
    <3> QED BY <2>2, <3>1, <3>2 DEF DatesRead
  <2> QED BY <1>1, <2>2, <2>3, <2>4 DEF IsUnusable
<1>2. WholeInv => JudgedByTheRules
  BY <1>1 DEF WholeInv, JudgeInv, TextInv, Limit, JudgedByTheRules
<1> QED BY <1>2, WholeTexts, PTL

(* Whatever the order its parts are applied in, the task that comes of a plain text is
   the one the text describes.                                               *)
THEOREM DoneAsTypedCorrect == TextSpec => []DoneAsTyped
<1>1. ASSUME WholeInv, phase = "done", text # <<>>, IsPlain
      PROVE  /\ Trimmed(task.description) =
                  IF TypedDescription = <<>> THEN Trimmed(original.description)
                  ELSE TypedDescription
             /\ task.tags = (original.tags \cup TypedTags("hash"))
                              \ (IF kind = "edit" THEN TypedTags("dash_hash") ELSE {})
             /\ task.date = CASE IsTyped("at") -> TypedDate
                              [] IsTyped("dash_at") /\ ~IsTyped("at") -> NoDate
                              [] ~IsTyped("dash_at") /\ ~IsTyped("at") -> original.date
  <2>1. IsFilling BY <1>1 DEF IsFilling
  <2>2. /\ ~IsMalformed /\ PartsRead /\ keys = {} /\ TextInv
        /\ TagsFilled /\ DescriptionFilled /\ DateFilled
        /\ kind = "add" => original = Fresh /\ DescriptionKey \in Given
    BY <1>1, <2>1 DEF WholeInv, FormInv, WellFormed, ReadInv, FillInv, Begun
  <2>3. PlainParts BY <1>1, <2>2, PlainSaid
  <2>4. Applied = Given /\ \A delimiter : AppliedOf(delimiter) = GivenOf(delimiter)
    BY <2>2 DEF Applied, AppliedOf, GivenOf
  <2>5. task.tags = (original.tags \cup TypedTags("hash"))
                      \ (IF kind = "edit" THEN TypedTags("dash_hash") ELSE {})
    BY <2>2, <2>3, <2>4, TagsSaid DEF TagsFilled, PartsRead
  <2>6. /\ AtKey \in Given <=> IsTyped("at")
        /\ DashAtKey \in Given <=> IsTyped("dash_at")
    BY <2>2, KeysByKind DEF Given, PartsRead, DateRead, DateRemovalRead
  <2>7. task.date = CASE IsTyped("at") -> TypedDate
                      [] IsTyped("dash_at") /\ ~IsTyped("at") -> NoDate
                      [] ~IsTyped("dash_at") /\ ~IsTyped("at") -> original.date
    <3>1. task.date = IF IsTyped("at") THEN Trimmed(parts[AtKey])
                      ELSE IF kind = "edit" /\ IsTyped("dash_at") THEN NoDate
                      ELSE original.date
      BY <2>2, <2>3, <2>4, <2>6 DEF DateFilled
    <3>2. IsTyped("at") => Trimmed(parts[AtKey]) = TypedDate
      BY <2>2, DateSaid DEF PartsRead
    <3>3. kind # "edit" => original.date = NoDate
      BY <2>2 DEF TextInv, TextTypes, Fresh
    <3> QED BY <3>1, <3>2, <3>3
  <2>8. Trimmed(task.description) =
          IF TypedDescription = <<>> THEN Trimmed(original.description) ELSE TypedDescription
    <3>1. /\ Trimmed(parts[DescriptionKey]) = TypedDescription
          /\ DescriptionKey \in Given <=> text[1].kind = "word"
      BY <1>1, <2>2, DescriptionSaid, KeysByKind DEF PartsRead, Given
    <3>2. Trimmed(task.description) =
            IF text[1].kind = "word" THEN TypedDescription ELSE Trimmed(original.description)
      BY <2>2, <2>4, <3>1 DEF DescriptionFilled
    <3>3. text[1].kind = "word" => TypedDescription # <<>> BY <1>1 DEF IsPlain
    <3>4. text[1].kind # "word" => TypedDescription = <<>>
      <4>1. /\ parts[DescriptionKey] \in Value
            /\ text[1].kind # "word" => parts[DescriptionKey] = <<>>
        BY <2>2, <3>1, KeysByKind DEF TextInv, TextTypes, Given
      <4>2. Trimmed(<<>>) = <<>> BY DEF Trimmed
      <4> QED BY <3>1, <4>1, <4>2
    <3> QED BY <3>2, <3>3, <3>4
  <2> QED BY <2>5, <2>7, <2>8
<1>2. WholeInv => DoneAsTyped BY <1>1 DEF DoneAsTyped
<1> QED BY <1>2, WholeTexts, PTL
=============================================================================
