---------------------------- MODULE DateFormats ----------------------------
(***************************************************************************)
(* How the interpreter comes by its tables of date formats and reads the   *)
(* times of a task with them (Interpreter.cpp 735 to 1073).  To make the   *)
(* tables takes long, so a thread of its own does it when the program      *)
(* starts; whoever has to read a date before it is done goes to make them  *)
(* too, and waits at the mutex.  The flag that says they are there is read *)
(* without the mutex.                                                      *)
(*                                                                         *)
(* A period is typed as an end and perhaps a begin, with a dash or a `to'  *)
(* between the two, and is split at every dash before anything is read; a  *)
(* date may have dashes too.  The parts are read one after the other, each *)
(* with a clock of its own; what a text does not say comes from the clock. *)
(* Of a text only its form counts, and the day and the hour it says.  That *)
(* the year changes is left out.                                           *)
(***************************************************************************)
EXTENDS Naturals, Sequences

CONSTANTS
  Startup,    \* the thread the constructor of Tasuke starts
  Parsers,    \* the GUI thread and those that evaluate what is typed
  Periods,    \* what they are given to read: texts, in between a dash or a `to'
  NoText,     \* in place of the begin of a period that has none
  MaxHour,    \* the last hour of a day; the first one is 0
  MaxDay      \* bound: the clock stops there

Nobody == "nobody"

ASSUME ThreadsAssumption == Startup \notin Parsers /\ Nobody \notin Parsers \cup {Startup}
ASSUME ClockAssumption == MaxHour \in Nat /\ MaxDay \in Nat

Threads == Parsers \cup {Startup}

(* Dates are spelt or in numbers, with slashes or dashes in between, with the year
   apart from them or joined to them; times are of the clock, military, or have
   `am' or `pm' to them.                                                   *)
Form ==
  [date : {"none", "spelt", "slashed", "dashed"}, year : {"none", "apart", "joined"},
   time : {"none", "clock", "military", "clock_ap", "hour_ap"}]

(* `today' and the other names of days count from the present one. *)
Text == [form : Form, named : BOOLEAN, day : Nat, hour : 0 .. MaxHour]

ASSUME PeriodsAssumption ==
  /\ NoText \notin Text
  /\ Periods \subseteq Seq(Text) \ {<<>>}

Period == [begin : Text \cup {NoText}, end : Text]

VARIABLES
  formatsAlreadyInit,
  holder,  \* of Interpreter::mutex
  table,   \* the lists of formats
  today,   \* QDate::currentDate()
  thread   \* where each thread is, and what it has read

vars == <<formatsAlreadyInit, holder, table, today, thread>>

WithAp == {"timeFormatsAp", "dateTimeFormatsWithoutYearAp", "dateTimeFormatsAp"}
WithoutAp ==
  {"timeFormats", "dateFormatsWithoutYear", "dateTimeFormatsWithoutYear",
   "dateFormats", "dateTimeFormats"}
Tables == WithAp \cup WithoutAp

Invalid == [valid |-> FALSE]
At(day, hour) == [valid |-> TRUE, day |-> day, hour |-> hour]
Earlier(a, b) == a.day < b.day \/ (a.day = b.day /\ a.hour < b.hour)

NoPeriod == [begin |-> NoText, end |-> NoText]
Unread == [begin |-> Invalid, end |-> Invalid]

Nowhere == [at |-> "idle", typed |-> <<>>, period |-> NoPeriod, part |-> "begin", day |-> 0,
            read |-> Unread, answer |-> "none"]

Init ==
  /\ formatsAlreadyInit = FALSE /\ holder = Nobody
  /\ table = [n \in Tables |-> {}]
  /\ today = 0
  /\ thread = [t \in Threads |->
                IF t = Startup THEN [Nowhere EXCEPT !.at = "entering"] ELSE Nowhere]

Goes(t, from, to) ==
  /\ thread[t].at = from
  /\ thread' = [thread EXCEPT ![t].at = to]

-----------------------------------------------------------------------------
(* initFormats() *)

Enter(t) ==
  /\ holder = Nobody
  /\ holder' = t
  /\ Goes(t, "entering", "checking")
  /\ UNCHANGED <<formatsAlreadyInit, table, today>>

(* Wrong on purpose: whoever has waited makes the tables once more. *)
CheckNothing(t) ==
  /\ Goes(t, "checking", "time")
  /\ UNCHANGED <<formatsAlreadyInit, holder, table, today>>

Check(t) ==
  /\ Goes(t, "checking", IF formatsAlreadyInit THEN "leaving" ELSE "time")
  /\ UNCHANGED <<formatsAlreadyInit, holder, table, today>>

Adds(t, from, to, formats) ==
  /\ Goes(t, from, to)
  /\ table' = [n \in Tables |-> table[n] \cup (IF n \in DOMAIN formats THEN formats[n] ELSE {})]
  /\ UNCHANGED <<formatsAlreadyInit, holder, today>>

Dateless(time) == [date |-> "none", year |-> "none", time |-> time]

(* Those with `am' and `pm' are made before the military time is added. *)
GenerateTimeFormats(t) ==
  Adds(t, "time", "date_without_year",
       [timeFormats   |-> {Dateless("clock"), Dateless("military")},
        timeFormatsAp |-> {Dateless("clock_ap"), Dateless("hour_ap")}])

GenerateDateFormatsWithoutYear(t) ==
  Adds(t, "date_without_year", "date",
       [dateFormatsWithoutYear |->
          {[date |-> d, year |-> "none", time |-> "none"]
             : d \in {"spelt", "slashed", "dashed"}}])

Dated(forms, year) == {[f EXCEPT !.year = year] : f \in forms}

(* Wrong on purpose: the special construction is left out. *)
GenerateDateFormatsApart(t) ==
  Adds(t, "date", "date_and_time_without_year",
       [dateFormats |-> Dated(table["dateFormatsWithoutYear"], "apart")])

GenerateDateFormats(t) ==
  Adds(t, "date", "date_and_time_without_year",
       [dateFormats |->
          Dated(table["dateFormatsWithoutYear"], "apart")
          \cup {[date |-> d, year |-> "joined", time |-> "none"] : d \in {"slashed", "dashed"}}])

Timed(dates, times) == {[d EXCEPT !.time = f.time] : d \in dates, f \in times}

GenerateDateTimeFormatsWithoutYear(t) ==
  Adds(t, "date_and_time_without_year", "date_and_time",
       [dateTimeFormatsWithoutYear |->
          Timed(table["dateFormatsWithoutYear"], table["timeFormats"]),
        dateTimeFormatsWithoutYearAp |->
          Timed(table["dateFormatsWithoutYear"], table["timeFormatsAp"])])

(* Wrong on purpose: the times with `am' and `pm' end up in the other list. *)
GenerateDateTimeFormatsMixed(t) ==
  Adds(t, "date_and_time", "made",
       [dateTimeFormats |->
          Timed(table["dateFormats"], table["timeFormats"] \cup table["timeFormatsAp"])])

GenerateDateTimeFormats(t) ==
  Adds(t, "date_and_time", "made",
       [dateTimeFormats   |-> Timed(table["dateFormats"], table["timeFormats"]),
        dateTimeFormatsAp |-> Timed(table["dateFormats"], table["timeFormatsAp"])])

SetInit(t) ==
  /\ Goes(t, "made", "leaving")
  /\ formatsAlreadyInit' = TRUE
  /\ UNCHANGED <<holder, table, today>>

(* Wrong on purpose: the mutex is only unlocked by the thread it was meant for. *)
LeaveAtStartup(t) ==
  /\ Goes(t, "leaving", IF t = Startup THEN "ended" ELSE "searching")
  /\ holder' = IF t = Startup THEN Nobody ELSE holder
  /\ UNCHANGED <<formatsAlreadyInit, table, today>>

Leave(t) ==
  /\ Goes(t, "leaving", IF t = Startup THEN "ended" ELSE "searching")
  /\ holder' = Nobody
  /\ UNCHANGED <<formatsAlreadyInit, table, today>>

InitFormats(t) ==
  \/ Enter(t) \/ Check(t) \/ SetInit(t) \/ Leave(t)
  \/ GenerateTimeFormats(t) \/ GenerateDateFormatsWithoutYear(t)
  \/ GenerateDateFormats(t) \/ GenerateDateTimeFormatsWithoutYear(t)
  \/ GenerateDateTimeFormats(t)

-----------------------------------------------------------------------------
(* parseTimePeriod() and parseDate() *)

IsDashed(text) == text.form.date = "dashed"
HasDash(typed) == \E i \in DOMAIN typed : IsDashed(typed[i])

(* The dashes between the texts and those within make more than two parts. *)
TooManyParts(typed) ==
  \/ Len(typed) > 2
  \/ Len(typed) = 2 /\ HasDash(typed)
  \/ \E i \in DOMAIN typed : IsDashed(typed[i]) /\ typed[i].form.year = "joined"

AsTyped(typed) ==
  [begin |-> IF Len(typed) = 2 THEN typed[1] ELSE NoText, end |-> typed[Len(typed)]]

Unreadable == [form |-> Dateless("none"), named |-> FALSE, day |-> 0, hour |-> 0]
TimesOf(time) ==
  {[form |-> Dateless(time), named |-> FALSE, day |-> 0, hour |-> h] : h \in 0 .. MaxHour}

(* A date with one dash is taken for a period.  Neither half of it is a date, but
   either may look like a time: of `14 01-2 05pm', by which the first of February
   2014 is meant, the year and the day, and the month and the hour.        *)
Halves(text) ==
  {[begin |-> Unreadable, end |-> Unreadable]}
  \cup {[begin |-> b, end |-> e] :
          b \in IF text.form.year = "apart" THEN TimesOf("clock") ELSE {},
          e \in {Unreadable} \cup (IF text.form.time = "hour_ap" THEN TimesOf("clock_ap") ELSE {})}

Split(typed) == IF HasDash(typed) THEN Halves(typed[1]) ELSE {AsTyped(typed)}

RefuseParts(t) ==
  /\ t # Startup /\ thread[t].at = "idle"
  /\ \E typed \in Periods :
       /\ TooManyParts(typed)
       /\ thread' = [thread EXCEPT ![t] = [Nowhere EXCEPT !.typed = typed, !.answer = "no_range"]]
  /\ UNCHANGED <<formatsAlreadyInit, holder, table, today>>

Parse(t) ==
  /\ t # Startup /\ thread[t].at = "idle"
  /\ \E typed \in Periods :
       /\ ~TooManyParts(typed)
       /\ \E p \in Split(typed) :
            thread' = [thread EXCEPT ![t] =
                        [Nowhere EXCEPT !.at = "reading", !.typed = typed, !.period = p,
                                        !.part = IF p.begin = NoText THEN "end" ELSE "begin"]]
  /\ UNCHANGED <<formatsAlreadyInit, holder, table, today>>

(* Named days are put in and the date taken, whatever is waited for then. *)
ReadClock(t) ==
  /\ thread[t].at = "reading"
  /\ thread' = [thread EXCEPT ![t].at = "asking", ![t].day = today]
  /\ UNCHANGED <<formatsAlreadyInit, holder, table, today>>

AskInit(t) ==
  /\ Goes(t, "asking", IF formatsAlreadyInit THEN "searching" ELSE "entering")
  /\ UNCHANGED <<formatsAlreadyInit, holder, table, today>>

(* Wrong on purpose: a day begins at its end and ends at its beginning. *)
DefaultHourSwapped(part) == IF part = "begin" THEN MaxHour ELSE 0

DefaultHour(part) == IF part = "begin" THEN 0 ELSE MaxHour

SaidDay(text, day) == IF text.named THEN day + text.day ELSE text.day

(* The one list the form of the text is found in says what is missing. *)
ParseDate(text, part, day) ==
  LET searched == IF text.form.time \in {"clock_ap", "hour_ap"} THEN WithAp ELSE WithoutAp
      found == {n \in searched : text.form \in table[n]}
  IN  CASE found = {} -> Invalid
        [] found # {} /\ found \subseteq {"timeFormats", "timeFormatsAp"} ->
             At(day, text.hour)
        [] found # {} /\ found \subseteq {"dateFormatsWithoutYear", "dateFormats"} ->
             At(SaidDay(text, day), DefaultHour(part))
        [] OTHER -> At(SaidDay(text, day), text.hour)

(* The errors of parseTimePeriod that are left when there are no more than two
   parts, in the order they are looked for.                                *)
Answer(period, read) ==
  CASE period.begin # NoText /\ ~read.begin.valid -> "no_begin"
    [] period.begin = NoText /\ ~read.end.valid -> "no_end"
    [] period.begin # NoText /\ read.begin.valid /\ ~read.end.valid -> "no_end"
    [] period.begin # NoText /\ read.begin.valid /\ read.end.valid
         /\ Earlier(read.end, read.begin) -> "reversed"
    [] OTHER -> "read"

Search(t) ==
  /\ thread[t].at = "searching"
  /\ LET part == thread[t].part
         read == [thread[t].read EXCEPT ![part] =
                   ParseDate(thread[t].period[part], part, thread[t].day)]
     IN  thread' = [thread EXCEPT ![t].read = read,
                      ![t].at = IF part = "begin" THEN "reading" ELSE "idle",
                      ![t].part = "end",
                      ![t].answer = IF part = "begin" THEN "none"
                                    ELSE Answer(thread[t].period, read)]
  /\ UNCHANGED <<formatsAlreadyInit, holder, table, today>>

Tick ==
  /\ today < MaxDay
  /\ today' = today + 1
  /\ UNCHANGED <<formatsAlreadyInit, holder, table, thread>>

-----------------------------------------------------------------------------
Step(t) == ReadClock(t) \/ AskInit(t) \/ Search(t) \/ InitFormats(t)

Next == Tick \/ \E t \in Threads : RefuseParts(t) \/ Parse(t) \/ Step(t)

(* The threads are scheduled; nobody need ask for anything. *)
Spec == Init /\ [][Next]_vars /\ \A t \in Threads : WF_vars(Step(t))

-----------------------------------------------------------------------------
Generating ==
  {"time", "date_without_year", "date", "date_and_time_without_year", "date_and_time"}

Place ==
  Generating \cup {"idle", "reading", "asking", "entering", "checking", "made",
                  "leaving", "searching", "ended"}

Moment == {Invalid} \cup [valid : {TRUE}, day : Nat, hour : 0 .. MaxHour]

Reader ==
  [at : Place, typed : Periods \cup {<<>>}, period : Period \cup {NoPeriod},
   part : {"begin", "end"}, day : Nat, read : [begin : Moment, end : Moment],
   answer : {"none", "read", "no_range", "no_begin", "no_end", "reversed"}]

(* Every variable has its type: times with `am' and `pm' are in the lists named
   for them and nowhere else.                                              *)
TypeOK ==
  /\ formatsAlreadyInit \in BOOLEAN /\ holder \in Threads \cup {Nobody}
  /\ today \in 0 .. MaxDay
  /\ table \in [Tables -> SUBSET Form]
  /\ thread \in [Threads -> Reader]
  /\ \A n \in Tables : \A f \in table[n] :
       n \in WithAp <=> f.time \in {"clock_ap", "hour_ap"}

(* The assertion of every generator holds: the lists are made once, by one
   thread, however many find them missing at the same time.                *)
MadeOnce ==
  /\ \A t \in Threads : thread[t].at \in Generating => ~formatsAlreadyInit
  /\ \A t, u \in Threads :
       thread[t].at \in Generating /\ thread[u].at \in Generating => t = u

(* Whoever searches the lists, with or without having waited, finds in them every
   combination of a date or none, a year or none and a time or none, and never
   lists another thread is still making.                                   *)
Understood ==
  {f \in Form : /\ f.date # "none" \/ (f.year = "none" /\ f.time # "none")
                /\ f.year = "joined" => f.date \in {"slashed", "dashed"}}

WholeTables ==
  (\E t \in Threads : thread[t].at = "searching")
    => UNION {table[n] : n \in Tables} = Understood

(* What a text says for a day that counts from the present one, be it named or
   left out.                                                               *)
Present(text) == text.named \/ text.form.date = "none"
Ahead(text) == IF text.form.date = "none" THEN 0 ELSE text.day
Hour(text, first) ==
  IF text.form.time # "none" THEN text.hour ELSE IF first THEN 0 ELSE MaxHour

Forward(period) ==
  /\ period.end.form \in Understood
  /\ \/ period.begin = NoText
     \/ /\ period.begin.form \in Understood
        /\ Present(period.begin) = Present(period.end)
        /\ ~Earlier(At(Ahead(period.end), Hour(period.end, FALSE)),
                    At(Ahead(period.begin), Hour(period.begin, TRUE)))

StandsAsTyped(typed) ==
  Len(typed) <= 2 /\ ~HasDash(typed) /\ Forward(AsTyped(typed))

(* A period in forms the program understands that begins before it ends is never
   refused, unless a date in it has dashes, although it takes two looks at the
   clock, with midnight and the making of the lists perhaps between the two; one
   that is accepted is never reversed.  A date with dashes is never read as such,
   although its form is in the lists: it is refused, but for one with the year
   apart and an hour, which may be taken for two times.                    *)
PeriodsStand ==
  \A t \in Parsers :
    /\ thread[t].answer # "none" /\ StandsAsTyped(thread[t].typed)
         => thread[t].answer = "read"
    /\ thread[t].answer = "read" /\ thread[t].period.begin # NoText
         => ~Earlier(thread[t].read.end, thread[t].read.begin)
    /\ thread[t].answer = "read" /\ HasDash(thread[t].typed)
         => \A i \in DOMAIN thread[t].typed :
              /\ thread[t].typed[i].form.year = "apart"
              /\ thread[t].typed[i].form.time = "hour_ap"

(* Whoever asks for a period to be read gets an answer, and the program is not
   kept waiting at the mutex for ever.                                     *)
Answered == \A t \in Parsers : thread[t].at = "reading" ~> thread[t].at = "idle"
=============================================================================
