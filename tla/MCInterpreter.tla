--------------------------- MODULE MCInterpreter ---------------------------
(* Small instances of DateFormats and CommandText for TLC: each takes its steps
   while the other is as it started.                                        *)
EXTENDS DateFormats, CommandText

F(date, year, time) == [date |-> date, year |-> year, time |-> time]
Says(form, named, day, hour) ==
  [form |-> form, named |-> named, day |-> day, hour |-> hour]

Midnight == Says(F("none", "none", "clock_ap"), FALSE, 0, 0)
Today == Says(F("slashed", "joined", "none"), TRUE, 0, 0)
First == Says(F("slashed", "joined", "clock"), FALSE, 0, 1)
Second == Says(F("slashed", "none", "none"), FALSE, 1, 0)
Dashed == Says(F("dashed", "apart", "hour_ap"), FALSE, 1, 1)
DashedDay == Says(F("dashed", "none", "none"), FALSE, 1, 0)
DashedYear == Says(F("dashed", "joined", "none"), FALSE, 1, 0)

\* Named and undated, dated, with an end alone; and dates with two dashes, with one, and
\* with one that may be taken for two times, reversed unless midnight passes.
MCPeriods ==
  {<<Today, Midnight>>, <<First, Second>>, <<First>>,
   <<DashedYear>>, <<DashedDay>>, <<Dashed>>}

MCDates == {<<"a">>, <<"a", "b">>}

\* Nothing on it, one tag and a date, and as many tags as there may be.
MCListed ==
  {[description |-> <<"a">>, tags |-> {}, date |-> <<>>],
   [description |-> <<"b">>, tags |-> {<<"a">>}, date |-> <<"a">>],
   [description |-> <<"b">>, tags |-> {<<"a">>, <<"b">>}, date |-> <<"a">>]}

MCInit == Init /\ TextInit

DatesNext == TextInit /\ Next /\ UNCHANGED textVars
TextsNext == Init /\ TextNext /\ UNCHANGED vars

MCSpec ==
  /\ MCInit /\ [][DatesNext \/ TextsNext]_<<vars, textVars>>
  /\ \A t \in Threads : WF_<<vars, textVars>>(TextInit /\ Step(t) /\ UNCHANGED textVars)
=============================================================================
