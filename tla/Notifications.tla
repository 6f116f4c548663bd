--------------------------- MODULE Notifications ---------------------------
(***************************************************************************)
(* Which task the program means to tell of next, and when                  *)
(* (NotificationManager.cpp; getNextUpcomingTask, Storage.cpp 78 to 87).   *)
(* init() is called at the end of every load and every save, that is after *)
(* each change of the list; it looks for the first task of the list that   *)
(* has yet to begin, and sets the interval of a timer.  The timer is never *)
(* started (line 62), so nothing is ever told: what is modelled is what is *)
(* scheduled.                                                              *)
(***************************************************************************)
EXTENDS FreeTime, Integers

CONSTANTS
  Notice,     \* how long before its beginning a task is told of
  TimerMax    \* the largest interval of a timer, an int

ASSUME NoticeAssumption == Notice \in Nat /\ TimerMax \in Nat

VARIABLES
  nextTask,
  interval    \* of the timer

notifyVars == <<freeVars, nextTask, interval>>

NoEvent == [begin |-> 0, end |-> 0, done |-> FALSE]

NotifyInit == FreeInit /\ nextTask = NoEvent /\ interval = 0

(* Wrong on purpose: the task that is next to end. *)
NextUpcomingByEnd(list) ==
  list[Min({i \in DOMAIN list : list[i].end > now})]

HasUpcoming(list) == \E i \in DOMAIN list : list[i].begin > now

NextUpcoming(list) == list[Min({i \in DOMAIN list : list[i].begin > now})]

(* The time left is an unsigned number, which is never found to be negative, and
   becomes the signed one of the timer.                                    *)
AsInt(n) ==
  LET low == n % (2 * (TimerMax + 1))
  IN  IF low <= TimerMax THEN low ELSE low - 2 * (TimerMax + 1)

Schedule ==
  IF HasUpcoming(tasks')
  THEN /\ nextTask' = NextUpcoming(tasks')
       /\ interval' = AsInt(nextTask'.begin - now - Notice)
  ELSE UNCHANGED <<nextTask, interval>>

ChangeAndSave == ChangeTasks /\ Schedule

Wait == Tick /\ UNCHANGED <<nextTask, interval>>

NotifyNext == ChangeAndSave \/ Wait

NotifySpec == NotifyInit /\ [][NotifyNext]_notifyVars

-----------------------------------------------------------------------------
(* Every variable has its type. *)
TypeOKNotify ==
  /\ TypeOKFree
  /\ nextTask \in Event
  /\ interval \in -(TimerMax + 1) .. TimerMax

(* After each change, if an event is yet to begin, one that is on the list and yet
   to begin is scheduled; it is the first of them to begin, if the list is in
   that order; and unless it begins within the time of notice, or too late for
   an int, the interval is up when the notice is due.                      *)
UpcomingIsNext ==
  [][ChangeTasks =>
       LET upcoming == {i \in DOMAIN tasks' : tasks'[i].begin > now}
           due == nextTask'.begin - Notice
       IN  upcoming # {} =>
             /\ \E i \in upcoming : tasks'[i] = nextTask'
             /\ InOrderOfBegin' => \A i \in upcoming : nextTask'.begin <= tasks'[i].begin
             /\ due \in now .. now + TimerMax => now + interval' = due
    ]_notifyVars
=============================================================================
