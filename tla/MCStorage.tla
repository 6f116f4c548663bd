----------------------------- MODULE MCStorage -----------------------------
(* Small instances of SaveFile and of FreeTime with Notifications for TLC: each
   takes its steps while the other is as it started.  An int goes to 3, what is
   not signed to 7, and two ticks make a second.                            *)
EXTENDS SaveFile, Notifications

\* In ticks: the first second there is, and one only an unsigned number holds.
MCTimes == {2, 9}

MCInit == Init /\ NotifyInit /\ (writable \/ now = 0)

MCNext ==
  \/ NotifyInit /\ now = 0 /\ Next /\ UNCHANGED notifyVars
  \/ Init /\ writable /\ NotifyNext /\ UNCHANGED vars

MCSpec == MCInit /\ [][MCNext]_<<vars, notifyVars>>
=============================================================================
