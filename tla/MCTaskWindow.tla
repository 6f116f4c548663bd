---------------------------- MODULE MCTaskWindow ----------------------------
(* Small instances of TaskWindow and Settings for TLC: each takes its steps while
   the other is as it started, so the states are those of the one and those of
   the other and not their pairs.  Of the two ways Settings may start, TaskWindow
   takes its steps in one.                                                  *)
EXTENDS TaskWindow, Settings

MCInit == Init /\ SettingsInit

MCNext ==
  \/ SettingsInit /\ looks.features /\ Next /\ UNCHANGED settingsVars
  \/ Init /\ SettingsNext /\ UNCHANGED vars

MCSpec == MCInit /\ [][MCNext]_<<vars, settingsVars>>

(* Every variable of both has its type. *)
TypesOK == TypeOK /\ TypeOKSettings
=============================================================================
