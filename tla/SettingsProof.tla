---------------------------- MODULE SettingsProof ----------------------------
(***************************************************************************)
(* Proofs about module Settings, for every set of cadences: the watcher    *)
(* takes no file for loaded that is not, but for an edit just before the   *)
(* stamp of a save or of the start is read; and a task whose cadence comes *)
(* from the settings is the task of module Supervisor.                     *)
(***************************************************************************)
EXTENDS Settings, SupervisorProof

\* Every step of the system is a step of the task or leaves it alone.
LEMMA ImplementsStep == [SystemNext]_systemVars => [Next]_vars
  <1> SUFFICES ASSUME [SystemNext]_systemVars PROVE [Next]_vars
    OBVIOUS
  <1>1. CASE TaskSteps
    BY <1>1 DEF TaskSteps, Alone, Next, Request
  <1>2. CASE Load
    <2>1. (file' \in Interval /\ Configure(file')) \/ UNCHANGED vars
      BY <1>2 DEF Load
    <2> QED
      BY <2>1 DEF Next, Request
  <1>3. ASSUME NEW i \in Interval, Replace(i) PROVE [Next]_vars
    BY <1>3 DEF Replace, Next, Request
  <1>4. CASE Notice \/ Note \/ TakeStamp \/ \E f \in Interval \cup {Broken, Missing} : EditFile(f)
    BY <1>4 DEF Notice, Note, TakeStamp, EditFile
  <1>5. CASE UNCHANGED systemVars
    BY <1>5 DEF systemVars
  <1> QED
    BY <1>1, <1>2, <1>3, <1>4, <1>5 DEF SystemNext, Watcher

\* The composition implements the task by itself: whatever is proved of module
\* Supervisor holds of the task whose cadence is saved, edited and reloaded.
THEOREM ImplementsSupervisor == System => Spec
  <1>1. SettingsInit => Init
    BY DEF SettingsInit
  <1> QED
    BY <1>1, ImplementsStep, PTL DEF System, Spec

\* A shortened cadence takes effect at the next look at the clock, and a task that
\* is off begins no run, also when the change comes from the file or from a save
\* (Supervisor, TypeOK, ShorteningTakesEffect and DisabledStaysOff).
THEOREM TaskKeepsItsWord ==
    System => []TypeOK /\ ShorteningTakesEffect /\ DisabledStaysOff
  BY ImplementsSupervisor, TypeCorrect, ShorteningApplies, OffStaysOff, PTL

-----------------------------------------------------------------------------
(* The file and the stamp *)

\* Init and the steps of the system keep the types.
LEMMA SettingsTypeStep == SettingsTypeOK /\ [SystemNext]_systemVars => SettingsTypeOK'
  <1> SUFFICES ASSUME SettingsTypeOK, [SystemNext]_systemVars PROVE SettingsTypeOK'
    OBVIOUS
  <1> USE DEF SettingsTypeOK, Stamp
  <1>1. CASE TaskSteps
    BY <1>1 DEF TaskSteps, Alone, settingsVars
  <1>2. CASE Notice
    BY <1>2 DEF Notice, CurrentStamp
  <1>3. CASE Load
    BY <1>3, SettingsAssumption DEF Load, Aged
  <1>4. CASE Note \/ TakeStamp
    BY <1>4 DEF Note, TakeStamp, CurrentStamp
  <1>5. ASSUME NEW i \in Interval, Replace(i) PROVE SettingsTypeOK'
    BY <1>5 DEF Replace, Aged
  <1>6. ASSUME NEW f \in Interval \cup {Broken, Missing}, EditFile(f) PROVE SettingsTypeOK'
    BY <1>6 DEF EditFile, Aged
  <1>7. CASE UNCHANGED systemVars
    BY <1>7 DEF systemVars, settingsVars
  <1> QED
    BY <1>1, <1>2, <1>3, <1>4, <1>5, <1>6, <1>7 DEF SystemNext, Watcher

\* The types of the file and the stamps (Settings, SettingsTypeOK).
THEOREM SettingsTyped == System => []SettingsTypeOK
  <1>1. SettingsInit => SettingsTypeOK
    BY DEF SettingsInit, Init, SettingsTypeOK, Stamp
  <1> QED
    BY <1>1, SettingsTypeStep, PTL DEF System

\* Whoever is about to note the stamp of the file as it is now has put the file's
\* contents in force, and a stamp is of the file only while there is one.
Watched ==
    /\ noted = "file" => step = "free" /\ file # Missing
    /\ noted = "file" /\ file \in Interval /\ ~overtaken => interval = file
    /\ step \in {"stat", "read"} /\ mtime = "file" => file # Missing
    /\ step = "read" /\ mtime = "file" /\ file \in Interval => interval = file
    /\ step = "stamp" /\ ~overtaken => interval = file

\* Watched is inductive.
LEMMA WatchedStep ==
    SettingsTypeOK /\ Watched /\ [SystemNext]_systemVars => Watched'
  <1> SUFFICES ASSUME SettingsTypeOK, Watched, [SystemNext]_systemVars PROVE Watched'
    OBVIOUS
  <1> USE SettingsAssumption DEF SettingsTypeOK, Stamp
  <1>1. CASE TaskSteps
    <2>1. interval' = interval
      BY <1>1 DEF TaskSteps, Alone, Trigger, Stop, SetEnabled, Wake, Poll, Run, Finish, End
    <2> QED
      BY <1>1, <2>1 DEF TaskSteps, Alone, settingsVars, Watched
  <1>2. CASE Notice
    BY <1>2 DEF Notice, CurrentStamp, Watched, vars
  <1>3. CASE Load
    <2>1. CASE file = Missing
      BY <1>3, <2>1 DEF Load, Aged, Watched
    <2>2. CASE file # Missing
      BY <1>3, <2>2 DEF Load, Configure, Watched, vars
    <2> QED
      BY <2>1, <2>2
  <1>4. CASE Note
    BY <1>4 DEF Note, Watched, vars
  <1>5. CASE TakeStamp
    BY <1>5 DEF TakeStamp, CurrentStamp, Watched, vars
  <1>6. ASSUME NEW i \in Interval, Replace(i) PROVE Watched'
    BY <1>6 DEF Replace, Configure, Aged, Watched
  <1>7. ASSUME NEW f \in Interval \cup {Broken, Missing}, EditFile(f) PROVE Watched'
    BY <1>7 DEF EditFile, Aged, Watched, vars
  <1>8. CASE UNCHANGED systemVars
    BY <1>8 DEF systemVars, settingsVars, vars, Watched
  <1> QED
    BY <1>1, <1>2, <1>3, <1>4, <1>5, <1>6, <1>7, <1>8 DEF SystemNext, Watcher

\* The watcher is never content with a file that is not in force, whatever is
\* written between its steps and wherever the last edit fell, unless it fell
\* between a save, or the load at the start, and its stamp (Settings, NotedIsLoaded).
THEOREM NotedFileIsLoaded == System => []NotedIsLoaded
  <1>1. SettingsInit => Watched
    BY SettingsAssumption DEF SettingsInit, Init, Watched
  <1>2. Watched => NotedIsLoaded
    BY DEF Watched, NotedIsLoaded
  <1> QED
    BY <1>1, <1>2, WatchedStep, SettingsTyped, PTL DEF System
=============================================================================
