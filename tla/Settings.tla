------------------------------ MODULE Settings ------------------------------
(***************************************************************************)
(* The settings (config.py, ConfigStore) and the supervised task that reads *)
(* its cadence from them.  They are written from the dashboard and by hand, *)
(* in conduit.toml; a watcher compares the file's time stamp with the one   *)
(* it has noted.  Its steps, those of a save and those of the start run     *)
(* without an await, so nothing in the process comes between them; an       *)
(* editor may.                                                             *)
(*                                                                         *)
(* Of a configuration only the cadence matters here.                       *)
(***************************************************************************)
EXTENDS Supervisor

CONSTANTS
    Broken,     \* a file that does not parse or validate
    Missing,    \* no file
    Default     \* default_config

ASSUME SettingsAssumption ==
    /\ Default \in Interval
    /\ Broken \notin Interval /\ Missing \notin Interval /\ Broken # Missing

VARIABLES
    file,       \* what is in conduit.toml
    noted,      \* the stamp noted is the file's, an older one, or that of no file
    step,       \* "free", or where refresh is ("stat", "read"), or "stamp": __init__
                \* and replace have the file in force and its stamp still to read
    mtime,      \* refresh's own reading of the stamp, while it is at work
    overtaken   \* history: the last edit fell into a step "stamp"

settingsVars == <<file, noted, step, mtime, overtaken>>
systemVars == <<vars, settingsVars>>

Stamp == {"file", "old", "none"}

SettingsTypeOK ==
    /\ file \in Interval \cup {Broken, Missing}
    /\ noted \in Stamp /\ mtime \in Stamp
    /\ step \in {"free", "stat", "read", "stamp"}
    /\ overtaken \in BOOLEAN

\* ConfigStore.__init__, before anything else runs: the file has been loaded, or
\* written with the defaults; no stamp is noted yet.
SettingsInit ==
    /\ Init
    /\ file = interval
    /\ noted = "old" /\ mtime = "old"
    /\ step = "stamp"
    /\ overtaken = FALSE

\* _current_mtime
CurrentStamp == IF file = Missing THEN "none" ELSE "file"

\* A stamp taken earlier, once the file is written or removed again.
Aged(stamp) == IF stamp = "file" THEN "old" ELSE stamp

-----------------------------------------------------------------------------
(* The watcher *)

\* refresh: the file is not the one noted.
Notice ==
    /\ step = "free" /\ ~stopping
    /\ noted # CurrentStamp
    /\ step' = "stat"
    /\ mtime' = CurrentStamp
    /\ UNCHANGED <<vars, file, noted, overtaken>>

\* load_config: a missing file is written with the defaults, and a broken one
\* leaves the last good configuration.
Load ==
    /\ step = "stat"
    /\ step' = "read"
    /\ file' = IF file = Missing THEN Default ELSE file
    /\ mtime' = IF file = Missing THEN Aged(mtime) ELSE mtime
    /\ IF file' \in Interval THEN Configure(file') ELSE UNCHANGED vars
    /\ UNCHANGED <<noted, overtaken>>

\* Mutant of Note: the stamp is read after the file.
NoteLate ==
    /\ step = "read"
    /\ step' = "free"
    /\ noted' = CurrentStamp /\ mtime' = "old"
    /\ UNCHANGED <<vars, file, overtaken>>

\* The stamp noted is the one read before the file was.
Note ==
    /\ step = "read"
    /\ step' = "free"
    /\ noted' = mtime /\ mtime' = "old"
    /\ UNCHANGED <<vars, file, overtaken>>

-----------------------------------------------------------------------------
(* The dashboard and the editor *)

\* Mutant of Replace: the file is written, the live configuration is not.
ReplaceOnDisk(i) ==
    /\ step = "free" /\ ~stopping
    /\ file' = i
    /\ noted' = Aged(noted)
    /\ step' = "stamp"
    /\ overtaken' = FALSE
    /\ UNCHANGED <<vars, mtime>>

\* PUT /config, replace: the file is written and the configuration taken over...
Replace(i) ==
    /\ step = "free" /\ ~stopping
    /\ file' = i
    /\ noted' = Aged(noted)
    /\ step' = "stamp"
    /\ overtaken' = FALSE
    /\ Configure(i)
    /\ UNCHANGED mtime

\* ... and then the stamp is read, as it is at the start after the file is loaded.
TakeStamp ==
    /\ step = "stamp"
    /\ step' = "free"
    /\ noted' = CurrentStamp
    /\ UNCHANGED <<vars, file, mtime, overtaken>>

\* The file is edited, half written or removed, at any moment.
EditFile(f) ==
    /\ file' = f
    /\ noted' = Aged(noted) /\ mtime' = Aged(mtime)
    /\ overtaken' = (step = "stamp")
    /\ UNCHANGED <<vars, step>>

-----------------------------------------------------------------------------
(* The specification *)

\* The task and the requests it gets have the event loop to themselves.
Alone(A) == step = "free" /\ A /\ UNCHANGED settingsVars

TaskSteps ==
    \/ Alone(Trigger) \/ Alone(Stop) \/ \E on \in BOOLEAN : Alone(SetEnabled(on))
    \/ Alone(Wake) \/ Alone(Poll) \/ Alone(Run) \/ Alone(End)

Watcher == Notice \/ Load \/ Note

SystemNext ==
    \/ TaskSteps \/ Watcher \/ TakeStamp
    \/ \E i \in Interval : Replace(i)
    \/ \E f \in Interval \cup {Broken, Missing} : EditFile(f)

System == SettingsInit /\ [][SystemNext]_systemVars

\* The event loop serves those ready in turn: however many requests come, a sleeper
\* that is due or signalled is resumed, a task function returns (its client calls
\* have time-outs), a cancellation is delivered, and the watcher (a task of its
\* own, every 15 s) gets its turn.  A save and the start wait for nothing.
FairSystem ==
    /\ System
    /\ WF_systemVars(TakeStamp) /\ SF_systemVars(Watcher)
    /\ SF_systemVars(Alone(Wake \/ Poll))
    /\ SF_systemVars(Alone(Run)) /\ SF_systemVars(Alone(End))

-----------------------------------------------------------------------------
(* Properties *)

\* The watcher is never content with a file whose contents are not in force,
\* whatever was written while it was looking or while a save was going on; the
\* exception is an edit after the last save, or after the load at the start, and
\* before the stamp of it was read (refresh, replace, __init__).
NotedIsLoaded ==
    step = "free" /\ noted = "file" /\ file \in Interval /\ ~overtaken => interval = file

\* "Editing the TOML by hand takes effect within seconds": what stays in the file
\* comes into force, whatever was broken, missing or saved in between.  The same
\* edits are excepted: what they leave in the file is not looked at again.
EditTakesEffect ==
    \A i \in Interval : file = i ~> interval = i \/ file # i \/ overtaken \/ stopping
=============================================================================
