------------------------------ MODULE Settings ------------------------------
(***************************************************************************)
(* The configuration file between its writer and its readers: the Settings *)
(* app (settings/main.rs) replaces it and tells the hotkey companion       *)
(* (t3a-hotkey/main.rs); every keyboard compares its modification time at  *)
(* the start of a word (push_char, load_config, service.rs).  A read of    *)
(* the file, its time, the rename and the message are separate steps.      *)
(***************************************************************************)
EXTENDS Naturals

CONSTANTS
    Hotkey,        \* the global hotkeys that can be registered
    Unusable,      \* those the companion refuses: reserved or invalid
    DefaultHotkey,
    Tip,           \* keyboards, one in each application
    SignInChecks,  \* checks for stray keyboards after the one at start (3)
    MaxSaves       \* bound on the replacements of the file

Config == [hotkey : Hotkey \union Unusable \union {"off"}, tidy : BOOLEAN]
Defaults == [hotkey |-> DefaultHotkey, tidy |-> TRUE]

VARIABLES
    file,        \* the configuration file
    stamp,       \* its modification time
    saving,      \* the Settings app: "idle", "written", "renamed"
    tmp,         \* what it wrote next to the file, Defaults when idle
    tipPc,       \* each keyboard: "idle", "changed", "reading", "typing"
    tipConfig,   \* State::config
    tipStamp,    \* State::config_mtime
    wordStamp,   \* stamp when the word was begun
    tipFailed,   \* the keyboard could not read the file
    companion,   \* "none", "start", "idle", "schedule" (in the middle of a message)
    reloads,     \* WM_APP_RELOAD messages it has not taken
    quitting,    \* PostQuitMessage was called
    registered,  \* its hotkey, "none" without one
    status,      \* the state it wrote for the Settings app
    timer,       \* its timer is armed
    checks,      \* TIDY_CHECKS, up to SignInChecks + 1
    stranded     \* the companion missed a change it could not see

fileVars == <<file, stamp, saving, tmp>>
tipVars == <<tipPc, tipConfig, tipStamp, wordStamp, tipFailed>>
companionVars == <<companion, reloads, quitting, registered, status, timer, checks>>
vars == <<fileVars, tipVars, companionVars, stranded>>

-----------------------------------------------------------------------------
(* The Settings app.                                                       *)

WriteTmp(c) ==
    /\ saving = "idle" /\ stamp < MaxSaves
    /\ tmp' = c /\ saving' = "written"
    /\ UNCHANGED <<file, stamp, tipVars, companionVars, stranded>>

\* save_settings puts the settings shown, which must be valid, over the file's.
SaveSettings == \E c \in Config : c.hotkey \notin Unusable /\ WriteTmp(c)

\* import_learning takes those of a learning file, whatever hotkey they hold, when
\* the file's records are in the journal.
ImportSettings == \E c \in Config : WriteTmp(c)

Rename ==
    /\ saving = "written"
    /\ file' = tmp /\ stamp' = stamp + 1 /\ saving' = "renamed"
    /\ UNCHANGED <<tmp, tipVars, companionVars, stranded>>

Needed(c) == c.hotkey # "off" \/ c.tidy

\* notify_companion: a message to its window, or a new process if it is needed.
NotifyCompanion ==
    /\ saving = "renamed" /\ saving' = "idle" /\ tmp' = Defaults
    /\ IF companion # "none"
       THEN /\ reloads' = reloads + 1 /\ stranded' = (stranded \/ quitting)
            /\ UNCHANGED companion
       ELSE /\ \/ companion' = (IF Needed(tmp) THEN "start" ELSE "none") /\ stranded' = FALSE
               \/ companion' = "none" /\ stranded' = TRUE        \* it cannot be started
            /\ UNCHANGED reloads
    /\ UNCHANGED <<file, stamp, tipVars, quitting, registered, status, timer, checks>>

\* A write or rename that fails, or the app closed, at any step.
GiveUp ==
    /\ saving # "idle" /\ saving' = "idle" /\ tmp' = Defaults
    /\ stranded' = (stranded \/ saving = "renamed")
    /\ UNCHANGED <<file, stamp, tipVars, companionVars>>

-----------------------------------------------------------------------------
(* The keyboards.                                                          *)

\* push_char of a word's first letter: load_config only when the time changed.
StartWord(t) ==
    /\ tipPc[t] = "idle"
    /\ tipPc' = [tipPc EXCEPT ![t] = IF stamp = tipStamp[t] THEN "typing" ELSE "changed"]
    /\ wordStamp' = [wordStamp EXCEPT ![t] = stamp]
    /\ UNCHANGED <<fileVars, tipConfig, tipStamp, tipFailed, companionVars, stranded>>

TextThenTime(t, step) ==   \* mutant: the file's time is taken after its text
    IF step = "first"
    THEN \E failed \in BOOLEAN :
            /\ tipFailed' = [tipFailed EXCEPT ![t] = failed]
            /\ tipConfig' = [tipConfig EXCEPT ![t] = IF failed THEN Defaults ELSE file]
            /\ UNCHANGED tipStamp
    ELSE tipStamp' = [tipStamp EXCEPT ![t] = stamp] /\ UNCHANGED <<tipConfig, tipFailed>>

\* load_config keeps the text under a time taken before it; a file that cannot
\* be read counts as the defaults.
LoadConfig(t, step) ==
    IF step = "first"
    THEN tipStamp' = [tipStamp EXCEPT ![t] = stamp] /\ UNCHANGED <<tipConfig, tipFailed>>
    ELSE \E failed \in BOOLEAN :
            /\ tipFailed' = [tipFailed EXCEPT ![t] = failed]
            /\ tipConfig' = [tipConfig EXCEPT ![t] = IF failed THEN Defaults ELSE file]
            /\ UNCHANGED tipStamp

Reading(t) ==
    /\ \/ tipPc[t] = "changed" /\ LoadConfig(t, "first") /\ tipPc' = [tipPc EXCEPT ![t] = "reading"]
       \/ tipPc[t] = "reading" /\ LoadConfig(t, "second") /\ tipPc' = [tipPc EXCEPT ![t] = "typing"]
    /\ UNCHANGED <<fileVars, wordStamp, companionVars, stranded>>

EndWord(t) ==
    /\ tipPc[t] = "typing" /\ tipPc' = [tipPc EXCEPT ![t] = "idle"]
    /\ UNCHANGED <<fileVars, tipConfig, tipStamp, wordStamp, tipFailed, companionVars, stranded>>

-----------------------------------------------------------------------------
(* The companion.  It reads the file once to register the hotkey and again  *)
(* to schedule its next check.                                             *)

Read == {file, Defaults}
Misread(c) == stranded' = (stranded \/ c # file)

\* register: the old hotkey goes first, the new one may belong to another program.
Register(c) ==
    \/ c.hotkey = "off" /\ registered' = "none" /\ status' = "off"
    \/ c.hotkey \in Unusable /\ registered' = "none" /\ status' = "refused"
    \/ c.hotkey \in Hotkey /\ registered' = "none" /\ status' = "taken"
    \/ c.hotkey \in Hotkey /\ registered' = c.hotkey /\ status' = "ok"

\* run_companion: the hotkey, then the first check, which counts.
Start ==
    /\ companion = "start" /\ companion' = "schedule" /\ checks' = 1
    /\ \E c \in Read : Register(c) /\ Misread(c)
    /\ UNCHANGED <<fileVars, tipVars, reloads, quitting, timer>>

RegisterOnly ==   \* mutant: a changed configuration does not reschedule the checks
    /\ companion = "idle" /\ reloads > 0
    /\ reloads' = reloads - 1 /\ UNCHANGED companion
    /\ \E c \in Read : Register(c) /\ Misread(c)
    /\ UNCHANGED <<fileVars, tipVars, quitting, timer, checks>>

\* WM_APP_RELOAD.
Reload ==
    /\ companion = "idle" /\ reloads > 0
    /\ reloads' = reloads - 1 /\ companion' = "schedule"
    /\ \E c \in Read : Register(c) /\ Misread(c)
    /\ UNCHANGED <<fileVars, tipVars, quitting, timer, checks>>

\* WM_TIMER: a check for stray keyboards (module Layouts).
Check ==
    /\ companion = "idle" /\ timer /\ companion' = "schedule"
    /\ checks' = (IF checks <= SignInChecks THEN checks + 1 ELSE checks)
    /\ UNCHANGED <<fileVars, tipVars, reloads, quitting, registered, status, timer, stranded>>

\* schedule_tidy: the timer is armed for the next check or stopped, and
\* without a hotkey the process is done.
NextCheck(c) == checks <= SignInChecks \/ c.tidy

ScheduleTidy ==
    /\ companion = "schedule" /\ companion' = "idle"
    /\ \E c \in Read :
          /\ timer' = NextCheck(c) /\ Misread(c)
          /\ quitting' = (quitting \/ (~NextCheck(c) /\ c.hotkey = "off"))
    /\ UNCHANGED <<fileVars, tipVars, reloads, registered, status, checks>>

\* WM_QUIT comes when no message is left; what was registered is gone.
Quit ==
    /\ companion = "idle" /\ quitting /\ reloads = 0
    /\ companion' = "none" /\ quitting' = FALSE /\ registered' = "none" /\ timer' = FALSE /\ checks' = 0
    /\ UNCHANGED <<fileVars, tipVars, reloads, status, stranded>>

-----------------------------------------------------------------------------
Init ==
    /\ file = Defaults /\ stamp = 0 /\ saving = "idle" /\ tmp = Defaults
    /\ tipPc = [t \in Tip |-> "idle"] /\ tipConfig = [t \in Tip |-> Defaults]
    /\ tipStamp = [t \in Tip |-> 0] /\ wordStamp = [t \in Tip |-> 0]
    /\ tipFailed = [t \in Tip |-> FALSE]
    /\ companion = "start" /\ reloads = 0 /\ quitting = FALSE /\ registered = "none"
    /\ status = "off" /\ timer = FALSE /\ checks = 0 /\ stranded = FALSE

Next ==
    \/ SaveSettings \/ ImportSettings \/ Rename \/ NotifyCompanion \/ GiveUp
    \/ \E t \in Tip : StartWord(t) \/ Reading(t) \/ EndWord(t)
    \/ Start \/ Reload \/ Check \/ ScheduleTidy \/ Quit

Spec == Init /\ [][Next]_vars

-----------------------------------------------------------------------------
(* Properties.                                                             *)

\* A word is typed with the settings saved before it was begun ("changes apply
\* on the next word in every app", docs/05-ux-spec.md), whenever the file is
\* replaced between the steps that look at it, unless it could not be read.
SavedBeforeTheWord ==
    \A t \in Tip : tipPc[t] = "typing" /\ wordStamp[t] = stamp /\ ~tipFailed[t] => tipConfig[t] = file

\* Once every message is handled the hotkey, the state shown in Settings and the
\* checks are those of the file, and the companion is there if the file needs
\* it, unless it could not read the file or be started, was not told, or was
\* told when it had decided to quit.
CompanionCatchesUp ==
    saving # "renamed" /\ reloads = 0 /\ companion \in {"none", "idle"} /\ ~quitting /\ ~stranded
        => \/ companion = "none" /\ ~Needed(file)
           \/ /\ companion = "idle"
              /\ timer = NextCheck(file)
              /\ CASE file.hotkey = "off"       -> registered = "none" /\ status = "off"
                   [] file.hotkey \in Unusable  -> registered = "none" /\ status = "refused"
                   [] OTHER -> \/ registered = file.hotkey /\ status = "ok"
                               \/ registered = "none" /\ status = "taken"

=============================================================================
