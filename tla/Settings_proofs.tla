-------------------------- MODULE Settings_proofs --------------------------
(***************************************************************************)
(* Theorems about Settings: a word is typed with the settings saved before *)
(* it, and the companion catches up with the file, for any number of       *)
(* keyboards, saves and hotkeys.                                           *)
(***************************************************************************)
EXTENDS Settings, TLAPS

Types ==
    /\ stamp \in Nat
    /\ tipStamp \in [Tip -> Nat] /\ wordStamp \in [Tip -> Nat]
    /\ tipPc \in [Tip -> {"idle", "changed", "reading", "typing"}]
    /\ tipFailed \in [Tip -> BOOLEAN]
    /\ DOMAIN tipConfig = Tip /\ tipConfig = [t \in Tip |-> tipConfig[t]]

\* No time a keyboard holds is ahead of the file's; the text it keeps between
\* reads is the file's as long as the times agree, and a word that is typed had
\* its settings read at or after its beginning.
Fresh(t) ==
    /\ tipStamp[t] <= stamp /\ wordStamp[t] <= stamp
    /\ tipPc[t] \in {"reading", "typing"} => wordStamp[t] <= tipStamp[t]
    /\ tipPc[t] \in {"idle", "changed", "typing"} /\ tipStamp[t] = stamp /\ ~tipFailed[t] => tipConfig[t] = file

Inv == Types /\ \A t \in Tip : Fresh(t)

\* Every step keeps the invariant.
LEMMA InvStep == Inv /\ [Next]_vars => Inv'
<1> SUFFICES ASSUME Inv, [Next]_vars PROVE Inv'
  OBVIOUS
<1>1. CASE UNCHANGED <<file, stamp, tipVars>>
  BY <1>1 DEF Inv, Types, Fresh, tipVars
<1>2. CASE Rename
  BY <1>2 DEF Rename, tipVars, Inv, Types, Fresh
<1>3. ASSUME NEW t \in Tip, StartWord(t) PROVE Inv'
  <2>1. /\ UNCHANGED <<file, stamp, tipConfig, tipStamp, tipFailed>>
        /\ tipPc' = [tipPc EXCEPT ![t] = IF stamp = tipStamp[t] THEN "typing" ELSE "changed"]
        /\ wordStamp' = [wordStamp EXCEPT ![t] = stamp] /\ tipPc[t] = "idle"
    BY <1>3 DEF StartWord, fileVars
  <2> QED BY <2>1 DEF Inv, Types, Fresh
<1>4. ASSUME NEW t \in Tip, Reading(t) PROVE Inv'
  <2>1. UNCHANGED <<file, stamp, wordStamp>>
    BY <1>4 DEF Reading, fileVars
  <2>2. CASE /\ tipPc[t] = "changed" /\ tipPc' = [tipPc EXCEPT ![t] = "reading"]
             /\ tipStamp' = [tipStamp EXCEPT ![t] = stamp] /\ UNCHANGED <<tipConfig, tipFailed>>
    BY <2>1, <2>2 DEF Inv, Types, Fresh
  <2>3. ASSUME NEW failed \in BOOLEAN, tipPc[t] = "reading", tipPc' = [tipPc EXCEPT ![t] = "typing"],
               tipFailed' = [tipFailed EXCEPT ![t] = failed],
               tipConfig' = [tipConfig EXCEPT ![t] = IF failed THEN Defaults ELSE file], tipStamp' = tipStamp
        PROVE  Inv'
    BY <2>1, <2>3 DEF Inv, Types, Fresh
  <2> QED BY <1>4, <2>2, <2>3 DEF Reading, LoadConfig
<1>5. ASSUME NEW t \in Tip, EndWord(t) PROVE Inv'
  <2>1. /\ UNCHANGED <<file, stamp, tipConfig, tipStamp, wordStamp, tipFailed>>
        /\ tipPc' = [tipPc EXCEPT ![t] = "idle"] /\ tipPc[t] = "typing"
    BY <1>5 DEF EndWord, fileVars
  <2> QED BY <2>1 DEF Inv, Types, Fresh
<1>6. CASE SaveSettings \/ ImportSettings
  BY <1>1, <1>6 DEF SaveSettings, ImportSettings, WriteTmp
<1>7. CASE NotifyCompanion \/ GiveUp
  BY <1>1, <1>7 DEF NotifyCompanion, GiveUp
<1>8. CASE Start \/ Reload \/ Check
  BY <1>1, <1>8 DEF Start, Reload, Check, fileVars
<1>9. CASE ScheduleTidy \/ Quit \/ UNCHANGED vars
  BY <1>1, <1>9 DEF ScheduleTidy, Quit, vars, fileVars
<1> QED BY <1>2, <1>3, <1>4, <1>5, <1>6, <1>7, <1>8, <1>9 DEF Next

\* A word is typed with the settings saved before it was begun, for any number of
\* keyboards and saves, whichever steps of a save fall between those of a read
\* (push_char, load_config): no keyboard keeps a text under a later text's time.
THEOREM SettingsApplyToTheNextWord == Spec => []SavedBeforeTheWord
<1>1. Init => Inv
  BY DEF Init, Inv, Types, Fresh
<1>2. Inv => SavedBeforeTheWord
  BY DEF Inv, Types, Fresh, SavedBeforeTheWord
<1> QED BY <1>1, <1>2, InvStep, PTL DEF Spec

-----------------------------------------------------------------------------
(* The companion.                                                          *)

\* No hotkey is two things at once.
Hotkeys ==
    /\ DefaultHotkey \in Hotkey /\ Hotkey \intersect Unusable = {}
    /\ "off" \notin Hotkey \union Unusable
    /\ SignInChecks \in Nat

\* What the companion registered is what the configuration c says.
Follows(c) ==
    CASE c.hotkey = "off"       -> registered = "none" /\ status = "off"
      [] c.hotkey \in Unusable  -> registered = "none" /\ status = "refused"
      [] OTHER -> \/ registered = c.hotkey /\ status = "ok"
                  \/ registered = "none" /\ status = "taken"

CompanionTypes ==
    /\ file \in Config /\ tmp \in Config
    /\ saving \in {"idle", "written", "renamed"}
    /\ companion \in {"none", "start", "idle", "schedule"}
    /\ reloads \in Nat /\ checks \in Nat
    /\ quitting \in BOOLEAN /\ timer \in BOOLEAN /\ stranded \in BOOLEAN

\* Unless it is stranded or has a message to come, the companion follows the
\* file from the moment it reads it, and has decided to quit only where the file
\* does not need it.
CompanionInv ==
    /\ CompanionTypes
    /\ saving = "renamed" => file = tmp
    /\ companion \in {"none", "start"} => ~quitting
    /\ companion = "none" => reloads = 0
    /\ ~stranded /\ saving # "renamed" =>
          /\ companion = "none" => ~Needed(file)
          /\ companion \in {"idle", "schedule"} /\ reloads = 0 => Follows(file)
          /\ companion = "idle" /\ reloads = 0 => timer = NextCheck(file)
          /\ quitting => ~NextCheck(file) /\ file.hotkey = "off"

\* Registering follows the configuration that was read, for the rest of what the
\* configuration says.
LEMMA RegisterFollows ==
    ASSUME Hotkeys, NEW c \in Config, Register(c), file' = c
    PROVE  Follows(file)'
BY DEF Register, Hotkeys, Config, Follows

\* The steps of the Settings app keep the invariant.
LEMMA SavingKeeps ==
    ASSUME CompanionInv,
           SaveSettings \/ ImportSettings \/ Rename \/ NotifyCompanion \/ GiveUp, Defaults \in Config
    PROVE  CompanionInv'
<1> USE DEF CompanionInv, CompanionTypes
<1>1. ASSUME NEW c \in Config, WriteTmp(c) PROVE CompanionInv'
  BY <1>1 DEF WriteTmp, companionVars, Follows, NextCheck
<1>2. CASE Rename
  BY <1>2 DEF Rename, companionVars
<1>3. CASE NotifyCompanion
  <2>1. /\ saving = "renamed" /\ saving' = "idle" /\ tmp' = Defaults
        /\ UNCHANGED <<file, quitting, registered, status, timer, checks>>
    BY <1>3 DEF NotifyCompanion
  <2>2. CASE companion # "none"
    BY <1>3, <2>1, <2>2 DEF NotifyCompanion
  <2>3. CASE companion = "none"
    <3>1. reloads' = reloads /\ reloads = 0 /\ ~quitting /\ file = tmp
      BY <1>3, <2>1, <2>3 DEF NotifyCompanion
    <3>2. \/ Needed(tmp) /\ companion' = "start" /\ stranded' = FALSE
          \/ ~Needed(tmp) /\ companion' = "none" /\ stranded' = FALSE
          \/ companion' = "none" /\ stranded' = TRUE
      BY <1>3, <2>3 DEF NotifyCompanion
    <3>3. Needed(tmp) = Needed(file)'
      BY <2>1, <3>1 DEF Needed
    <3> QED BY <2>1, <3>1, <3>2, <3>3
  <2> QED BY <2>2, <2>3
<1>4. CASE GiveUp
  BY <1>4 DEF GiveUp, companionVars, Follows, NextCheck
<1> QED BY <1>1, <1>2, <1>3, <1>4 DEF SaveSettings, ImportSettings

\* A reading that is not the file's text strands the companion.
LEMMA ReadsStrand ==
    ASSUME CompanionTypes, Defaults \in Config, NEW c \in Read, Misread(c)
    PROVE  c \in Config /\ stranded' \in BOOLEAN /\ (~stranded' => ~stranded /\ c = file)
BY DEF CompanionTypes, Read, Misread

\* Every step keeps the invariant.
LEMMA CompanionStep ==
    ASSUME Hotkeys
    PROVE  CompanionInv /\ [Next]_vars => CompanionInv'
<1> SUFFICES ASSUME CompanionInv, [Next]_vars PROVE CompanionInv'
  OBVIOUS
<1>d. Defaults \in Config
  BY DEF Hotkeys, Defaults, Config
<1>t. CompanionTypes
  BY DEF CompanionInv
<1>1. CASE SaveSettings \/ ImportSettings \/ Rename \/ NotifyCompanion \/ GiveUp
  BY <1>1, <1>d, SavingKeeps
<1>2. CASE UNCHANGED <<file, saving, tmp, companionVars, stranded>>
  BY <1>2 DEF CompanionInv, CompanionTypes, companionVars, Follows, NextCheck
<1>3. ASSUME NEW t \in Tip, StartWord(t) \/ Reading(t) \/ EndWord(t) PROVE CompanionInv'
  BY <1>2, <1>3 DEF StartWord, Reading, EndWord, fileVars
<1>4. CASE Start \/ Reload
  <2>1. PICK c \in Read : Register(c) /\ Misread(c)
    BY <1>4 DEF Start, Reload
  <2>2. c \in Config /\ stranded' \in BOOLEAN /\ (~stranded' => ~stranded /\ c = file)
    BY <1>t, <1>d, <2>1, ReadsStrand
  <2>3. /\ UNCHANGED <<file, saving, tmp, quitting, timer>> /\ companion' = "schedule"
        /\ reloads' \in Nat /\ checks' \in Nat
        /\ checks' = checks \/ ~quitting
    BY <1>4 DEF Start, Reload, fileVars, CompanionInv, CompanionTypes
  <2>4. ~stranded' => Follows(file)'
    BY <2>1, <2>2, <2>3, RegisterFollows
  <2> QED BY <2>2, <2>3, <2>4 DEF CompanionInv, CompanionTypes, NextCheck
<1>5. CASE Check
  <2>1. /\ UNCHANGED <<file, saving, tmp, reloads, quitting, registered, status, timer, stranded>>
        /\ companion = "idle" /\ companion' = "schedule"
        /\ checks' = (IF checks <= SignInChecks THEN checks + 1 ELSE checks)
    BY <1>5 DEF Check, fileVars
  <2> QED BY <2>1 DEF CompanionInv, CompanionTypes, NextCheck, Follows, Hotkeys
<1>6. CASE ScheduleTidy
  <2>1. PICK c \in Read : /\ timer' = NextCheck(c) /\ Misread(c)
                          /\ quitting' = (quitting \/ (~NextCheck(c) /\ c.hotkey = "off"))
    BY <1>6 DEF ScheduleTidy
  <2>2. c \in Config /\ stranded' \in BOOLEAN /\ (~stranded' => ~stranded /\ c = file)
    BY <1>t, <1>d, <2>1, ReadsStrand
  <2>3. /\ UNCHANGED <<file, saving, tmp, reloads, registered, status, checks>>
        /\ companion = "schedule" /\ companion' = "idle"
    BY <1>6 DEF ScheduleTidy, fileVars
  <2>4. timer' \in BOOLEAN /\ quitting' \in BOOLEAN
    BY <2>1, <2>2 DEF NextCheck, Config
  <2> QED BY <2>1, <2>2, <2>3, <2>4 DEF CompanionInv, CompanionTypes, NextCheck, Follows
<1>7. CASE Quit
  <2>1. /\ UNCHANGED <<file, saving, tmp, reloads, stranded>> /\ reloads = 0 /\ quitting
        /\ companion' = "none" /\ quitting' = FALSE /\ timer' = FALSE /\ checks' = 0
    BY <1>7 DEF Quit, fileVars
  <2> QED BY <2>1 DEF CompanionInv, CompanionTypes, NextCheck, Needed
<1>8. CASE UNCHANGED vars
  BY <1>2, <1>8 DEF vars, fileVars
<1> QED BY <1>1, <1>3, <1>4, <1>5, <1>6, <1>7, <1>8 DEF Next

\* Once its messages are handled the companion has the hotkey, the state and the
\* checks of the file, or is gone where the file does not need it, for any number
\* of saves and any hotkeys (notify_companion, run_companion, schedule_tidy).
THEOREM CompanionFollowsTheFile ==
    ASSUME Hotkeys
    PROVE  Spec => []CompanionCatchesUp
<1>1. Init => CompanionInv
  <2> SUFFICES ASSUME Init PROVE CompanionInv
    OBVIOUS
  <2>1. Defaults \in Config
    BY DEF Hotkeys, Defaults, Config
  <2>2. /\ file = Defaults /\ tmp = Defaults /\ saving = "idle" /\ companion = "start"
        /\ reloads = 0 /\ checks = 0 /\ quitting = FALSE /\ timer = FALSE /\ stranded = FALSE
    BY DEF Init
  <2> QED BY <2>1, <2>2 DEF CompanionInv, CompanionTypes
<1>2. CompanionInv => CompanionCatchesUp
  BY DEF CompanionInv, CompanionTypes, CompanionCatchesUp, Follows
<1> QED BY <1>1, <1>2, CompanionStep, PTL DEF Spec
=============================================================================
