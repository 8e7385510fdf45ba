--------------------------- MODULE ClientSettings ---------------------------
(***************************************************************************)
(* The operator's settings (pax-client/src/main.rs, persist.rs,            *)
(* appdata.rs): what stands in the window, what is in force, what is       *)
(* stored, and the detection of the accounts behind the login, while the   *)
(* process is closed, killed and launched again.                           *)
(***************************************************************************)
EXTENDS Connections

CONSTANTS
  Defaults,    \* the settings of the environment, in force until one is saved
  Earlier,     \* settings an earlier version may have left
  Mishaps,     \* what may go wrong with the files
  MaxLaunches, MaxEdits, MaxPresses, MaxDetects  \* bounds

AllMishaps == {"torn", "save", "remove"}

SettingsAssumption ==
  /\ {Defaults} \cup Earlier \subseteq Settings
  /\ Mishaps \subseteq AllMishaps
  /\ {MaxLaunches, MaxEdits, MaxPresses, MaxDetects} \subseteq Nat

VARIABLES
  alive,         \* the program runs
  controls,      \* the settings in force
  fields,        \* what stands in the window, numbers as typed
  file,          \* st.dat: the settings it loads as, or none
  legacy,        \* the same of the plain file of earlier versions
  detecting,     \* the detections on their way, each with what it captured
  detected,      \* the accounts found by the last one that ended, and its number
  lastAccounts,  \* those the window's picker holds
  \* history
  chosen,        \* what the operator last saved, field by field
  touched,       \* the fields typed into since the window opened or was saved
  harmed,        \* a mishap befell a file
  effort         \* launches, edits, presses and detections so far

stored == <<file, legacy>>
picker == <<detecting, detected, lastAccounts>>
vars == <<alive, controls, fields, stored, picker, chosen, touched, harmed, effort>>

-----------------------------------------------------------------------------
(* Settings in the window and in the file *)

Clamped(v, lo, hi) == IF v = NaN THEN v ELSE Max({lo, Min({v, hi})})

\* {:.1}: a number shows as a whole number of tenths, a tie as either neighbour.
Tenths(v) ==
  LET low == 10 * (v \div 10)
  IN  IF v = NaN THEN {NaN} ELSE {t \in {low, low + 10} : t - v \in -5..5}

\* What a window opened on the settings s may show; a number is a set, empty when
\* what is typed does not parse.
ShownAs(s) ==
  {[mode |-> s.mode, live |-> {s.live}, paper |-> {s.paper}, account |-> s.account,
    multiplier |-> {t}] : t \in Tenths(s.multiplier)}

Parsed(typed, old) == IF typed = {} THEN old ELSE CHOOSE v \in typed : TRUE

\* apply_settings: what the fields make of the settings s.
Applied(s) ==
  [mode |-> fields.mode, account |-> fields.account,
   live |-> Parsed(fields.live, s.live), paper |-> Parsed(fields.paper, s.paper),
   multiplier |-> IF fields.multiplier = {} THEN s.multiplier
                  ELSE Clamped(Parsed(fields.multiplier, 0), 10, 500)]

\* A file as it loads: a number that is none is written as null, which does not.
Written(s) == IF s.multiplier = NaN THEN {} ELSE {s}

\* persist::save ignores what goes wrong: the file is written, or left alone.
Saved(s) ==
  \/ file' = Written(s) /\ UNCHANGED harmed
  \/ "save" \in Mishaps /\ harmed' = TRUE /\ UNCHANGED file

Spend(what, bound) == effort[what] < bound /\ effort' = [effort EXCEPT ![what] = @ + 1]

\* What a process keeps in memory, before it has opened its window and after its end.
NoProcess ==
  [controls |-> Defaults, fields |-> CHOOSE f \in ShownAs(Defaults) : TRUE,
   detecting |-> {}, detected |-> [accounts |-> <<>>, by |-> 0], lastAccounts |-> <<>>,
   touched |-> {}]

Init ==
  /\ alive = FALSE /\ file = {} /\ harmed = FALSE
  /\ controls = NoProcess.controls /\ fields = NoProcess.fields
  /\ detecting = NoProcess.detecting /\ detected = NoProcess.detected
  /\ lastAccounts = NoProcess.lastAccounts /\ touched = NoProcess.touched
  /\ \/ legacy = {} /\ chosen = Defaults
     \/ chosen \in Earlier /\ legacy = {chosen}
  /\ effort = [launches |-> 0, edits |-> 0, presses |-> 0, detects |-> 0]

-----------------------------------------------------------------------------
(* The process *)

\* Mutant: the settings of the environment overlay the saved ones.
LoadIntoNothing ==
  /\ controls' = Defaults
  /\ UNCHANGED <<stored, harmed>>

\* persist::load_into: the file; else the plain file of an earlier version, which is
\* removed first and saved in the new place after.
LoadInto ==
  CASE file # {} -> controls' \in file /\ UNCHANGED <<stored, harmed>>
    [] file = {} /\ legacy # {} ->
         /\ controls' \in legacy
         /\ legacy' = {} \/ ("remove" \in Mishaps /\ UNCHANGED legacy)
         /\ Saved(CHOOSE s \in legacy : TRUE)
    [] OTHER -> controls' = Defaults /\ UNCHANGED <<stored, harmed>>

Launch ==
  /\ ~alive /\ alive' = TRUE
  /\ Spend("launches", MaxLaunches)
  /\ LoadInto
  /\ fields' \in ShownAs(controls')
  /\ UNCHANGED <<picker, chosen, touched>>

\* The process ends: closed by the operator, by another instance that starts, or by
\* an update.
End ==
  /\ alive /\ alive' = FALSE
  /\ controls' = NoProcess.controls /\ fields' = NoProcess.fields
  /\ detecting' = NoProcess.detecting /\ detected' = NoProcess.detected
  /\ lastAccounts' = NoProcess.lastAccounts /\ touched' = NoProcess.touched
  /\ UNCHANGED <<legacy, chosen>>

Killed == End /\ UNCHANGED <<file, harmed, effort>>

\* Killed while the file is written in place.
KilledSaving ==
  /\ "torn" \in Mishaps
  /\ End
  /\ Spend("presses", MaxPresses)
  /\ file' = {} /\ harmed' = TRUE

\* Killed between the removal of the plain file and the save in the new place.
KilledMigrating ==
  /\ "torn" \in Mishaps /\ ~alive /\ file = {} /\ legacy # {}
  /\ Spend("launches", MaxLaunches)
  /\ legacy' = {} /\ harmed' = TRUE
  /\ UNCHANGED <<alive, controls, fields, file, picker, chosen, touched>>

-----------------------------------------------------------------------------
(* The window *)

\* What may be typed into a field, or picked.
Entry(k) ==
  CASE k = "mode" -> Mode
    [] k = "account" -> Account \cup {NoAccount}
    [] k = "live" -> {{}} \cup {{p} : p \in LivePorts}
    [] k = "paper" -> {{}} \cup {{p} : p \in PaperPorts}
    [] k = "multiplier" -> {{}} \cup {{m} : m \in Multipliers}

Type(k, v) ==
  /\ alive /\ Spend("edits", MaxEdits)
  /\ v # fields[k]
  /\ fields' = [fields EXCEPT ![k] = v]
  /\ touched' = touched \cup {k}
  /\ UNCHANGED <<alive, controls, stored, picker, chosen, harmed>>

Choose(s) == [k \in DOMAIN s |-> IF k \in touched THEN s[k] ELSE chosen[k]]

\* Mutant: START applies the settings and does not save them.
ApplySettingsUnsaved ==
  /\ controls' = Applied(controls)
  /\ chosen' = Choose(Applied(controls)) /\ touched' = {}
  /\ UNCHANGED <<stored, harmed>>

\* SAVE SETTINGS and START.
ApplySettings ==
  /\ controls' = Applied(controls)
  /\ chosen' = Choose(Applied(controls)) /\ touched' = {}
  /\ Saved(Applied(controls)) /\ UNCHANGED legacy

Press ==
  /\ alive /\ Spend("presses", MaxPresses)
  /\ ApplySettings
  /\ UNCHANGED <<alive, fields, picker>>

-----------------------------------------------------------------------------
(* Detecting accounts *)

\* A thread of its own captures what it connects with, on launch and on demand.
Detect ==
  /\ alive /\ Spend("detects", MaxDetects)
  /\ detecting' = detecting \cup {[with |-> controls, id |-> effort'.detects]}
  /\ UNCHANGED <<alive, controls, fields, stored, detected, lastAccounts, chosen, touched,
                 harmed>>

\* list_accounts_with_fallback: the accounts, or an error, which leaves the list.
Detected(d) ==
  /\ alive
  /\ detecting' = detecting \ {d}
  /\ \/ UNCHANGED detected
     \/ \E i \in Listening(d.with) :
          detected' = [accounts |-> Behind[Candidates(d.with)[i]], by |-> d.id]
  /\ UNCHANGED <<alive, controls, fields, stored, lastAccounts, chosen, touched, harmed,
                 effort>>

\* The timer fills the picker, and an empty field when there is one account.
Pick ==
  /\ alive /\ detected.accounts # lastAccounts
  /\ lastAccounts' = detected.accounts
  /\ IF fields.account = NoAccount /\ Len(detected.accounts) = 1
       THEN /\ fields' = [fields EXCEPT !.account = Head(detected.accounts)]
            /\ touched' = touched \cup {"account"}
       ELSE UNCHANGED <<fields, touched>>
  /\ UNCHANGED <<alive, controls, stored, detecting, detected, chosen, harmed, effort>>

Next ==
  \/ Launch \/ Killed \/ KilledSaving \/ KilledMigrating
  \/ \E k \in DOMAIN fields : \E v \in Entry(k) : Type(k, v)
  \/ Press
  \/ Detect \/ (\E d \in detecting : Detected(d)) \/ Pick

Spec == Init /\ [][Next]_vars

-----------------------------------------------------------------------------
(* Properties *)

TypeOK ==
  /\ alive \in BOOLEAN /\ harmed \in BOOLEAN
  /\ controls \in Settings /\ chosen \in Settings
  /\ \A s \in file \cup legacy : s \in Settings
  /\ fields.account \in Account \cup {NoAccount} /\ touched \subseteq DOMAIN fields
  /\ \A d \in detecting : d.with \in Settings

\* persist.rs, "Persist client settings so operator choices survive restarts": while
\* the program runs, every setting in force is the one the operator last gave and
\* saved, however often it was closed since, and wherever the file was then; unless
\* a write was cut short or failed.
ChoicesSurvive == alive /\ ~harmed => controls = chosen

\* The same, whatever happens to the files.
ChoicesSurviveMishaps == alive => controls = chosen

\* The picker never goes back from the accounts of one detection to those of an
\* earlier one.
PickerNeverGoesBack == [][alive => detected'.by >= detected.by]_vars
=============================================================================
