------------------------------- MODULE MCWindow -------------------------------
(* What runs behind the client's window beside the engine: the charts, the       *)
(* settings with the detection of accounts, and the self-update.  They are parts *)
(* of one process that share no state, so a behaviour is of one of them, the     *)
(* others rest at their start, and the instance is their sum.                    *)
EXTENDS ChartView, TLC

CONSTANTS
  Account, Behind, LivePorts, PaperPorts, Multipliers, Defaults, Earlier, Mishaps,
  MaxLaunches, MaxEdits, MaxPresses, MaxDetects,
  Checks, Downloads, Newest, Chunks, Failures

VARIABLES
  part,
  alive, controls, fields, file, legacy, detecting, detected, lastAccounts, chosen,
  touched, harmed, effort,
  release, status, locker, offered, step, asset, written, newFile, exe, running, script,
  overlap

Store == INSTANCE ClientSettings
Update == INSTANCE SelfUpdate WITH holder <- locker, pc <- step

ASSUME PartsAssumption == Store!SettingsAssumption /\ Update!UpdateAssumption

\* The charts treat all symbols alike.
Symmetry == Permutations(Sym)

storeVars == <<alive, controls, fields, file, legacy, detecting, detected, lastAccounts, chosen,
               touched, harmed, effort>>
updateVars == <<release, status, locker, offered, step, asset, written, newFile, exe, running,
                script, overlap>>

MCDefaults ==
  [mode |-> "live", live |-> 4001, paper |-> 4002, account |-> "none chosen",
   multiplier |-> 100]

\* What an earlier version left.
MCEarlier == {[MCDefaults EXCEPT !.account = "B"]}

MCBehind == 4001 :> <<"A", "B">> @@ 4002 :> <<"P">>

InitWindow ==
  /\ part \in {"charts", "settings", "update"}
  /\ Init
  /\ Store!Init /\ (part # "settings" => legacy = {})
  /\ Update!Init

NextWindow ==
  /\ part' = part
  /\ \/ part = "charts" /\ Next /\ UNCHANGED <<storeVars, updateVars>>
     \/ part = "settings" /\ Store!Next /\ UNCHANGED <<vars, updateVars>>
     \/ part = "update" /\ Update!Next /\ UNCHANGED <<vars, storeVars>>

SpecWindow == InitWindow /\ [][NextWindow]_<<part, vars, storeVars, updateVars>>

\* What the operator chose and saved survives restarts, as long as no write of a file was
\* cut short or failed (persist.rs).
ChoicesSurvive == Store!ChoicesSurvive

\* What there is to be launched is one whole release, however many downloads failed, if
\* no two of them overlap (update.rs).
InstalledWhole == Update!InstalledWhole
===============================================================================
