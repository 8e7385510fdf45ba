--------------------------- MODULE MCEngineSession ---------------------------
(* Small instances of the engine's life under the operator's buttons.       *)
EXTENDS EngineSession

MCAllTrouble == AllTrouble
MCLink == {"link"}
MCAccount == {"account"}
MCLicense == {"license"}
MCNoTrouble == {}
=============================================================================
