------------------------- MODULE MCInputEvaluation -------------------------
(* Small instances of InputEvaluation for TLC. *)
EXTENDS InputEvaluation

MCTexts == {"add x", "add", "edit last"}
MCBad == {"add"}
MCFatal == {"edit last"}
=============================================================================
