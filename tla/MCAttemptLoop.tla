--------------------------- MODULE MCAttemptLoop ----------------------------
(* Instances of AttemptLoop for TLC. *)
EXTENDS AttemptLoop
CONSTANTS claude, codex, opencode
=============================================================================
