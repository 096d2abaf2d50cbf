-------------------------- MODULE MCCommandIntake --------------------------
(* Small instances of CommandIntake for TLC.                               *)
EXTENDS CommandIntake
============================================================================
