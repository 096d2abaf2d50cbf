-------------------------- MODULE MCParkedCommands --------------------------
(* ParkedCommands on small instances. *)
EXTENDS ParkedCommands, TLC

JobSymmetry == Permutations(Jobs)
=============================================================================
