---------------------------- MODULE MCCommands ----------------------------
(* Instances of Commands. *)
EXTENDS Commands, TLC

\* Opcodes are interchangeable; so are keys, and processes, whose keys Init chooses.
CommandSymmetry == Permutations(Cmds) \cup Permutations(Procs) \cup Permutations(Keys)
=============================================================================
