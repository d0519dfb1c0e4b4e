------------------------------ MODULE MCHermes ------------------------------
(***************************************************************************)
(* Two processes over one output, with two revisions of the code.          *)
(***************************************************************************)
EXTENDS Hermes

CONSTANTS k1, k2

MCCommands == {k1, k2}

\* The processes are alike.
Alike == Permutations(MCCommands)
=============================================================================
