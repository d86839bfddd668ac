-------------------------------- MODULE MCModes --------------------------------
(* Both modes on the programs and sessions of MCPrograms. *)
EXTENDS Modes, MCPrograms

LineExprs == ExprsOf(Lines)
LineStmts == StmtsOf(Lines)
===============================================================================
