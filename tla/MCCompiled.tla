------------------------------- MODULE MCCompiled ------------------------------
(* The compiled mode alone, on the programs and sessions of MCPrograms. *)
EXTENDS CompiledMode, MCPrograms

LineExprs == ExprsOf(Lines)
LineStmts == StmtsOf(Lines)
===============================================================================
