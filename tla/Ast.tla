---------------------------------- MODULE Ast ---------------------------------
(***************************************************************************)
(* The syntax trees of lib/ast.c, which the parser hands to both execution *)
(* modes.  Positions in the source (Token) are left out: no step depends   *)
(* on them.  An else that is missing or empty is the empty sequence: the   *)
(* parser leaves the same NULL for both.                                   *)
(***************************************************************************)
EXTENDS Sequences

Ident(name) == [type |-> "IDENT", ident |-> name]
Integer(n) == [type |-> "INT", integer |-> n]
Boolean(b) == [type |-> "BOOL", boolean |-> b]
Prefix(op, right) == [type |-> "PREFIX", op |-> op, right |-> right]
Infix(left, op, right) ==
  [type |-> "INFIX", left |-> left, op |-> op, right |-> right]
If(condition, consequence, alternative) ==
  [type |-> "IF", condition |-> condition, consequence |-> consequence,
   alternative |-> alternative]
Fn(parameters, body) ==
  [type |-> "FUNCTION", parameters |-> parameters, body |-> body]
CallOf(function, arguments) ==
  [type |-> "CALL", function |-> function, arguments |-> arguments]

Let(name, value) == [type |-> "LET", name |-> name, value |-> value]
Return(value) == [type |-> "RETURN", value |-> value]
Expression(value) == [type |-> "EXPR", value |-> value]
===============================================================================
