------------------------------ MODULE MCPrograms ------------------------------
(***************************************************************************)
(* Syntax trees for model checking.  Programs are whole files, made from   *)
(* every combination of a few parts.  SessionLines are lines of a REPL     *)
(* session that mean something different after one another.  Neither set   *)
(* has the constructs on which the two modes are known to disagree; those  *)
(* are in the small sets at the end.                                       *)
(***************************************************************************)
EXTENDS Ast, Integers, SequencesExt

Line(expr) == Expression(expr)
A == Ident("a")
P == Ident("p")
X == Ident("x")
Zero == Integer(0)
One == Integer(1)
Two == Integer(2)
Minus(l, r) == Infix(l, "MINUS", r)
IfThen(condition, value) == If(condition, <<Line(value)>>, << >>)
IfElse(condition, yes, no) == If(condition, <<Line(yes)>>, <<Line(no)>>)
Apply(name, argument) == CallOf(Ident(name), <<argument>>)

-----------------------------------------------------------------------------
(* Programs: let a = ...; let f = fn(p) { ... }; and an expression. *)

Initials == {Zero, Boolean(TRUE), Prefix("MINUS", One), IfThen(Boolean(FALSE), One)}

(* They compute, fail, branch, or return from the function around them. *)
Operands ==
  {P, A, Two,
   Infix(P, "SLASH", A), Infix(Two, "ASTERISK", P), Prefix("MINUS", P),
   Infix(P, "LT", A), Infix(P, "EQUAL", A), Prefix("BANG", P),
   IfThen(P, One), IfElse(A, P, Two),
   If(P, <<Return(Two)>>, <<Line(One)>>),
   If(A, <<Return(P)>>, <<Return(Two)>>),
   If(A, <<Let("y", Two), Line(Infix(Ident("y"), "PLUS", P))>>, << >>)}

InnerFunctions ==
  {Fn(<<"q">>, <<Line(Minus(Ident("q"), P))>>),
   Fn(<<"q">>, <<Let("z", P), Let("z", Ident("q")), Return(Minus(Ident("z"), P))>>),
   Fn(<<"q">>, <<Line(CallOf(Fn(<< >>, <<Line(Infix(P, "LT", Ident("q")))>>), << >>))>>),
   Fn(<<"q">>, << >>)}

Recursions ==
  {<<Line(IfElse(Infix(P, "GT", Zero), Apply("f", Minus(P, One)), A))>>,
   <<Line(IfElse(Infix(P, "GT", Zero),
                 Minus(One, Apply("f", Minus(P, One))), P))>>,
   <<Let("g", Fn(<< >>, <<Line(Apply("f", Minus(P, One)))>>)),
     Line(IfElse(Infix(P, "GT", A), CallOf(Ident("g"), << >>), P))>>,
   <<Let("h", Fn(<<"n">>, <<Line(IfElse(Infix(Ident("n"), "LT", P),
                                        Apply("h", Infix(Ident("n"), "PLUS", One)),
                                        Ident("n")))>>)),
     Line(Apply("h", A))>>,
   <<Line(Apply("f", P))>>}

Bodies ==
  {<<Line(e)>> : e \in Operands}
    \union {<<Line(Minus(Two, e))>> : e \in Operands}
    \union {<<Let("x", e), Return(Infix(X, "EQUAL", P))>> : e \in Operands}
    \union {<<Line(CallOf(g, <<e>>))>> : g \in InnerFunctions, e \in Operands}
    \union {<<Let("x", P), Let("g", g), Line(Apply("g", One)), Line(Apply("g", X))>> :
              g \in InnerFunctions}
    \union {<<Line(g)>> : g \in InnerFunctions}
    \union Recursions

Calls ==
  {Apply("f", A), Apply("f", Two), Apply("f", Apply("f", One)),
   CallOf(Apply("f", One), <<Two>>), CallOf(Ident("f"), << >>)}

Programs ==
  {<<Let("a", initial), Let("f", Fn(<<"p">>, body)), Line(call)>> :
     initial \in Initials, body \in Bodies, call \in Calls}

-----------------------------------------------------------------------------
SessionLines ==
  {<<Let("a", One)>>, <<Let("a", Boolean(FALSE))>>,
   <<Let("a", Prefix("MINUS", A))>>, <<Line(A)>>, <<Return(A), Line(One)>>,
   <<Let("a", One), Let("f", Fn(<<"p">>, <<Line(Minus(P, A))>>))>>,
   <<Let("a", Two),
     Let("f", Fn(<<"p">>, <<Line(IfElse(Infix(P, "GT", Zero),
                                        Apply("f", Minus(P, One)), A))>>))>>,
   <<Line(Apply("f", One)), Line(Apply("f", A))>>,
   <<Let("a", Apply("f", Two))>>,
   <<Let("a", Zero),
     Let("k", Fn(<<"x">>, <<Line(Fn(<< >>, <<Line(Minus(X, A))>>))>>))>>,
   <<Let("c", Apply("k", One)), Let("d", Apply("k", Two))>>,
   <<Line(CallOf(Ident("c"), << >>))>>,
   <<Line(Minus(CallOf(Ident("d"), << >>), CallOf(Ident("c"), << >>)))>>,
   <<Line(Minus(One, If(Boolean(TRUE), <<Return(Two)>>, << >>)))>>,
   <<Line(One), Line(Fn(<< >>, << >>))>>, << >>}

-----------------------------------------------------------------------------
(* Lines that take up what the compiler and the machine have room for: scopes,
   locals, captured variables, parameters, arguments, depth, frames. *)
LimitLines == SessionLines \union
  {<<Line(Fn(<<"x">>, <<Line(Fn(<< >>, <<Line(Fn(<< >>, <<Line(X)>>))>>))>>))>>,
   <<Line(Fn(<<"x">>, <<Let("y", X), Let("z", Ident("y")), Line(Ident("z"))>>))>>,
   <<Line(Fn(<<"x">>, <<Let("y", X),
                        Line(Fn(<< >>, <<Line(Minus(X, Ident("y")))>>))>>))>>,
   <<Line(Fn(<<"x", "y">>, << >>))>>,
   <<Line(CallOf(One, <<A, A>>))>>,
   <<Line(Prefix("BANG", Prefix("BANG", Prefix("BANG", Prefix("BANG",
       Prefix("BANG", A))))))>>,
   <<Let("r", Fn(<<"p">>, <<Line(Apply("r", P))>>)), Line(Apply("r", A))>>,
   <<Line(Minus(One, Minus(One, Minus(One, IfElse(A, A, Zero)))))>>}

-----------------------------------------------------------------------------
(* Where the modes disagree. *)

(* let f = fn() { let a = 1; let g = fn(p) { a; let a = 2; p; }; g(7); }; f(); *)
RebindsCaptured == {<<
  Let("f", Fn(<< >>, <<
    Let("a", One),
    Let("g", Fn(<<"p">>, <<Line(A), Let("a", Two), Line(P)>>)),
    Line(Apply("g", Integer(3)))>>)),
  Line(CallOf(Ident("f"), << >>))>>}

(* 1; let x = 2; *)
EndsWithLet == {<<Line(One), Let("x", Two)>>}

(* let f = fn() { g(); }; let g = fn() { 1; }; f(); *)
UsesLaterGlobal == {<<
  Let("f", Fn(<< >>, <<Line(CallOf(Ident("g"), << >>))>>)),
  Let("g", Fn(<< >>, <<Line(One)>>)),
  Line(CallOf(Ident("f"), << >>))>>}

(* let f = fn() { let x = 1; let g = fn() { x; }; let x = 2; g(); }; f(); *)
RebindsAfterCapture == {<<
  Let("f", Fn(<< >>, <<
    Let("x", One), Let("g", Fn(<< >>, <<Line(X)>>)), Let("x", Two),
    Line(CallOf(Ident("g"), << >>))>>)),
  Line(CallOf(Ident("f"), << >>))>>}

-----------------------------------------------------------------------------
(* The trees with all their parts. *)
IsStatement(tree) == tree.type \in {"LET", "RETURN", "EXPR"}
RECURSIVE PartsOf(_), PartsOfAll(_)
PartsOf(tree) ==
  {tree} \union
  CASE IsStatement(tree) -> PartsOf(tree.value)
    [] tree.type = "PREFIX" -> PartsOf(tree.right)
    [] tree.type = "INFIX" -> PartsOf(tree.left) \union PartsOf(tree.right)
    [] tree.type = "IF" -> PartsOf(tree.condition)
                             \union PartsOfAll(tree.consequence \o tree.alternative)
    [] tree.type = "FUNCTION" -> PartsOfAll(tree.body)
    [] tree.type = "CALL" -> PartsOf(tree.function) \union PartsOfAll(tree.arguments)
    [] OTHER -> {}
PartsOfAll(trees) == UNION {PartsOf(tree) : tree \in ToSet(trees)}

PartsOfLines(lines) == UNION {PartsOf(stmt) : stmt \in UNION {ToSet(l) : l \in lines}}
StmtsOf(lines) == {tree \in PartsOfLines(lines) : IsStatement(tree)}
ExprsOf(lines) == {tree \in PartsOfLines(lines) : ~IsStatement(tree)}
===============================================================================
