------------------------------- MODULE Evaluator ------------------------------
(***************************************************************************)
(* lib/interpreter/evaluator.c: the tree-walking interpreter.              *)
(*                                                                         *)
(* The evaluator is a record e that every function takes and returns, with *)
(* the EvalResult of the last expression or statement in it (value and     *)
(* returned).  An environment is the number of its allocation, 1 is the    *)
(* global one, 0 is NULL.  A PANIC sets e.panic, after which nothing has   *)
(* an effect: the process has aborted.                                     *)
(***************************************************************************)
EXTENDS Int64, Ast, SequencesExt

CONSTANTS
  MaxEnvironments,  \* MAX_ENVIRONMENTS
  MaxBindings,      \* MAX_BINDINGS
  MaxEvalDepth,     \* MAX_EVAL_DEPTH
  MaxCallDepth      \* MAX_CALL_DEPTH

CapacityFaults ==
  {"environment capacity", "environment chain", "binding capacity",
   "evaluation depth", "call depth"}

NullValue == [type |-> "NULL", data |-> 0]
IntValue(n) == [type |-> "INT", data |-> n]
BoolValue(b) == [type |-> "BOOL", data |-> IF b THEN 1 ELSE 0]
FunctionValue(parameters, body, environment) ==
  [type |-> "FUNCTION", parameters |-> parameters, body |-> body,
   environment |-> environment]

NewEnvironment(outer) == [bindings |-> << >>, outer |-> outer]

EvaluatorInit ==
  [panic |-> "none", environments |-> <<NewEnvironment(0)>>, binding_count |-> 0,
   eval_depth |-> 0, call_depth |-> 0, value |-> NullValue, returned |-> FALSE]

Failed(e) == e.panic # "none"
Fail(e, why) == IF Failed(e) THEN e ELSE [e EXCEPT !.panic = why]
Check(e, why) == IF why = "none" THEN e ELSE Fail(e, why)

(* The C code passes these on without doing anything more. *)
Stopped(e) == Failed(e) \/ e.returned

Value(e, value) == [e EXCEPT !.value = value]

-----------------------------------------------------------------------------
(* Environments *)

PushEnvironment(e, outer) ==
  IF Len(e.environments) >= MaxEnvironments THEN Fail(e, "environment capacity")
  ELSE [e EXCEPT !.environments = Append(@, NewEnvironment(outer))]

(* Mutant: setting a name again counts as one more binding. *)
EnvironmentSetCounting(e, environment, name, value) ==
  IF e.binding_count >= MaxBindings THEN Fail(e, "binding capacity")
  ELSE [e EXCEPT !.environments[environment].bindings = (name :> value) @@ @,
                 !.binding_count = @ + 1]

EnvironmentSet(e, environment, name, value) ==
  LET bindings == e.environments[environment].bindings
      set == [e EXCEPT !.environments[environment].bindings =
                (name :> value) @@ @]
  IN IF name \in DOMAIN bindings THEN set
     ELSE IF e.binding_count >= MaxBindings THEN Fail(e, "binding capacity")
     ELSE [set EXCEPT !.binding_count = @ + 1]

(* depth counts the environments looked at, as the loop in the code does. *)
RECURSIVE EnvironmentGet(_, _, _, _)
EnvironmentGet(e, environment, name, depth) ==
  IF depth >= MaxEnvironments THEN Fail(e, "environment chain")
  ELSE IF environment = 0 THEN Fail(e, "identifier not found")
  ELSE LET bindings == e.environments[environment].bindings IN
       IF name \in DOMAIN bindings THEN Value(e, bindings[name])
       ELSE EnvironmentGet(e, e.environments[environment].outer, name, depth + 1)

-----------------------------------------------------------------------------
(* Operators *)

IsTruthy(v) == v.type # "NULL" /\ (v.type = "BOOL" => v.data = 1)

PrefixFault(op, right) ==
  IF op = "BANG" THEN "none"
  ELSE IF right.type # "INT" THEN "prefix operator"
  ELSE IF right.data = MinInt THEN "integer overflow" ELSE "none"

PrefixValue(op, right) ==
  IF op = "BANG" THEN BoolValue(~IsTruthy(right)) ELSE IntValue(-right.data)

Result(op, l, r) ==
  CASE op = "PLUS"     -> l + r
    [] op = "MINUS"    -> l - r
    [] op = "ASTERISK" -> l * r
    [] op = "SLASH"    -> Quotient(l, r)

IntegerInfixFault(op, l, r) ==
  IF op = "SLASH" /\ r = 0 THEN "division by zero"
  ELSE IF op \in {"PLUS", "MINUS", "ASTERISK", "SLASH"}
          /\ Result(op, l, r) \notin MinInt .. MaxInt
    THEN "integer overflow" ELSE "none"

InfixFault(op, left, right) ==
  IF left.type = "INT" /\ right.type = "INT"
    THEN IntegerInfixFault(op, left.data, right.data)
  ELSE IF left.type # right.type THEN "type mismatch"
  ELSE IF left.type \in {"BOOL", "NULL"} /\ op \in {"EQUAL", "NOT_EQUAL"}
    THEN "none" ELSE "unsupported operator"

InfixValue(op, left, right) ==
  CASE op = "EQUAL"     -> BoolValue(left.data = right.data)
    [] op = "NOT_EQUAL" -> BoolValue(left.data # right.data)
    [] op = "LT"        -> BoolValue(left.data < right.data)
    [] op = "GT"        -> BoolValue(left.data > right.data)
    [] OTHER            -> IntValue(Result(op, left.data, right.data))

-----------------------------------------------------------------------------
(* Statements and expressions *)

RECURSIVE EvalExpression(_, _, _)

EvalStatement(e, environment, stmt) ==
  LET evaluated == EvalExpression(e, environment, stmt.value) IN
  IF Stopped(evaluated) \/ stmt.type = "EXPR" THEN evaluated
  ELSE IF stmt.type = "RETURN" THEN [evaluated EXCEPT !.returned = TRUE]
  ELSE Value(EnvironmentSet(evaluated, environment, stmt.name, evaluated.value),
             NullValue)

EvalStatements(e, environment, stmts) ==
  FoldLeft(LAMBDA before, stmt : IF Stopped(before) THEN before
                                 ELSE EvalStatement(before, environment, stmt),
           Value(e, NullValue), stmts)

EvalIf(e, environment, expr) ==
  LET condition == EvalExpression(e, environment, expr.condition) IN
  IF Stopped(condition) THEN condition
  ELSE EvalStatements(condition, environment,
                      IF IsTruthy(condition.value) THEN expr.consequence
                                                   ELSE expr.alternative)

(* The arguments are bound in the new environment one by one, as they are
   evaluated in the caller's. *)
EvalArguments(e, caller, environment, parameters, arguments) ==
  FoldLeft(LAMBDA before, i :
             LET argument == EvalExpression(before, caller, arguments[i]) IN
             IF Stopped(before) THEN before
             ELSE IF Stopped(argument) THEN argument
             ELSE EnvironmentSet(argument, environment, parameters[i],
                                 argument.value),
           e, [i \in 1 .. Len(arguments) |-> i])

(* Only evaluating the callee or an argument can return from the function
   around the call; a return in the body ends here. *)
EvalCall(e, environment, expr) ==
  LET function == EvalExpression(e, environment, expr.function)
      callee == function.value
      checked == Check(function,
                       IF callee.type # "FUNCTION" THEN "not callable"
                       ELSE IF Len(callee.parameters) # Len(expr.arguments)
                         THEN "argument count" ELSE "none")
      entered == PushEnvironment(checked, callee.environment)
      bound == EvalArguments(entered, environment, Len(entered.environments),
                             callee.parameters, expr.arguments)
      body == EvalStatements([bound EXCEPT !.call_depth = @ + 1],
                             Len(entered.environments), callee.body)
  IN IF Stopped(function) THEN function
     ELSE IF Failed(checked) THEN checked
     ELSE IF Stopped(bound) THEN bound
     ELSE IF bound.call_depth >= MaxCallDepth THEN Fail(bound, "call depth")
     ELSE IF Failed(body) THEN body
     ELSE [body EXCEPT !.call_depth = @ - 1, !.returned = FALSE]

EvalPrefix(e, environment, expr) ==
  LET right == EvalExpression(e, environment, expr.right)
      fault == PrefixFault(expr.op, right.value)
  IN IF Stopped(right) THEN right
     ELSE IF fault # "none" THEN Fail(right, fault)
     ELSE Value(right, PrefixValue(expr.op, right.value))

EvalInfix(e, environment, expr) ==
  LET left == EvalExpression(e, environment, expr.left)
      right == EvalExpression(left, environment, expr.right)
      fault == InfixFault(expr.op, left.value, right.value)
  IN IF Stopped(left) THEN left
     ELSE IF Stopped(right) THEN right
     ELSE IF fault # "none" THEN Fail(right, fault)
     ELSE Value(right, InfixValue(expr.op, left.value, right.value))

EvalByType(e, environment, expr) ==
  CASE expr.type = "IDENT"  -> EnvironmentGet(e, environment, expr.ident, 0)
    [] expr.type = "INT"    -> Value(e, IntValue(expr.integer))
    [] expr.type = "BOOL"   -> Value(e, BoolValue(expr.boolean))
    [] expr.type = "PREFIX" -> EvalPrefix(e, environment, expr)
    [] expr.type = "INFIX"  -> EvalInfix(e, environment, expr)
    [] expr.type = "IF"     -> EvalIf(e, environment, expr)
    [] expr.type = "FUNCTION" ->
         Value(e, FunctionValue(expr.parameters, expr.body, environment))
    [] expr.type = "CALL"   -> EvalCall(e, environment, expr)

(* Mutant: a return leaves the expressions it passes through early. *)
EvalReturningEarly(e, environment, expr) ==
  LET inner == EvalByType([e EXCEPT !.eval_depth = @ + 1], environment, expr) IN
  IF e.eval_depth >= MaxEvalDepth THEN Fail(e, "evaluation depth")
  ELSE IF inner.returned THEN inner
  ELSE [inner EXCEPT !.eval_depth = @ - 1]

EvalExpression(e, environment, expr) ==
  LET inner == EvalByType([e EXCEPT !.eval_depth = @ + 1], environment, expr) IN
  IF e.eval_depth >= MaxEvalDepth THEN Fail(e, "evaluation depth")
  ELSE [inner EXCEPT !.eval_depth = @ - 1]

(* Mutant: a return at the top level is not taken back. *)
EvaluateStillReturned(e, stmts) == EvalStatements(e, 1, stmts)

(* evaluator_evaluate: a return at the top level ends the line with its value. *)
Evaluate(e, stmts) == [EvalStatements(e, 1, stmts) EXCEPT !.returned = FALSE]
===============================================================================
