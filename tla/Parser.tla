-------------------------------- MODULE Parser --------------------------------
(***************************************************************************)
(* lib/parser.c and the capacities of lib/ast.c: from tokens to syntax     *)
(* trees.                                                                  *)
(*                                                                         *)
(* The parser is a record p that every function takes and returns, with    *)
(* what the C function returns in p.result.  A PANIC sets p.panic, after   *)
(* which nothing has an effect.  parser->curr and parser->next are always  *)
(* the tokens at pos and pos + 1, or END behind the last one.              *)
(***************************************************************************)
EXTENDS Ast, Int64, SequencesExt, TLC

CONSTANTS
  MaxParseDepth,   \* MAX_PARSE_DEPTH
  MaxAstNodes,     \* MAX_AST_NODES
  MaxStatements,   \* MAX_STATEMENTS
  MaxListItems     \* MAX_LIST_ITEMS

ASSUME ParserAssumption ==
  /\ {MaxParseDepth, MaxAstNodes, MaxStatements, MaxListItems} \subseteq Nat
  /\ MaxInt \in Nat /\ MaxInt >= 9

ParserInit ==
  [panic |-> "none", tokens |-> << >>, pos |-> 0, depth |-> 0,
   expr_count |-> 0, stmt_count |-> 0, list_item_count |-> 0, result |-> << >>]

Failed(p) == p.panic # "none"
Fail(p, why) == IF Failed(p) THEN p ELSE [p EXCEPT !.panic = why]

EndToken == [type |-> "END", v |-> << >>]
TokenAt(p, k) == IF k < Len(p.tokens) THEN p.tokens[k + 1] ELSE EndToken
Curr(p) == TokenAt(p, p.pos)
Ahead(p) == TokenAt(p, p.pos + 1)

Advance(p) == [p EXCEPT !.pos = @ + 1]

ExpectNext(p, type) ==
  IF Ahead(p).type = type THEN Advance(p) ELSE Fail(p, "expected another token")

(* Mutant: * and / bind no tighter than + and -. *)
PrecedenceFlat(type) ==
  CASE type \in {"EQUAL", "NOT_EQUAL"} -> 1
    [] type \in {"LT", "GT"}           -> 2
    [] type \in {"PLUS", "MINUS", "SLASH", "ASTERISK"} -> 3
    [] type = "LPAREN"                 -> 6
    [] OTHER                           -> 0

(* PREC_LOWEST is 0, PREC_PREFIX is 5, PREC_CALL is 6. *)
TokenPrecedence(type) ==
  CASE type \in {"EQUAL", "NOT_EQUAL"} -> 1
    [] type \in {"LT", "GT"}           -> 2
    [] type \in {"PLUS", "MINUS"}      -> 3
    [] type \in {"SLASH", "ASTERISK"}  -> 4
    [] type = "LPAREN"                 -> 6
    [] OTHER                           -> 0

InfixOperators ==
  {"PLUS", "MINUS", "SLASH", "ASTERISK", "EQUAL", "NOT_EQUAL", "LT", "GT"}

Digit(character) == CHOOSE d \in 0 .. 9 : ToString(d) = character

(* parse_integer: -1 when the literal is too large *)
IntegerOf(digits) ==
  FoldLeft(LAMBDA value, character :
             IF value < 0 \/ TooLarge(value, Digit(character)) THEN -1
             ELSE value * 10 + Digit(character),
           0, digits)

-----------------------------------------------------------------------------
(* lib/ast.c *)

(* Mutant: nodes are counted for the life of the parser. *)
ClearNothing(p) == p

AstClear(p) ==
  [p EXCEPT !.expr_count = 0, !.stmt_count = 0, !.list_item_count = 0]

NewExpr(p, expr) ==
  IF Failed(p) THEN p
  ELSE IF p.expr_count >= MaxAstNodes THEN Fail(p, "expression capacity")
  ELSE [p EXCEPT !.expr_count = @ + 1, !.result = expr]

CountStatement(p) ==
  IF p.stmt_count >= MaxStatements THEN Fail(p, "statement capacity")
  ELSE [p EXCEPT !.stmt_count = @ + 1]

CountItem(p) ==
  IF p.list_item_count >= MaxListItems THEN Fail(p, "list item capacity")
  ELSE [p EXCEPT !.list_item_count = @ + 1]

-----------------------------------------------------------------------------
RECURSIVE ParseExpression(_, _), ParseOperators(_, _), ParseStatements(_, _, _),
          ParseArguments(_, _), ParseParameters(_, _)

ParseBlock(p) ==
  LET block == ParseStatements(Advance(p), << >>, {"RBRACE", "END"}) IN
  IF Curr(block).type = "END" THEN Fail(block, "expected }") ELSE block

ParseGrouped(p) ==
  ExpectNext(ParseExpression(Advance(p), 0), "RPAREN")

ParsePrefixOperator(p) ==
  LET right == ParseExpression(Advance(p), 5) IN
  NewExpr(right, Prefix(Curr(p).type, right.result))

ParseIf(p) ==
  LET condition == ParseExpression(Advance(ExpectNext(p, "LPAREN")), 0)
      consequence ==
        ParseBlock(ExpectNext(ExpectNext(condition, "RPAREN"), "LBRACE"))
      alternative ==
        IF Ahead(consequence).type = "ELSE"
          THEN ParseBlock(ExpectNext(Advance(consequence), "LBRACE"))
          ELSE [consequence EXCEPT !.result = << >>]
  IN NewExpr(alternative,
             If(condition.result, consequence.result, alternative.result))

(* The first parameter, and the others as long as a comma follows. *)
ParseParameters(p, names) ==
  IF Failed(p) THEN p
  ELSE IF Curr(p).type # "IDENT" THEN Fail(p, "expected parameter")
  ELSE LET more == Append(names, Curr(p).v) IN
       IF Ahead(p).type = "COMMA"
         THEN ParseParameters(Advance(Advance(CountItem(p))), more)
         ELSE ExpectNext([CountItem(p) EXCEPT !.result = more], "RPAREN")

ParseFunction(p) ==
  LET open == ExpectNext(p, "LPAREN")
      parameters == IF Ahead(open).type = "RPAREN"
                      THEN Advance([open EXCEPT !.result = << >>])
                      ELSE ParseParameters(Advance(open), << >>)
      body == ParseBlock(ExpectNext(parameters, "LBRACE"))
  IN NewExpr(body, Fn(parameters.result, body.result))

ParseInteger(p) ==
  LET made == NewExpr(p, Integer(IntegerOf(Curr(p).v))) IN
  IF IntegerOf(Curr(p).v) < 0 THEN Fail(made, "integer literal is too large")
                              ELSE made

ParsePrefix(p) ==
  CASE Curr(p).type = "IDENT" -> NewExpr(p, Ident(Curr(p).v))
    [] Curr(p).type = "INT" -> ParseInteger(p)
    [] Curr(p).type \in {"TRUE", "FALSE"} ->
         NewExpr(p, Boolean(Curr(p).type = "TRUE"))
    [] Curr(p).type \in {"BANG", "MINUS"} -> ParsePrefixOperator(p)
    [] Curr(p).type = "LPAREN" -> ParseGrouped(p)
    [] Curr(p).type = "IF" -> ParseIf(p)
    [] Curr(p).type = "FUNCTION" -> ParseFunction(p)
    [] OTHER -> Fail(p, "expected expression")

ParseInfix(p, left) ==
  LET op == Curr(p).type
      right == ParseExpression(Advance(p), TokenPrecedence(op))
  IN NewExpr(right, Infix(left, op, right.result))

ParseArguments(p, list) ==
  LET argument == ParseExpression(p, 0)
      more == Append(list, argument.result)
  IN IF Failed(argument) THEN argument
     ELSE IF Ahead(argument).type = "COMMA"
       THEN ParseArguments(Advance(Advance(CountItem(argument))), more)
     ELSE ExpectNext([CountItem(argument) EXCEPT !.result = more], "RPAREN")

ParseCall(p, function) ==
  LET arguments == IF Ahead(p).type = "RPAREN"
                     THEN Advance([p EXCEPT !.result = << >>])
                     ELSE ParseArguments(Advance(p), << >>)
  IN NewExpr(arguments, CallOf(function, arguments.result))

(* The loop of parse_expression; p.result is the expression so far. *)
ParseOperators(p, precedence) ==
  IF \/ Failed(p)
     \/ Ahead(p).type = "SEMICOLON"
     \/ precedence >= TokenPrecedence(Ahead(p).type)
     \/ Ahead(p).type \notin InfixOperators \union {"LPAREN"}
    THEN p
  ELSE ParseOperators(IF Ahead(p).type = "LPAREN"
                        THEN ParseCall(Advance(p), p.result)
                        ELSE ParseInfix(Advance(p), p.result),
                      precedence)

(* Mutant: the depth is not taken down again. *)
Deepening(p) == p

Leave(p) == [p EXCEPT !.depth = @ - 1]

ParseExpression(p, precedence) ==
  IF Failed(p) THEN p
  ELSE IF p.depth >= MaxParseDepth THEN Fail(p, "expression nesting")
  ELSE Leave(ParseOperators(ParsePrefix([p EXCEPT !.depth = @ + 1]), precedence))

SkipSemicolon(p) == IF Ahead(p).type = "SEMICOLON" THEN Advance(p) ELSE p

ParseLet(p) ==
  LET name == ExpectNext(p, "IDENT")
      value == ParseExpression(Advance(ExpectNext(name, "ASSIGN")), 0)
  IN [SkipSemicolon(value) EXCEPT !.result = Let(Curr(name).v, value.result)]

ParseReturn(p) ==
  LET value == ParseExpression(Advance(p), 0) IN
  [SkipSemicolon(value) EXCEPT !.result = Return(value.result)]

ParseExpressionStatement(p) ==
  LET value == ParseExpression(p, 0) IN
  [SkipSemicolon(value) EXCEPT !.result = Expression(value.result)]

ParseStatement(p) ==
  CASE Curr(p).type = "LET" -> ParseLet(p)
    [] Curr(p).type = "RETURN" -> ParseReturn(p)
    [] OTHER -> ParseExpressionStatement(p)

(* The loops of parse_block and parser_parse. *)
ParseStatements(p, stmts, ends) ==
  IF Failed(p) THEN p
  ELSE IF Curr(p).type \in ends THEN [p EXCEPT !.result = stmts]
  ELSE LET statement == ParseStatement(p) IN
       IF Failed(statement) THEN statement
       ELSE ParseStatements(Advance(CountStatement(statement)),
                            Append(stmts, statement.result), ends)

Parse(p, tokens) ==
  ParseStatements([AstClear(p) EXCEPT !.tokens = tokens, !.pos = 0, !.depth = 0],
                  << >>, {"END"})
===============================================================================
