-------------------------------- MODULE Parsing --------------------------------
(***************************************************************************)
(* One parser for the life of the process, given the tokens of one line    *)
(* after the other (parse_source in main.c).                               *)
(***************************************************************************)
EXTENDS Parser

CONSTANTS
  Lines,        \* records: the tokens of a line, and what they spell (a set of
                \* at most one statement list)
  LaterLines,   \* those of them a session goes on with
  MaxLines      \* bound on the length of a session

VARIABLES
  parser,       \* the Parser
  line,         \* the line it parsed last
  line_count

parsingVars == <<parser, line, line_count>>

ParsingInit ==
  /\ parser = ParserInit
  /\ line = [tokens |-> << >>, spells |-> {<< >>}]
  /\ line_count = 0

ParseLine ==
  /\ ~Failed(parser)
  /\ line_count < MaxLines
  /\ line' \in (IF line_count = 0 THEN Lines ELSE LaterLines)
  /\ parser' = Parse(parser, Append(line'.tokens, EndToken))
  /\ line_count' = line_count + 1

ParsingSpec == ParsingInit /\ [][ParseLine]_parsingVars

-----------------------------------------------------------------------------
Reference == INSTANCE Grammar

LiteralsFit ==
  \A k \in 1 .. Len(line.tokens) :
    line.tokens[k].type = "INT" => Reference!NumberOf(line.tokens[k].v) <= MaxInt

(* What the parser accepts, the grammar derives, with the tree the parser made:
   precedence and grouping are as the tables say, in operands, arguments,
   conditions and blocks alike, every token is part of it, and an integer is the
   number its digits spell.  A literal is refused exactly if it is too large. *)
ParsedAsWritten ==
  /\ ~Failed(parser) =>
       Reference!DerivesStatements(parser.result, line.tokens) /\ LiteralsFit
  /\ parser.panic = "integer literal is too large" => ~LiteralsFit

Fits(stmts) ==
  LET size == Reference!SizeOfAll(stmts) IN
  /\ Reference!SpellStatements(stmts).nesting <= MaxParseDepth
  /\ size.nodes <= MaxAstNodes
  /\ size.statements <= MaxStatements
  /\ size.items <= MaxListItems

(* A program written down is parsed back to itself, and is refused only for its
   size: operators grouped to the left do not count as nesting, everything else
   does, and the capacities are all for one line, whatever came before. *)
SpellingParsesBack ==
  \A stmts \in line.spells :
    IF Fits(stmts) THEN ~Failed(parser) /\ parser.result = stmts ELSE Failed(parser)

(* After a line the counts are exactly those of the tree, and the depth is zero. *)
NodesCounted ==
  ~Failed(parser) =>
    /\ [nodes |-> parser.expr_count, statements |-> parser.stmt_count,
        items |-> parser.list_item_count] = Reference!SizeOfAll(parser.result)
    /\ parser.depth = 0
===============================================================================
