------------------------------- MODULE MCParsing -------------------------------
(***************************************************************************)
(* Lines for the parser: every short sequence of tokens, every longer one  *)
(* of operators and parentheses, integer literals around the largest, the  *)
(* programs and sessions the execution modes are checked on, and those     *)
(* with a token missing or cut short.                                      *)
(***************************************************************************)
EXTENDS Parsing

Programs == INSTANCE MCPrograms

Mark(type) == Reference!Tok(type)
Name == [type |-> "IDENT", v |-> "a"]
Literal(digits) == [type |-> "INT", v |-> digits]

AnyTokens ==
  {Mark(type) : type \in {"MINUS", "BANG", "ASTERISK", "LT", "EQUAL", "COMMA",
     "SEMICOLON", "LPAREN", "RPAREN", "LBRACE", "RBRACE", "ASSIGN", "FUNCTION",
     "LET", "TRUE", "IF", "ELSE", "RETURN"}} \union {Name}
Operators ==
  {Mark("MINUS"), Mark("BANG"), Mark("ASTERISK"), Mark("LPAREN"), Mark("RPAREN"),
   Name}

Over(tokens, n) == UNION {[1 .. k -> tokens] : k \in 0 .. n}
Raw(tokens) == [tokens |-> tokens, spells |-> {}]
Spelled(stmts) ==
  [tokens |-> Reference!SpellStatements(stmts).tokens, spells |-> {stmts}]

Digits == {"0", "1", "2", "3", "9"}
Literals ==
  {<<Literal(digits)>> : digits \in Over(Digits, 3) \ {<< >>}}

(* Left grouping is not nesting; a prefix or a parenthesis is. *)
Chain(n) == <<Programs!Line(FoldLeft(LAMBDA e, k : Programs!Minus(e, Programs!One),
                                     Programs!A, [k \in 1 .. n |-> k]))>>
Bangs(n) == <<Programs!Line(FoldLeft(LAMBDA e, k : Prefix("BANG", e), Programs!A,
                                     [k \in 1 .. n |-> k]))>>
Trees ==
  Programs!Programs \union Programs!LimitLines
    \union {Chain(n) : n \in {7, 12, 13}} \union {Bangs(n) : n \in 5 .. 8}
    \union {<<Programs!Line(CallOf(Fn(<<"p", "q">>, << >>),
                                   [k \in 1 .. n |-> Programs!A]))>> : n \in 0 .. 5}
    \union {[k \in 1 .. n |-> Return(Integer(k))] : n \in 7 .. 10}

Damaged ==
  LET whole == {Spelled(stmts).tokens : stmts \in Programs!LimitLines}
  IN UNION {{RemoveAt(ts, k) : k \in 1 .. Len(ts)} : ts \in whole}
       \union UNION {{SubSeq(ts, 1, k) : k \in 1 .. Len(ts)} : ts \in whole}

MCLines ==
  {Spelled(stmts) : stmts \in Trees}
    \union {Raw(ts) : ts \in Over(AnyTokens, 3) \union Over(Operators, 5)
                               \union Literals \union Damaged}

MCLaterLines ==
  {Spelled(stmts) : stmts \in {Bangs(6), Chain(12), << >>}} \union {Raw(<<Name, Name>>)}
===============================================================================
