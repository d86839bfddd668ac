-------------------------------- MODULE Grammar --------------------------------
(***************************************************************************)
(* The syntax of Foo without a parser: which tokens spell which tree.  Not *)
(* code; the reference Parser is compared with.                            *)
(*                                                                         *)
(* Derives(e, ts, min) is a stratified grammar read as a relation: ts      *)
(* spells e where only operators that bind at least as tightly as min may  *)
(* appear outside parentheses.  Operators of one level group to the left.  *)
(* Spell is the way to write a tree with the fewest parentheses.           *)
(***************************************************************************)
EXTENDS Ast, Integers, SequencesExt, TLC

Levels == <<{"EQUAL", "NOT_EQUAL"}, {"LT", "GT"}, {"PLUS", "MINUS"},
            {"ASTERISK", "SLASH"}>>
PrefixLevel == 5
CallLevel == 6
LevelOf(op) == CHOOSE n \in 1 .. Len(Levels) : op \in Levels[n]

(* What continues an expression when it follows one: a statement without a
   semicolon ends only before something else. *)
Continues(type) == type = "LPAREN" \/ \E n \in 1 .. Len(Levels) : type \in Levels[n]

DigitOf(character) == CHOOSE d \in 0 .. 9 : ToString(d) = character
NumberOf(digits) ==
  LET place[k \in 0 .. Len(digits)] == IF k = 0 THEN 1 ELSE 10 * place[k - 1]
  IN FoldFunctionOnSet(+, 0,
       [k \in 1 .. Len(digits) |-> DigitOf(digits[k]) * place[Len(digits) - k]],
       1 .. Len(digits))

Cut(ts, from, to) == SubSeq(ts, from, to)
Types(ts) == [k \in 1 .. Len(ts) |-> ts[k].type]
StartsWith(ts, types) ==
  Len(ts) >= Len(types) /\ SubSeq(Types(ts), 1, Len(types)) = types
EndsWith(ts, type) == ts # << >> /\ Last(ts).type = type

RECURSIVE Derives(_, _, _), DerivesList(_, _), DerivesStatements(_, _)

DerivesStatement(s, ts) ==
  LET body == IF EndsWith(ts, "SEMICOLON") THEN Front(ts) ELSE ts IN
  CASE s.type = "LET" ->
         /\ StartsWith(body, <<"LET", "IDENT", "ASSIGN">>)
         /\ body[2].v = s.name
         /\ Derives(s.value, Cut(body, 4, Len(body)), 0)
    [] s.type = "RETURN" ->
         StartsWith(body, <<"RETURN">>) /\ Derives(s.value, Tail(body), 0)
    [] OTHER -> Derives(s.value, body, 0)

(* Each statement takes all it can. *)
DerivesStatements(stmts, ts) ==
  IF stmts = << >> THEN ts = << >>
  ELSE \E k \in 1 .. Len(ts) :
         /\ k < Len(ts) /\ ts[k].type # "SEMICOLON" =>
              ~Continues(ts[k + 1].type) /\ ts[k + 1].type # "SEMICOLON"
         /\ DerivesStatement(Head(stmts), Cut(ts, 1, k))
         /\ DerivesStatements(Tail(stmts), Cut(ts, k + 1, Len(ts)))

DerivesList(list, ts) ==
  IF Len(list) = 1 THEN Derives(list[1], ts, 0)
  ELSE IF list = << >> THEN ts = << >>
  ELSE \E k \in 1 .. Len(ts) :
         /\ ts[k].type = "COMMA"
         /\ Derives(Head(list), Cut(ts, 1, k - 1), 0)
         /\ DerivesList(Tail(list), Cut(ts, k + 1, Len(ts)))

(* The names between commas. *)
DerivesParameters(names, ts) ==
  /\ Len(ts) = (IF names = << >> THEN 0 ELSE 2 * Len(names) - 1)
  /\ \A k \in 1 .. Len(ts) :
       IF k % 2 = 0 THEN ts[k].type = "COMMA"
       ELSE ts[k].type = "IDENT" /\ ts[k].v = names[(k + 1) \div 2]

DerivesBlock(stmts, ts) ==
  /\ Len(ts) >= 2
  /\ StartsWith(ts, <<"LBRACE">>)
  /\ EndsWith(ts, "RBRACE")
  /\ DerivesStatements(stmts, Tail(Front(ts)))

DerivesBranches(e, ts) ==
  \/ e.alternative = << >> /\ DerivesBlock(e.consequence, ts)
  \/ \E k \in 1 .. Len(ts) :
       /\ ts[k].type = "ELSE"
       /\ DerivesBlock(e.consequence, Cut(ts, 1, k - 1))
       /\ DerivesBlock(e.alternative, Cut(ts, k + 1, Len(ts)))

Derives(e, ts, min) ==
  \/ /\ Len(ts) > 2
     /\ StartsWith(ts, <<"LPAREN">>)
     /\ EndsWith(ts, "RPAREN")
     /\ Derives(e, Tail(Front(ts)), 0)
  \/ CASE e.type = "IDENT" ->
            Types(ts) = <<"IDENT">> /\ ts[1].v = e.ident
       [] e.type = "INT" ->
            Types(ts) = <<"INT">> /\ NumberOf(ts[1].v) = e.integer
       [] e.type = "BOOL" ->
            Types(ts) = IF e.boolean THEN <<"TRUE">> ELSE <<"FALSE">>
       [] e.type = "PREFIX" ->
            /\ PrefixLevel >= min
            /\ StartsWith(ts, <<e.op>>)
            /\ Derives(e.right, Tail(ts), PrefixLevel)
       [] e.type = "INFIX" ->
            /\ LevelOf(e.op) >= min
            /\ \E k \in 1 .. Len(ts) :
                 /\ ts[k].type = e.op
                 /\ Derives(e.left, Cut(ts, 1, k - 1), LevelOf(e.op))
                 /\ Derives(e.right, Cut(ts, k + 1, Len(ts)), LevelOf(e.op) + 1)
       [] e.type = "CALL" ->
            /\ EndsWith(ts, "RPAREN")
            /\ \E k \in 1 .. Len(ts) :
                 /\ ts[k].type = "LPAREN"
                 /\ Derives(e.function, Cut(ts, 1, k - 1), CallLevel)
                 /\ DerivesList(e.arguments, Cut(ts, k + 1, Len(ts) - 1))
       [] e.type = "IF" ->
            /\ StartsWith(ts, <<"IF", "LPAREN">>)
            /\ \E k \in 3 .. Len(ts) :
                 /\ ts[k].type = "RPAREN"
                 /\ Derives(e.condition, Cut(ts, 3, k - 1), 0)
                 /\ DerivesBranches(e, Cut(ts, k + 1, Len(ts)))
       [] e.type = "FUNCTION" ->
            /\ StartsWith(ts, <<"FUNCTION", "LPAREN">>)
            /\ \E k \in 3 .. Len(ts) :
                 /\ ts[k].type = "RPAREN"
                 /\ DerivesParameters(e.parameters, Cut(ts, 3, k - 1))
                 /\ DerivesBlock(e.body, Cut(ts, k + 1, Len(ts)))

-----------------------------------------------------------------------------
(* Writing a tree.  A spelling is its tokens and the depth to which its
   expressions nest, which operators grouped to the left do not add to. *)

Tok(type) == [type |-> type, v |-> << >>]
Text(tokens) == [tokens |-> tokens, nesting |-> 0]
Deeper(s) == [s EXCEPT !.nesting = @ + 1]
Join(parts) ==
  [tokens |-> FlattenSeq([k \in 1 .. Len(parts) |-> parts[k].tokens]),
   nesting |-> Max({0} \union {parts[k].nesting : k \in 1 .. Len(parts)})]
Mark(type) == Text(<<Tok(type)>>)
Separated(parts) ==
  [k \in 1 .. 2 * Len(parts) - 1 |->
     IF k % 2 = 0 THEN Mark("COMMA") ELSE parts[(k + 1) \div 2]]
Commas(parts) == IF parts = << >> THEN Text(<< >>) ELSE Join(Separated(parts))

RECURSIVE Decimal(_), Spell(_, _), SpellStatements(_)

Decimal(n) ==
  IF n < 10 THEN <<ToString(n)>> ELSE Append(Decimal(n \div 10), ToString(n % 10))

SpellBlock(stmts) == Join(<<Mark("LBRACE"), SpellStatements(stmts), Mark("RBRACE")>>)

Bare(e) ==
  CASE e.type = "IDENT" -> Text(<<[type |-> "IDENT", v |-> e.ident]>>)
    [] e.type = "INT" -> Text(<<[type |-> "INT", v |-> Decimal(e.integer)]>>)
    [] e.type = "BOOL" -> Mark(IF e.boolean THEN "TRUE" ELSE "FALSE")
    [] e.type = "PREFIX" -> Join(<<Mark(e.op), Deeper(Spell(e.right, PrefixLevel))>>)
    [] e.type = "INFIX" ->
         Join(<<Spell(e.left, LevelOf(e.op)), Mark(e.op),
                Deeper(Spell(e.right, LevelOf(e.op) + 1))>>)
    [] e.type = "CALL" ->
         Join(<<Spell(e.function, CallLevel), Mark("LPAREN"),
                Commas([k \in 1 .. Len(e.arguments) |->
                          Deeper(Spell(e.arguments[k], 0))]), Mark("RPAREN")>>)
    [] e.type = "IF" ->
         Join(<<Mark("IF"), Mark("LPAREN"), Deeper(Spell(e.condition, 0)),
                Mark("RPAREN"), SpellBlock(e.consequence),
                IF e.alternative = << >> THEN Text(<< >>)
                ELSE Join(<<Mark("ELSE"), SpellBlock(e.alternative)>>)>>)
    [] e.type = "FUNCTION" ->
         Join(<<Mark("FUNCTION"), Mark("LPAREN"),
                Commas([k \in 1 .. Len(e.parameters) |->
                          Text(<<[type |-> "IDENT", v |-> e.parameters[k]]>>)]),
                Mark("RPAREN"), SpellBlock(e.body)>>)

Level(e) == CASE e.type = "PREFIX" -> PrefixLevel
              [] e.type = "INFIX" -> LevelOf(e.op)
              [] OTHER -> CallLevel

Spell(e, min) ==
  IF Level(e) >= min THEN Bare(e)
  ELSE Join(<<Mark("LPAREN"), Deeper(Bare(e)), Mark("RPAREN")>>)

SpellStatements(stmts) ==
  Join([k \in 1 .. Len(stmts) |->
     LET s == stmts[k]
         start == CASE s.type = "LET" ->
                         <<Tok("LET"), [type |-> "IDENT", v |-> s.name], Tok("ASSIGN")>>
                    [] s.type = "RETURN" -> <<Tok("RETURN")>>
                    [] OTHER -> << >>
     IN Join(<<Text(start), Deeper(Spell(s.value, 0)), Mark("SEMICOLON")>>)])

-----------------------------------------------------------------------------
(* The size of a tree: nodes, statements, and parameters and arguments. *)
RECURSIVE SizeOf(_), SizeOfAll(_)

Plus(a, b) == [nodes |-> a.nodes + b.nodes, statements |-> a.statements + b.statements,
               items |-> a.items + b.items]

SizeOfAll(trees) ==
  FoldLeft(LAMBDA sum, tree : Plus(sum, SizeOf(tree)),
           [nodes |-> 0, statements |-> 0, items |-> 0], trees)

SizeOf(tree) ==
  LET Node(children, items) ==
        Plus(SizeOfAll(children), [nodes |-> 1, statements |-> 0, items |-> items])
  IN CASE tree.type \in {"LET", "RETURN", "EXPR"} ->
            Plus(SizeOf(tree.value), [nodes |-> 0, statements |-> 1, items |-> 0])
       [] tree.type = "PREFIX" -> Node(<<tree.right>>, 0)
       [] tree.type = "INFIX" -> Node(<<tree.left, tree.right>>, 0)
       [] tree.type = "CALL" ->
            Node(<<tree.function>> \o tree.arguments, Len(tree.arguments))
       [] tree.type = "IF" ->
            Node(<<tree.condition>> \o tree.consequence \o tree.alternative, 0)
       [] tree.type = "FUNCTION" -> Node(tree.body, Len(tree.parameters))
       [] OTHER -> Node(<< >>, 0)
===============================================================================
