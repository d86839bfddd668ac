--------------------------------- MODULE Lexer ---------------------------------
(***************************************************************************)
(* lib/lexer.c: from characters to tokens, one step for each turn of the   *)
(* loop of lexer_tokenize.                                                 *)
(*                                                                         *)
(* A character is a string of one; a C string is a sequence that ends with *)
(* NUL, and At(k) is its character at C's index k.  A lexeme is the        *)
(* sequence of its characters.  Only the characters a run uses are named:  *)
(* Letters and Digits stand for the ranges the code tests, Others for the  *)
(* characters it has no case for.                                          *)
(***************************************************************************)
EXTENDS Integers, Sequences

CONSTANTS
  Letters,     \* a to z and A to Z
  Digits,      \* 0 to 9
  Others,      \* illegal characters
  MaxTokens    \* MAX_TOKENS

(* Characters TLA+ has no notation for: \0, and VT for \v. *)
NUL == "NUL"
Spaces == {" ", "\t", "\r", "VT", "\f"}
SymbolCharacters ==
  {"+", "-", "*", "/", "=", "!", "<", ">", ",", ";", "(", ")", "{", "}"}
KnownCharacters == {NUL, "\n", "_"} \union Spaces \union SymbolCharacters
Characters == KnownCharacters \union Letters \union Digits \union Others

ASSUME LexerAssumption ==
  /\ Letters \intersect KnownCharacters = {}
  /\ Digits \intersect (Letters \union KnownCharacters) = {}
  /\ Others \intersect (Digits \union Letters \union KnownCharacters) = {}
  /\ MaxTokens \in Nat

VARIABLES
  input,    \* the source, which copy_lexeme writes to
  length,   \* source_length(input)
  pos,
  line,
  column,
  tokens,   \* lexer->tokens
  lexing,   \* in the loop
  panic     \* why the process aborted, or "none"

lexerVars == <<input, length, pos, line, column, tokens, lexing, panic>>

IdentifierCharacters == Letters \union {"_"} \union Digits
IsIdentifierStart(character) == character \in Letters \union {"_"}
IsIdentifierChar(character) == character \in IdentifierCharacters
IsDigit(character) == character \in Digits

At(k) == input[k + 1]
ch == At(pos)

(* TOKEN_STRINGS: the text of a symbol comes from its type. *)
TokenString ==
  [ASSIGN |-> <<"=">>, EQUAL |-> <<"=", "=">>, NOT_EQUAL |-> <<"!", "=">>,
   PLUS |-> <<"+">>, MINUS |-> <<"-">>, BANG |-> <<"!">>, ASTERISK |-> <<"*">>,
   SLASH |-> <<"/">>, LT |-> <<"<">>, GT |-> <<">">>, COMMA |-> <<",">>,
   SEMICOLON |-> <<";">>, LPAREN |-> <<"(">>, RPAREN |-> <<")">>,
   LBRACE |-> <<"{">>, RBRACE |-> <<"}">>]

TokenType ==
  DOMAIN TokenString
    \union {"END", "IDENT", "INT", "FUNCTION", "LET", "TRUE", "FALSE", "IF",
            "ELSE", "RETURN"}

KeywordLookup(lexeme) ==
  CASE lexeme = <<"f", "n">> -> "FUNCTION"
    [] lexeme = <<"l", "e", "t">> -> "LET"
    [] lexeme = <<"t", "r", "u", "e">> -> "TRUE"
    [] lexeme = <<"f", "a", "l", "s", "e">> -> "FALSE"
    [] lexeme = <<"i", "f">> -> "IF"
    [] lexeme = <<"e", "l", "s", "e">> -> "ELSE"
    [] lexeme = <<"r", "e", "t", "u", "r", "n">> -> "RETURN"
    [] OTHER -> "IDENT"

SymbolType(first) ==
  CASE first = "+" -> "PLUS"      [] first = "-" -> "MINUS"
    [] first = "*" -> "ASTERISK"  [] first = "/" -> "SLASH"
    [] first = "=" -> "ASSIGN"    [] first = "!" -> "BANG"
    [] first = "<" -> "LT"        [] first = ">" -> "GT"
    [] first = "," -> "COMMA"     [] first = ";" -> "SEMICOLON"
    [] first = "(" -> "LPAREN"    [] first = ")" -> "RPAREN"
    [] first = "{" -> "LBRACE"    [] first = "}" -> "RBRACE"

(* The characters from start up to the terminator, in a source. *)
CString(source, start) ==
  LET end == CHOOSE k \in start .. Len(source) - 1 :
               /\ source[k + 1] = NUL
               /\ \A j \in start .. k - 1 : source[j + 1] # NUL
  IN SubSeq(source, start + 1, end)

SourceLength(source) == Len(CString(source, 0))

-----------------------------------------------------------------------------
(* lexer_clear, and what lexer_tokenize does before its loop *)
Tokenize(source) ==
  /\ input' = source
  /\ length' = SourceLength(source)
  /\ pos' = 0
  /\ line' = 1
  /\ column' = 1
  /\ tokens' = << >>
  /\ lexing' = TRUE
  /\ UNCHANGED panic

Lexing(kind) == lexing /\ pos < length /\ kind

Panic(why) ==
  /\ panic' = why
  /\ lexing' = FALSE
  /\ UNCHANGED <<input, length, pos, line, column, tokens>>

(* Mutant: the capacity is off by one. *)
RoomForOneMore == Len(tokens) <= MaxTokens

Room == Len(tokens) < MaxTokens

NewToken(type, v) ==
  tokens' = Append(tokens, [type |-> type, v |-> v, line |-> line,
                            column |-> column])

(* Mutant: a line's columns go on from the line before. *)
NewlineGoingOn ==
  /\ Lexing(ch = "\n")
  /\ pos' = pos + 1
  /\ line' = line + 1
  /\ column' = column + 1
  /\ UNCHANGED <<input, length, tokens, lexing, panic>>

Newline ==
  /\ Lexing(ch = "\n")
  /\ pos' = pos + 1
  /\ line' = line + 1
  /\ column' = 1
  /\ UNCHANGED <<input, length, tokens, lexing, panic>>

Space ==
  /\ Lexing(ch \in Spaces)
  /\ pos' = pos + 1
  /\ column' = column + 1
  /\ UNCHANGED <<input, length, line, tokens, lexing, panic>>

(* == and != are one token. *)
Doubled ==
  /\ ch \in {"=", "!"}
  /\ pos + 1 < length
  /\ At(pos + 1) = "="

Symbol ==
  /\ Lexing(ch \in SymbolCharacters)
  /\ Room
  /\ LET width == IF Doubled THEN 2 ELSE 1
         type == IF ~Doubled THEN SymbolType(ch)
                 ELSE IF ch = "=" THEN "EQUAL" ELSE "NOT_EQUAL"
     IN /\ NewToken(type, TokenString[type])
        /\ pos' = pos + width
        /\ column' = column + width
  /\ UNCHANGED <<input, length, line, lexing, panic>>

(* Where the characters of one kind that start at pos end. *)
EndOf(kind) ==
  CHOOSE k \in pos .. length :
    /\ \A j \in pos .. k - 1 : At(j) \in kind
    /\ k < length => At(k) \notin kind

Terminated(end) == [input EXCEPT ![end + 1] = NUL]

(* Mutant: the terminator stays in the source. *)
RestoredNot(source, end, saved) == source

Restored(source, end, saved) == [source EXCEPT ![end + 1] = saved]

(* What is copied from pos while the source is cut at the end of the lexeme. *)
Lexeme(end) == CString(Terminated(end), pos)

(* copy_lexeme and new_token; the character is put back. *)
PushLexeme(end, type) ==
  /\ input' = Restored(Terminated(end), end, At(end))
  /\ NewToken(type, Lexeme(end))
  /\ pos' = end
  /\ column' = column + (end - pos)
  /\ UNCHANGED <<length, line, lexing, panic>>

Word ==
  /\ Lexing(IsIdentifierStart(ch))
  /\ Room
  /\ LET end == EndOf(IdentifierCharacters)
     IN PushLexeme(end, KeywordLookup(Lexeme(end)))

Number ==
  /\ Lexing(IsDigit(ch))
  /\ Room
  /\ PushLexeme(EndOf(Digits), "INT")

Known == IsIdentifierChar(ch) \/ ch \in SymbolCharacters

NoRoom ==
  /\ Lexing(Known)
  /\ ~Room
  /\ Panic("token capacity")

(* Mutant: an illegal character is passed over without moving on. *)
IllegalPassedOver ==
  /\ Lexing(~Known /\ ch \notin Spaces \union {"\n"})
  /\ UNCHANGED lexerVars

Illegal ==
  /\ Lexing(~Known /\ ch \notin Spaces \union {"\n"})
  /\ Panic("illegal character")

(* The token END is added after the loop; its text is not in the source. *)
Finish ==
  /\ lexing
  /\ pos >= length
  /\ IF Room
       THEN /\ NewToken("END", << >>)
            /\ lexing' = FALSE
            /\ UNCHANGED <<input, length, pos, line, column, panic>>
       ELSE Panic("token capacity")

LexStep ==
  Newline \/ Space \/ Symbol \/ Word \/ Number \/ NoRoom \/ Illegal \/ Finish
===============================================================================
