--------------------------------- MODULE Reader --------------------------------
(***************************************************************************)
(* How source text reaches the parser (main.c): a file in one piece        *)
(* (read_file), or the REPL's standard input in pieces of at most          *)
(* LineBytes - 1 characters (fgets), each lexed by itself (parse_source).  *)
(***************************************************************************)
EXTENDS Lexer, SequencesExt

CONSTANTS
  Texts,           \* the files, and the inputs of a REPL session
  LineBytes,       \* sizeof(line)
  MaxSourceBytes   \* MAX_SOURCE_BYTES

ASSUME ReaderAssumption ==
  /\ Texts \subseteq Seq(Characters)
  /\ LineBytes \in Nat \ {0, 1}
  /\ MaxSourceBytes \in Nat

VARIABLES
  text,       \* all of the file, or of the session's input
  unread,     \* what has not been read of it
  is_file,
  handed      \* the tokens parser_parse was given, for each piece

readerVars == <<lexerVars, text, unread, is_file, handed>>

ReaderInit ==
  /\ text \in Texts
  /\ unread = text
  /\ is_file \in BOOLEAN
  /\ handed = << >>
  /\ input = <<NUL>>
  /\ length = 0
  /\ pos = 0
  /\ line = 1
  /\ column = 1
  /\ tokens = << >>
  /\ lexing = FALSE
  /\ panic = "none"

Waiting == ~lexing /\ panic = "none"

ReadFile ==
  /\ Waiting
  /\ is_file
  /\ handed = << >>
  /\ IF Len(text) > MaxSourceBytes
       THEN Panic("source capacity") /\ UNCHANGED unread
       ELSE Tokenize(Append(text, NUL)) /\ unread' = << >>
  /\ UNCHANGED <<text, is_file, handed>>

(* How many characters fgets reads. *)
Fgets ==
  CHOOSE n \in 1 .. Len(unread) :
    /\ n = LineBytes - 1 \/ n = Len(unread) \/ unread[n] = "\n"
    /\ n <= LineBytes - 1
    /\ \A k \in 1 .. n - 1 : unread[k] # "\n"

(* Mutant: the last character of a line goes, whatever it is. *)
WithoutLast(s) ==
  LET n == SourceLength(s) IN IF n > 0 THEN [s EXCEPT ![n] = NUL] ELSE s

(* The newline at the end of the string is cut off. *)
WithoutNewline(s) ==
  LET n == SourceLength(s) IN
  IF n > 0 /\ s[n] = "\n" THEN [s EXCEPT ![n] = NUL] ELSE s

ReadLine ==
  /\ Waiting
  /\ ~is_file
  /\ unread # << >>
  /\ Tokenize(WithoutNewline(Append(SubSeq(unread, 1, Fgets), NUL)))
  /\ unread' = SubSeq(unread, Fgets + 1, Len(unread))
  /\ UNCHANGED <<text, is_file, handed>>

Lex ==
  /\ LexStep
  /\ handed' = IF Finish /\ Room THEN Append(handed, tokens') ELSE handed
  /\ UNCHANGED <<text, unread, is_file>>

ReaderNext == ReadFile \/ ReadLine \/ Lex

(* The loops of lexer_tokenize and of the REPL go on while there is input. *)
ReaderSpec ==
  ReaderInit /\ [][ReaderNext]_readerVars /\ WF_readerVars(ReaderNext)

-----------------------------------------------------------------------------
TokensOf == [type : TokenType, v : Seq(Characters), line : Nat, column : Nat]

ReaderTypeOK ==
  /\ pos \in 0 .. length
  /\ length \in 0 .. Len(input) - 1
  /\ input[length + 1] = NUL
  /\ line \in Nat \ {0}
  /\ column \in Nat \ {0}
  /\ tokens \in Seq(TokensOf)
  /\ Len(tokens) <= MaxTokens

(* The line and the column of position p of a source, counted afresh. *)
NewlinesBefore(source, p) == {k \in 0 .. p - 1 : source[k + 1] = "\n"}
LineAt(source, p) == Cardinality(NewlinesBefore(source, p)) + 1
ColumnAt(source, p) == p - Max(NewlinesBefore(source, p) \union {-1})

Place(source, t) ==
  CHOOSE p \in 0 .. Len(source) :
    t.line = LineAt(source, p) /\ t.column = ColumnAt(source, p)

Blanks == Spaces \union {"\n"}

Blank(source, from, to) ==
  from <= to /\ \A k \in from .. to - 1 : source[k + 1] \in Blanks

(* The token t stands at p, and it could not be longer. *)
Stands(source, t, p) ==
  LET end == p + Len(t.v) IN
  /\ p \in 0 .. Len(source) - 1
  /\ t.line = LineAt(source, p)
  /\ t.column = ColumnAt(source, p)
  /\ t.v # << >>
  /\ t.v = SubSeq(source, p + 1, end)
  /\ t.type \in {"ASSIGN", "BANG"} => source[end + 1] # "="
  /\ t.type = "INT" => ~IsDigit(source[end + 1])
  /\ IsIdentifierStart(source[p + 1]) => ~IsIdentifierChar(source[end + 1])

(* The words are those of the source up to p, in order, with nothing but blanks
   between. *)
InPlace(source, words, p) ==
  LET StartOf(k) == IF k > Len(words) THEN p ELSE Place(source, words[k])
  IN /\ \A k \in 1 .. Len(words) :
          /\ Stands(source, words[k], StartOf(k))
          /\ Blank(source, StartOf(k) + Len(words[k].v), StartOf(k + 1))
     /\ Blank(source, 0, StartOf(1))

EndToken == [type |-> "END", v |-> << >>, line |-> line, column |-> column]

(* The tokens are those of the source, at the lines and columns it has them
   (which error messages name), one after the other, with nothing but blanks
   between and each as long as it can be: == is not two tokens, iff not a
   keyword.  END stands at the end, and nowhere else. *)
TokensInPlace ==
  /\ line = LineAt(input, pos)
  /\ column = ColumnAt(input, pos)
  /\ \/ InPlace(input, tokens, pos)
     \/ /\ ~lexing
        /\ pos = length
        /\ tokens # << >>
        /\ Last(tokens) = EndToken
        /\ InPlace(input, Front(tokens), pos)

Visible(s) ==
  FlattenSeq([k \in DOMAIN s |-> IF s[k] \in Blanks THEN << >> ELSE <<s[k]>>])
TextOf(ts) == FlattenSeq([k \in DOMAIN ts |-> ts[k].v])
TextsOf(pieces) == FlattenSeq([k \in DOMAIN pieces |-> TextOf(pieces[k])])

(* No character is lost or read twice, whatever pieces fgets makes of the input
   and wherever copy_lexeme cuts the source, as long as there is no NUL in it
   (after which the rest of a piece is ignored). *)
NothingLost ==
  NUL \notin ToSet(text) /\ panic = "none" =>
    LET pieces == IF lexing THEN Append(handed, tokens) ELSE handed
        rest == (IF lexing THEN SubSeq(input, pos + 1, length) ELSE << >>) \o unread
    IN Visible(text) = TextsOf(pieces) \o Visible(rest)

(* The lines of the text; the last one may have no newline. *)
LineStart(k) ==
  CHOOSE p \in 0 .. Len(text) : LineAt(text, p) = k /\ ColumnAt(text, p) = 1
LineEnd(p) ==
  CHOOSE e \in p .. Len(text) :
    /\ \A k \in p .. e - 1 : text[k + 1] # "\n"
    /\ e < Len(text) => text[e + 1] = "\n"
LineOf(k) == SubSeq(text, LineStart(k) + 1, LineEnd(LineStart(k)))
LineCount ==
  LET end == Len(text) IN
  IF ColumnAt(text, end) = 1 THEN LineAt(text, end) - 1 ELSE LineAt(text, end)

(* A REPL session whose lines all fit, newline included, into the buffer is
   taken line by line: the parser never sees part of a line, or two lines. *)
LinesArriveWhole ==
  ~is_file /\ NUL \notin ToSet(text)
    /\ (\A k \in 1 .. LineCount : Len(LineOf(k)) < LineBytes - 1) =>
    /\ Len(handed) <= LineCount
    /\ Waiting /\ unread = << >> => Len(handed) = LineCount
    /\ \A k \in 1 .. Len(handed) : TextOf(handed[k]) = Visible(LineOf(k))

(* All of the input is lexed in the end, unless the process aborts. *)
ReadsToTheEnd ==
  <>(panic # "none" \/ (Waiting /\ unread = << >> /\ (is_file => handed # << >>)))
===============================================================================
