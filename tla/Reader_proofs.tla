----------------------------- MODULE Reader_proofs -----------------------------
(***************************************************************************)
(* Theorems about the reader, for any texts, any size of the line buffer   *)
(* and any capacities: its tokens are those of the source, where the       *)
(* source has them; what the parser is given, piece by piece, is the text  *)
(* without its blanks, and a session whose lines fit is given line by      *)
(* line.                                                                   *)
(***************************************************************************)
EXTENDS Reader, SequenceTheorems, FiniteSetTheorems, WellFoundedInduction, TLAPS

-----------------------------------------------------------------------------
(* A set of natural numbers has a least element. *)
LEMMA Least ==
  ASSUME NEW T \in SUBSET Nat, T # {}
  PROVE  \E n \in T : \A m \in T : n <= m
<1>1. PICK n \in T : \A m \in T : ~ (<<m, n>> \in OpToRel(<, Nat))
  BY WFMin, NatLessThanWellFounded, Zenon
<1>2. \A m \in T : ~ (m < n)
  BY <1>1 DEF OpToRel
<1> QED
  BY <1>2

(* A set of integers with an upper bound has a greatest element. *)
LEMMA Greatest ==
  ASSUME NEW T \in SUBSET Int, T # {}, NEW b \in Int, \A x \in T : x <= b
  PROVE  \E n \in T : \A m \in T : n >= m
<1> DEFINE D == {b - x : x \in T}
<1>1. D \in SUBSET Nat /\ D # {}
  OBVIOUS
<1>2. PICK d \in D : \A e \in D : d <= e
  BY <1>1, Least, Zenon
<1>3. PICK n \in T : d = b - n
  OBVIOUS
<1>4. ASSUME NEW m \in T PROVE n >= m
  <2>1. b - m \in D
    OBVIOUS
  <2> HIDE DEF D
  <2>2. d <= b - m
    BY <1>2, <2>1
  <2> QED
    BY <1>3, <2>2
<1> QED
  BY <1>4

-----------------------------------------------------------------------------
(* Strings with a terminator *)

(* The C string that starts at start ends at end. *)
Ends(source, start, end) ==
  /\ end \in start .. Len(source) - 1
  /\ source[end + 1] = NUL
  /\ \A k \in start .. end - 1 : source[k + 1] # NUL

(* NUL is a character. *)
LEMMA NulIsCharacter == NUL \in Characters
BY DEF NUL, Characters, KnownCharacters

(* A sequence with a NUL from start on holds a C string there. *)
LEMMA StringEnds ==
  ASSUME NEW source \in Seq(Characters), NEW start \in Nat,
         NEW n \in start .. Len(source) - 1, source[n + 1] = NUL
  PROVE  \E end \in start .. n : Ends(source, start, end)
<1> DEFINE T == {k \in start .. n : source[k + 1] = NUL}
<1>1. T \in SUBSET Nat /\ n \in T
  OBVIOUS
<1>2. PICK end \in T : \A k \in T : end <= k
  BY <1>1, Least, Zenon
<1>3. end \in start .. n /\ source[end + 1] = NUL
  OBVIOUS
<1>4. ASSUME NEW k \in start .. end - 1 PROVE source[k + 1] # NUL
  <2>1. k \in T <=> source[k + 1] = NUL
    BY <1>3
  <2> HIDE DEF T
  <2> QED
    BY <1>2, <1>3, <2>1
<1> QED
  BY <1>3, <1>4 DEF Ends

(* Its characters are those up to the end. *)
LEMMA CStringIs ==
  ASSUME NEW source \in Seq(Characters), NEW start \in Nat, NEW end,
         Ends(source, start, end)
  PROVE  CString(source, start) = SubSeq(source, start + 1, end)
<1> DEFINE IsEnd(k) == /\ source[k + 1] = NUL
                       /\ \A j \in start .. k - 1 : source[j + 1] # NUL
<1>1. end \in start .. Len(source) - 1 /\ IsEnd(end)
  BY DEF Ends
<1>2. ASSUME NEW k \in start .. Len(source) - 1, IsEnd(k) PROVE k = end
  <2>1. ~ (k < end)
    BY <1>1, <1>2
  <2>2. ~ (end < k)
    BY <1>1, <1>2
  <2> QED
    BY <1>1, <2>1, <2>2
<1> HIDE DEF IsEnd
<1>3. (CHOOSE k \in start .. Len(source) - 1 : IsEnd(k)) = end
  BY <1>1, <1>2, Zenon
<1> QED
  BY <1>3, Zenon DEF CString, IsEnd

(* source_length finds the first NUL. *)
LEMMA SourceLengthIs ==
  ASSUME NEW source \in Seq(Characters), NEW end, Ends(source, 0, end)
  PROVE  SourceLength(source) = end
<1>1. end \in 0 .. Len(source) - 1
  BY DEF Ends
<1>2. SourceLength(source) = Len(SubSeq(source, 0 + 1, end))
  BY CStringIs, Zenon DEF SourceLength
<1>3. \A k \in 1 .. end : source[k] \in Characters
  BY <1>1
<1>4. Len(SubSeq(source, 1, end)) = IF 1 <= end THEN end - 1 + 1 ELSE 0
  BY <1>1, <1>3, SubSeqProperties
<1> QED
  BY <1>1, <1>2, <1>4

(* The strengthening of ReaderTypeOK: what the text and the source are made of,
   and that the source is a C string. *)
SourceOK ==
  /\ text \in Seq(Characters)
  /\ unread \in Seq(Characters)
  /\ input \in Seq(Characters)
  /\ Ends(input, 0, length)

ReaderInv == ReaderTypeOK /\ SourceOK

(* Tokenize measures any source that ends with a NUL. *)
LEMMA TokenizeMeasures ==
  ASSUME NEW source \in Seq(Characters), source # << >>, source[Len(source)] = NUL,
         Tokenize(source)
  PROVE  input' = source /\ Ends(source, 0, length')
<1>1. Len(source) - 1 \in 0 .. Len(source) - 1 /\ Len(source) - 1 + 1 = Len(source)
  OBVIOUS
<1>2. PICK end \in 0 .. Len(source) - 1 : Ends(source, 0, end)
  BY <1>1, StringEnds
<1>3. length' = end
  BY <1>2, SourceLengthIs, Zenon DEF Tokenize
<1> QED
  BY <1>2, <1>3, Zenon DEF Tokenize

-----------------------------------------------------------------------------
(* Searches *)

(* Where the characters of one kind end. *)
EndsRun(kind, end) ==
  /\ end \in pos .. length
  /\ \A k \in pos .. end - 1 : At(k) \in kind
  /\ end < length => At(end) \notin kind

(* EndOf finds an end. *)
LEMMA EndOfIs ==
  ASSUME ReaderInv, NEW kind
  PROVE  EndsRun(kind, EndOf(kind))
<1> DEFINE T == {k \in pos .. length : k < length => At(k) \notin kind}
<1>1. pos \in Nat /\ length \in Nat /\ pos <= length
  BY DEF ReaderInv, ReaderTypeOK
<1>2. T \in SUBSET Nat /\ length \in T
  BY <1>1
<1>3. PICK end \in T : \A k \in T : end <= k
  BY <1>2, Least, Zenon
<1>4. end \in pos .. length /\ (end < length => At(end) \notin kind)
  OBVIOUS
<1>5. ASSUME NEW k \in pos .. end - 1 PROVE At(k) \in kind
  <2>1. k \in pos .. length /\ k < length /\ ~ (end <= k)
    BY <1>1, <1>4
  <2>2. k \notin T
    BY <1>3, <2>1, Zenon
  <2> QED
    BY <2>1, <2>2
<1>6. EndsRun(kind, end)
  BY <1>4, <1>5 DEF EndsRun
<1> QED
  BY <1>6, Zenon DEF EndsRun, EndOf

(* How much fgets may read. *)
EndsLine(n) ==
  /\ n \in 1 .. Len(unread)
  /\ n = LineBytes - 1 \/ n = Len(unread) \/ unread[n] = "\n"
  /\ n <= LineBytes - 1
  /\ \A k \in 1 .. n - 1 : unread[k] # "\n"

(* fgets reads that much. *)
LEMMA FgetsIs ==
  ASSUME unread \in Seq(Characters), unread # << >>
  PROVE  EndsLine(Fgets)
<1> DEFINE Stop(n) == n = LineBytes - 1 \/ n = Len(unread) \/ unread[n] = "\n"
           T == {n \in 1 .. Len(unread) : Stop(n)}
<1>1. Len(unread) \in 1 .. Len(unread) /\ LineBytes - 1 \in Nat \ {0}
  BY ReaderAssumption
<1>2. T \in SUBSET Nat /\ Len(unread) \in T
  BY <1>1
<1>3. PICK n \in T : \A m \in T : n <= m
  BY <1>2, Least, Zenon
<1>4. n \in 1 .. Len(unread) /\ Stop(n)
  OBVIOUS
<1>5. n <= LineBytes - 1
  <2>1. CASE LineBytes - 1 <= Len(unread)
    <3>1. LineBytes - 1 \in 1 .. Len(unread)
      BY <1>1, <2>1, ReaderAssumption
    <3>2. LineBytes - 1 \in T
      BY <3>1, Zenon
    <3> QED
      BY <1>3, <3>2, Zenon
  <2>2. CASE Len(unread) < LineBytes - 1
    BY <1>1, <1>4, <2>2
  <2> QED
    BY <1>1, <2>1, <2>2
<1>6. ASSUME NEW k \in 1 .. n - 1 PROVE unread[k] # "\n"
  <2>1. k \in 1 .. Len(unread) /\ ~ (n <= k)
    BY <1>4
  <2>2. k \notin T
    BY <1>3, <2>1, Zenon
  <2> QED
    BY <2>1, <2>2
<1>7. EndsLine(n)
  BY <1>4, <1>5, <1>6 DEF EndsLine
<1> QED
  BY <1>7, Zenon DEF EndsLine, Fgets

-----------------------------------------------------------------------------
(* Lexemes *)

(* What replacing one character does. *)
LEMMA CharacterReplaced ==
  ASSUME NEW s \in Seq(Characters), NEW i \in 1 .. Len(s), NEW c \in Characters,
         NEW t, t = [s EXCEPT ![i] = c]
  PROVE  /\ t \in Seq(Characters)
         /\ Len(t) = Len(s)
         /\ \A k \in 1 .. Len(s) : t[k] = IF k = i THEN c ELSE s[k]
<1>1. t \in Seq(Characters) /\ Len(t) = Len(s)
  OBVIOUS
<1>2. ASSUME NEW k \in 1 .. Len(s)
      PROVE  t[k] = IF k = i THEN c ELSE s[k]
  <2>1. k \in DOMAIN s
    OBVIOUS
  <2> QED
    BY <2>1
<1> QED
  BY <1>1, <1>2

(* Putting a character back undoes the terminator. *)
LEMMA RestoredIs ==
  ASSUME ReaderInv, NEW end \in 0 .. length
  PROVE  Restored(Terminated(end), end, At(end)) = input
<1>1. input \in Seq(Characters) /\ end + 1 \in 1 .. Len(input)
  BY DEF ReaderInv, ReaderTypeOK, SourceOK
<1>2. NUL \in Characters /\ input[end + 1] \in Characters
  <2>1. NUL \in Characters
    BY NulIsCharacter
  <2> QED
    BY <1>1, <2>1, ElementOfSeq
<1> DEFINE cut == [input EXCEPT ![end + 1] = NUL]
           back == [cut EXCEPT ![end + 1] = input[end + 1]]
<1>c. cut = [input EXCEPT ![end + 1] = NUL]
  OBVIOUS
<1>b. back = [cut EXCEPT ![end + 1] = input[end + 1]]
  OBVIOUS
<1> HIDE DEF cut, back
<1>3. /\ cut \in Seq(Characters)
      /\ Len(cut) = Len(input)
      /\ \A k \in 1 .. Len(input) : cut[k] = IF k = end + 1 THEN NUL ELSE input[k]
  BY <1>1, <1>2, <1>c, CharacterReplaced
<1>4. /\ back \in Seq(Characters)
      /\ Len(back) = Len(cut)
      /\ \A k \in 1 .. Len(cut) :
           back[k] = IF k = end + 1 THEN input[end + 1] ELSE cut[k]
  BY <1>1, <1>2, <1>3, <1>b, CharacterReplaced
<1>5. \A k \in 1 .. Len(input) : back[k] = input[k]
  BY <1>3, <1>4
<1>6. back = input
  BY <1>1, <1>3, <1>4, <1>5, SeqEqual
<1> QED
  BY <1>6, Zenon DEF Restored, Terminated, At, back, cut

(* What is copied is what the source has there, also at its very end. *)
LEMMA LexemeIs ==
  ASSUME ReaderInv, NEW end \in pos .. length
  PROVE  Lexeme(end) = SubSeq(input, pos + 1, end)
<1>1. /\ input \in Seq(Characters) /\ pos \in Nat /\ end \in Nat /\ pos <= end
      /\ end + 1 \in 1 .. Len(input) /\ length \in Nat /\ end <= length
  BY DEF ReaderInv, ReaderTypeOK, SourceOK
<1>2. NUL \in Characters /\ \A k \in 0 .. length - 1 : input[k + 1] # NUL
  BY NulIsCharacter DEF ReaderInv, SourceOK, Ends
<1> DEFINE cut == [input EXCEPT ![end + 1] = NUL]
<1>c. cut = [input EXCEPT ![end + 1] = NUL]
  OBVIOUS
<1> HIDE DEF cut
<1>3. /\ cut \in Seq(Characters)
      /\ Len(cut) = Len(input)
      /\ \A k \in 1 .. Len(input) : cut[k] = IF k = end + 1 THEN NUL ELSE input[k]
  BY <1>1, <1>2, <1>c, CharacterReplaced
<1>4. Ends(cut, pos, end)
  <2>1. end \in pos .. Len(cut) - 1 /\ cut[end + 1] = NUL
    BY <1>1, <1>3
  <2>2. ASSUME NEW k \in pos .. end - 1 PROVE cut[k + 1] # NUL
    <3>1. k + 1 \in 1 .. Len(input) /\ k + 1 # end + 1 /\ k \in 0 .. length - 1
      BY <1>1
    <3> QED
      BY <1>2, <1>3, <3>1
  <2> QED
    BY <2>1, <2>2 DEF Ends
<1>5. CString(cut, pos) = SubSeq(cut, pos + 1, end)
  BY <1>1, <1>3, <1>4, CStringIs
<1>6. SubSeq(cut, pos + 1, end) = SubSeq(input, pos + 1, end)
  <2>1. pos + 1 \in Int /\ end \in Int
    BY <1>1
  <2>2. \A k \in pos + 1 .. end : cut[k] \in Characters /\ input[k] \in Characters
    BY <1>1, <1>3
  <2>3. /\ SubSeq(cut, pos + 1, end) \in Seq(Characters)
        /\ Len(SubSeq(cut, pos + 1, end)) = IF pos + 1 <= end THEN end - (pos + 1) + 1 ELSE 0
        /\ \A k \in 1 .. end - (pos + 1) + 1 :
             SubSeq(cut, pos + 1, end)[k] = cut[pos + 1 + k - 1]
    BY <2>1, <2>2, SubSeqProperties
  <2>4. /\ SubSeq(input, pos + 1, end) \in Seq(Characters)
        /\ Len(SubSeq(input, pos + 1, end)) = IF pos + 1 <= end THEN end - (pos + 1) + 1 ELSE 0
        /\ \A k \in 1 .. end - (pos + 1) + 1 :
             SubSeq(input, pos + 1, end)[k] = input[pos + 1 + k - 1]
    BY <2>1, <2>2, SubSeqProperties
  <2> QED
    BY <1>1, <1>3, <2>3, <2>4, SeqEqual
<1> QED
  BY <1>5, <1>6, Zenon DEF Lexeme, Terminated, cut

-----------------------------------------------------------------------------
(* What a turn of the lexer's loop may do *)

(* Symbols are spelled as the source spells them. *)
LEMMA SymbolsSpelled ==
  ASSUME NEW c \in SymbolCharacters
  PROVE  /\ SymbolType(c) \in TokenType
         /\ SymbolType(c) # "INT"
         /\ SymbolType(c) \in {"ASSIGN", "BANG"} => c \in {"=", "!"}
         /\ TokenString[SymbolType(c)] = <<c>>
<1>1. SymbolType(c) \in TokenType
  BY DEF SymbolCharacters, SymbolType, TokenType, TokenString
<1>2. /\ SymbolType(c) # "INT"
      /\ SymbolType(c) \in {"ASSIGN", "BANG"} => c \in {"=", "!"}
  BY DEF SymbolCharacters, SymbolType
<1>3. TokenString[SymbolType(c)] = <<c>>
  BY DEF SymbolCharacters, SymbolType, TokenString
<1> QED
  BY <1>1, <1>2, <1>3

(* The types of the two symbols of two characters. *)
LEMMA DoubledSpelled ==
  /\ {"EQUAL", "NOT_EQUAL"} \subseteq TokenType
  /\ TokenString["EQUAL"] = <<"=", "=">>
  /\ TokenString["NOT_EQUAL"] = <<"!", "=">>
BY DEF TokenType, TokenString

(* The type of a word. *)
LEMMA WordTypes ==
  ASSUME NEW lexeme
  PROVE  /\ KeywordLookup(lexeme) \in TokenType
         /\ KeywordLookup(lexeme) \notin {"ASSIGN", "BANG", "INT"}
<1>1. KeywordLookup(lexeme) \in TokenType
  BY DEF KeywordLookup, TokenType
<1>2. KeywordLookup(lexeme) \notin {"ASSIGN", "BANG", "INT"}
  BY DEF KeywordLookup
<1> QED
  BY <1>1, <1>2

(* The characters of a kind of token: no blanks, not the terminator. *)
LEMMA KindsApart ==
  /\ NUL \notin IdentifierCharacters \union SymbolCharacters \union Blanks
  /\ "=" \notin IdentifierCharacters
  /\ Digits \subseteq IdentifierCharacters
  /\ \A c \in Digits : ~ IsIdentifierStart(c)
  /\ \A c \in SymbolCharacters : ~ IsIdentifierStart(c)
  /\ (IdentifierCharacters \union SymbolCharacters) \intersect Blanks = {}
  /\ \A c : IsIdentifierStart(c) => c \in IdentifierCharacters
BY LexerAssumption
   DEF IdentifierCharacters, IsIdentifierStart, Blanks, Spaces, KnownCharacters,
       SymbolCharacters, NUL

(* A token of this type, from pos to end, could not be longer. *)
Longest(type, end) ==
  /\ type \in {"ASSIGN", "BANG"} => At(end) # "="
  /\ type = "INT" => ~ IsDigit(At(end))
  /\ IsIdentifierStart(ch) => ~ IsIdentifierChar(At(end))

(* What a symbol, a word and a number have in common. *)
TakesToken(type, end) ==
  /\ lexing
  /\ Room
  /\ type \in TokenType
  /\ end \in pos + 1 .. length
  /\ \A k \in pos .. end - 1 : At(k) \notin Blanks
  /\ Longest(type, end)
  /\ tokens' = Append(tokens, [type |-> type, v |-> SubSeq(input, pos + 1, end),
                               line |-> line, column |-> column])
  /\ pos' = end
  /\ column' = column + (end - pos)
  /\ input' = input
  /\ UNCHANGED <<length, line, lexing, panic>>

(* Short pieces of a sequence. *)
LEMMA ShortPieces ==
  ASSUME NEW S, NEW s \in Seq(S), NEW k \in 1 .. Len(s)
  PROVE  /\ SubSeq(s, k, k) = <<s[k]>>
         /\ k < Len(s) => SubSeq(s, k, k + 1) = <<s[k], s[k + 1]>>
<1>1. k \in Int /\ k + 1 \in Int
  OBVIOUS
<1>2. SubSeq(s, k, k) = <<s[k]>>
  <2>1. \A i \in k .. k : s[i] \in S
    OBVIOUS
  <2>2. /\ SubSeq(s, k, k) \in Seq(S)
        /\ Len(SubSeq(s, k, k)) = IF k <= k THEN k - k + 1 ELSE 0
        /\ \A i \in 1 .. k - k + 1 : SubSeq(s, k, k)[i] = s[k + i - 1]
    BY <1>1, <2>1, SubSeqProperties
  <2>3. <<s[k]>> \in Seq(S) /\ Len(<<s[k]>>) = 1 /\ <<s[k]>>[1] = s[k]
    OBVIOUS
  <2>4. Len(SubSeq(s, k, k)) = 1 /\ SubSeq(s, k, k)[1] = s[k]
    BY <2>2
  <2>5. \A i \in 1 .. 1 : SubSeq(s, k, k)[i] = <<s[k]>>[i]
    BY <2>3, <2>4
  <2> QED
    BY <2>2, <2>3, <2>4, <2>5, SeqEqual
<1>3. ASSUME k < Len(s) PROVE SubSeq(s, k, k + 1) = <<s[k], s[k + 1]>>
  <2> DEFINE two == SubSeq(s, k, k + 1)
  <2>1. \A i \in k .. k + 1 : s[i] \in S
    BY <1>3
  <2>2. /\ two \in Seq(S)
        /\ Len(two) = IF k <= k + 1 THEN k + 1 - k + 1 ELSE 0
        /\ \A i \in 1 .. k + 1 - k + 1 : two[i] = s[k + i - 1]
    BY <1>1, <2>1, SubSeqProperties
  <2> HIDE DEF two
  <2>3. Len(two) = 2 /\ two[1] = s[k] /\ two[2] = s[k + 1]
    BY <2>2
  <2>4. <<s[k], s[k + 1]>> \in Seq(S)
    BY <1>3
  <2>5. \A i \in 1 .. 2 : two[i] = <<s[k], s[k + 1]>>[i]
    BY <2>3
  <2>6. two = <<s[k], s[k + 1]>>
    BY <2>2, <2>3, <2>4, <2>5, SeqEqual
  <2> QED
    BY <2>6 DEF two
<1> QED
  BY <1>2, <1>3

(* Where the lexer is in the source. *)
LEMMA Positions ==
  ASSUME ReaderInv
  PROVE  /\ pos \in Nat /\ length \in Nat /\ pos <= length
         /\ input \in Seq(Characters)
         /\ length + 1 \in 1 .. Len(input)
         /\ At(length) = NUL
         /\ line \in Nat /\ column \in Nat
         /\ tokens \in Seq(TokensOf)
BY DEF ReaderInv, ReaderTypeOK, SourceOK, At

(* A symbol takes one character, or two for == and !=. *)
LEMMA SymbolTakes ==
  ASSUME ReaderInv, Symbol
  PROVE  \E type, end : TakesToken(type, end)
<1>1. /\ lexing /\ pos < length /\ ch \in SymbolCharacters /\ Room
      /\ input' = input
      /\ UNCHANGED <<length, line, lexing, panic>>
  BY DEF Symbol, Lexing
<1>2. pos + 1 \in 1 .. Len(input) /\ pos + 1 < Len(input) /\ ch = input[pos + 1]
  BY <1>1, Positions DEF ch, At
<1>3. ch \notin Blanks /\ ~ IsIdentifierStart(ch)
  BY <1>1, KindsApart
<1>4. CASE ~ Doubled
  <2>1. PICK type, end : type = SymbolType(ch) /\ end = pos + 1
    BY Zenon
  <2>2. /\ tokens' = Append(tokens, [type |-> type, v |-> TokenString[type],
                                     line |-> line, column |-> column])
        /\ pos' = end
        /\ column' = column + 1
    BY <1>4, <2>1, Zenon DEF Symbol, NewToken
  <2>3. TokenString[type] = SubSeq(input, pos + 1, end)
    BY <1>1, <1>2, <2>1, Positions, SymbolsSpelled, ShortPieces
  <2>4. /\ type \in TokenType /\ type # "INT"
        /\ type \in {"ASSIGN", "BANG"} => ch \in {"=", "!"}
    BY <1>1, <2>1, SymbolsSpelled
  <2>5. type \in {"ASSIGN", "BANG"} => At(end) # "="
    <3>1. CASE end < length
      BY <1>1, <1>4, <2>1, <2>4, <3>1 DEF Doubled, At
    <3>2. CASE end = length
      BY <3>2, Positions DEF NUL, At
    <3> QED
      BY <1>1, <2>1, <3>1, <3>2, Positions
  <2>6. Longest(type, end)
    BY <1>3, <2>4, <2>5 DEF Longest
  <2>7. \A k \in pos .. end - 1 : At(k) \notin Blanks
    BY <1>3, <2>1, Positions DEF ch, At
  <2>8. end \in pos + 1 .. length /\ column' = column + (end - pos)
    BY <1>1, <2>1, <2>2, Positions
  <2>9. TakesToken(type, end)
    BY <1>1, <2>2, <2>3, <2>4, <2>6, <2>7, <2>8, Zenon DEF TakesToken
  <2> QED
    BY <2>9, Zenon
<1>5. CASE Doubled
  <2>1. PICK type, end : /\ type = IF ch = "=" THEN "EQUAL" ELSE "NOT_EQUAL"
                         /\ end = pos + 2
    BY Zenon
  <2>2. /\ tokens' = Append(tokens, [type |-> type, v |-> TokenString[type],
                                     line |-> line, column |-> column])
        /\ pos' = end
        /\ column' = column + 2
    BY <1>5, <2>1, Zenon DEF Symbol, NewToken
  <2>3. ch \in {"=", "!"} /\ pos + 1 < length /\ input[pos + 2] = "="
    <3>1. pos + 1 + 1 = pos + 2
      BY Positions
    <3> QED
      BY <1>5, <3>1 DEF Doubled, At
  <2>4. TokenString[type] = <<ch, "=">> /\ type \in TokenType
    BY <2>1, <2>3, DoubledSpelled
  <2>5. TokenString[type] = SubSeq(input, pos + 1, end)
    <3>1. pos + 1 + 1 = end
      BY <2>1, Positions
    <3>2. SubSeq(input, pos + 1, pos + 1 + 1) = <<input[pos + 1], input[pos + 1 + 1]>>
      BY <1>2, Positions, ShortPieces
    <3> QED
      BY <1>2, <2>1, <2>3, <2>4, <3>1, <3>2, Zenon
  <2>6. Longest(type, end)
    BY <1>3, <2>1 DEF Longest
  <2>7. ASSUME NEW k \in pos .. end - 1 PROVE At(k) \notin Blanks
    <3>1. "=" \notin Blanks
      BY DEF Blanks, Spaces
    <3>2. CASE k = pos
      BY <1>2, <1>3, <3>2 DEF At
    <3>3. CASE k = pos + 1
      BY <1>2, <2>3, <3>1, <3>3, Positions DEF At
    <3> QED
      BY <2>1, <3>2, <3>3, Positions
  <2>8. end \in pos + 1 .. length /\ column' = column + (end - pos)
    BY <2>1, <2>2, <2>3, Positions
  <2>9. TakesToken(type, end)
    BY <1>1, <2>2, <2>4, <2>5, <2>6, <2>7, <2>8, Zenon DEF TakesToken
  <2> QED
    BY <2>9, Zenon
<1> QED
  BY <1>4, <1>5

(* A word or a number takes the whole run of its characters. *)
LEMMA PushTakes ==
  ASSUME ReaderInv, NEW kind, NEW type \in TokenType, NEW end,
         lexing, pos < length, Room, ch \in kind, EndsRun(kind, end),
         \/ kind = IdentifierCharacters /\ type # "INT"
         \/ kind = Digits /\ ~ IsIdentifierStart(ch),
         type \notin {"ASSIGN", "BANG"},
         PushLexeme(end, type)
  PROVE  TakesToken(type, end)
<1>1. end \in pos .. length /\ end \in 0 .. length
  BY Positions DEF EndsRun
<1>2. Lexeme(end) = SubSeq(input, pos + 1, end)
  BY <1>1, LexemeIs
<1>3. Restored(Terminated(end), end, At(end)) = input
  BY <1>1, RestoredIs
<1>4. end # pos
  BY Positions DEF EndsRun, ch
<1>5. kind \subseteq IdentifierCharacters
  BY KindsApart
<1>6. At(end) \notin kind
  BY <1>1, <1>5, Positions, KindsApart DEF EndsRun
<1>7. Longest(type, end)
  BY <1>6 DEF Longest, IsDigit, IsIdentifierChar
<1>8. \A k \in pos .. end - 1 : At(k) \notin Blanks
  BY <1>5, KindsApart DEF EndsRun
<1>9. end \in pos + 1 .. length
  BY <1>1, <1>4, Positions
<1> QED
  BY <1>2, <1>3, <1>7, <1>8, <1>9, Zenon DEF TakesToken, PushLexeme, NewToken

(* Words and numbers. *)
LEMMA WordTakes ==
  ASSUME ReaderInv, Word \/ Number
  PROVE  \E type, end : TakesToken(type, end)
<1>1. CASE Word
  <2>1. /\ lexing /\ pos < length /\ IsIdentifierStart(ch) /\ Room
        /\ PushLexeme(EndOf(IdentifierCharacters),
                      KeywordLookup(Lexeme(EndOf(IdentifierCharacters))))
    BY <1>1 DEF Word, Lexing
  <2>2. PICK kind, end, type : /\ kind = IdentifierCharacters
                               /\ end = EndOf(IdentifierCharacters)
                               /\ type = KeywordLookup(Lexeme(end))
    BY Zenon
  <2>3. EndsRun(kind, end)
    BY <2>2, EndOfIs, Zenon
  <2>4. type \in TokenType /\ type \notin {"ASSIGN", "BANG", "INT"}
    BY <2>2, WordTypes, Zenon
  <2>5. PushLexeme(end, type)
    BY <2>1, <2>2, Zenon
  <2>6. ch \in kind
    BY <2>1, <2>2, KindsApart, Zenon
  <2>7. lexing /\ pos < length /\ Room /\ kind = IdentifierCharacters
    BY <2>1, <2>2
  <2>8. type \in TokenType /\ type # "INT" /\ type \notin {"ASSIGN", "BANG"}
    BY <2>4
  <2>9. TakesToken(type, end)
    BY <2>3, <2>5, <2>6, <2>7, <2>8, PushTakes, Zenon
  <2> QED
    BY <2>9, Zenon
<1>2. CASE Number
  <2>1. /\ lexing /\ pos < length /\ ch \in Digits /\ Room
        /\ PushLexeme(EndOf(Digits), "INT")
    BY <1>2 DEF Number, Lexing, IsDigit
  <2>2. PICK end : end = EndOf(Digits)
    BY Zenon
  <2>3. EndsRun(Digits, end)
    BY <2>2, EndOfIs, Zenon
  <2>4. "INT" \in TokenType
    BY DEF TokenType
  <2>5. ~ IsIdentifierStart(ch)
    BY <2>1, KindsApart, Zenon
  <2>6. TakesToken("INT", end)
    BY <2>1, <2>2, <2>3, <2>4, <2>5, PushTakes
  <2> QED
    BY <2>6, Zenon
<1> QED
  BY <1>1, <1>2

-----------------------------------------------------------------------------
(* Type correctness *)

(* The piece fgets reads, as the string it is handed as. *)
LEMMA PieceIs ==
  ASSUME unread \in Seq(Characters), NEW n \in 1 .. Len(unread), NEW piece,
         piece = Append(SubSeq(unread, 1, n), NUL)
  PROVE  /\ piece \in Seq(Characters)
         /\ Len(piece) = n + 1
         /\ \A k \in 1 .. n : piece[k] = unread[k]
         /\ piece[n + 1] = NUL
<1> DEFINE read == SubSeq(unread, 1, n)
<1>1. 1 \in Int /\ n \in Int /\ \A k \in 1 .. n : unread[k] \in Characters
  OBVIOUS
<1>2. /\ read \in Seq(Characters)
      /\ Len(read) = IF 1 <= n THEN n - 1 + 1 ELSE 0
      /\ \A k \in 1 .. n - 1 + 1 : read[k] = unread[1 + k - 1]
  BY <1>1, SubSeqProperties
<1>3. piece = Append(read, NUL)
  OBVIOUS
<1> HIDE DEF read
<1>4. Len(read) = n /\ \A k \in 1 .. n : read[k] = unread[k]
  BY <1>2
<1>5. /\ piece \in Seq(Characters)
      /\ Len(piece) = Len(read) + 1
      /\ \A k \in 1 .. Len(read) : piece[k] = read[k]
      /\ piece[Len(read) + 1] = NUL
  <2>1. NUL \in Characters
    BY NulIsCharacter
  <2> HIDE DEF NUL
  <2> QED
    BY <1>2, <1>3, <2>1, AppendProperties
<1> QED
  BY <1>4, <1>5

(* Cutting the newline off changes the last character before the NUL at most. *)
LEMMA CutIs ==
  ASSUME NEW s \in Seq(Characters), NEW n, Ends(s, 0, n), NEW t, t = WithoutNewline(s)
  PROVE  /\ t \in Seq(Characters)
         /\ Len(t) = Len(s)
         /\ \A k \in 1 .. Len(s) : k # n => t[k] = s[k]
         /\ IF n > 0 /\ s[n] = "\n" THEN t[n] = NUL ELSE t = s
<1>1. SourceLength(s) = n
  BY SourceLengthIs
<1>2. n \in 0 .. Len(s) - 1
  BY DEF Ends
<1>3. CASE n > 0 /\ s[n] = "\n"
  <2>1. t = [s EXCEPT ![n] = NUL]
    BY <1>1, <1>3 DEF WithoutNewline
  <2>2. /\ t \in Seq(Characters)
        /\ Len(t) = Len(s)
        /\ \A k \in 1 .. Len(s) : t[k] = IF k = n THEN NUL ELSE s[k]
    BY <1>2, <1>3, <2>1, NulIsCharacter, CharacterReplaced
  <2> QED
    BY <1>2, <1>3, <2>2
<1>4. CASE ~ (n > 0 /\ s[n] = "\n")
  <2>1. t = s
    BY <1>1, <1>4 DEF WithoutNewline
  <2> QED
    BY <1>4, <2>1
<1> QED
  BY <1>3, <1>4

(* A new source keeps the invariant. *)
LEMMA TokenizeKeeps ==
  ASSUME ReaderInv, NEW source \in Seq(Characters), source # << >>,
         source[Len(source)] = NUL, Tokenize(source),
         text' = text, unread' \in Seq(Characters)
  PROVE  ReaderInv'
<1>1. input' = source /\ Ends(source, 0, length')
  BY TokenizeMeasures
<1>2. /\ pos' = 0 /\ line' = 1 /\ column' = 1 /\ tokens' = << >>
  BY DEF Tokenize
<1>3. length' \in 0 .. Len(input') - 1 /\ input'[length' + 1] = NUL
  BY <1>1 DEF Ends
<1>4. Ends(input, 0, length)'
  BY <1>1, Zenon DEF Ends
<1>5. 0 <= MaxTokens /\ tokens' \in Seq(TokensOf) /\ Len(tokens') = 0
  BY <1>2, LexerAssumption
<1> QED
  BY <1>1, <1>2, <1>3, <1>4, <1>5 DEF ReaderInv, ReaderTypeOK, SourceOK

(* The characters that are read come from a text. *)
LEMMA ReadFileKeepsInv ==
  ASSUME ReaderInv, ReadFile
  PROVE  ReaderInv'
<1>1. CASE Len(text) > MaxSourceBytes
  BY <1>1 DEF ReadFile, Panic, ReaderInv, ReaderTypeOK, SourceOK, Ends
<1>2. CASE ~ (Len(text) > MaxSourceBytes)
  <2>1. PICK source : source = Append(text, NUL)
    BY Zenon
  <2>2. Tokenize(source) /\ unread' = << >> /\ text' = text
    BY <1>2, <2>1 DEF ReadFile
  <2>3. text \in Seq(Characters) /\ NUL \in Characters
    BY NulIsCharacter DEF ReaderInv, SourceOK
  <2>4. /\ source \in Seq(Characters)
        /\ source # << >>
        /\ Len(source) = Len(text) + 1
        /\ source[Len(text) + 1] = NUL
    BY <2>1, <2>3, AppendProperties DEF NUL
  <2> QED
    BY <2>2, <2>4, TokenizeKeeps
<1> QED
  BY <1>1, <1>2

(* What ReadLine tokenizes. *)
LEMMA LineSource ==
  ASSUME ReaderInv, NEW n, EndsLine(n), NEW source,
         source = WithoutNewline(Append(SubSeq(unread, 1, n), NUL))
  PROVE  /\ source \in Seq(Characters)
         /\ source # << >>
         /\ source[Len(source)] = NUL
<1>1. unread \in Seq(Characters) /\ n \in 1 .. Len(unread)
  BY DEF ReaderInv, SourceOK, EndsLine
<1>2. PICK piece : piece = Append(SubSeq(unread, 1, n), NUL)
  BY Zenon
<1>3. /\ piece \in Seq(Characters)
      /\ Len(piece) = n + 1
      /\ piece[n + 1] = NUL
  BY <1>1, <1>2, PieceIs
<1>4. 0 \in Nat /\ n \in 0 .. Len(piece) - 1
  BY <1>1, <1>3
<1>5. PICK end \in 0 .. n : Ends(piece, 0, end)
  BY <1>3, <1>4, StringEnds
<1>6. /\ source \in Seq(Characters)
      /\ Len(source) = Len(piece)
      /\ \A k \in 1 .. Len(piece) : k # end => source[k] = piece[k]
  <2>1. source = WithoutNewline(piece)
    BY <1>2, Zenon
  <2> QED
    BY <1>3, <1>5, <2>1, CutIs
<1>7. n + 1 \in 1 .. Len(piece) /\ n + 1 # end
  BY <1>1, <1>3, <1>5
<1> QED
  BY <1>3, <1>6, <1>7

(* A line keeps the invariant. *)
LEMMA ReadLineKeepsInv ==
  ASSUME ReaderInv, ReadLine
  PROVE  ReaderInv'
<1>1. unread \in Seq(Characters) /\ unread # << >>
  BY DEF ReaderInv, SourceOK, ReadLine
<1>2. PICK n : n = Fgets
  BY Zenon
<1>3. EndsLine(n)
  BY <1>1, <1>2, FgetsIs, Zenon
<1>4. PICK source : source = WithoutNewline(Append(SubSeq(unread, 1, n), NUL))
  BY Zenon
<1>5. /\ Tokenize(source)
      /\ unread' = SubSeq(unread, n + 1, Len(unread))
      /\ text' = text
  BY <1>2, <1>4, Zenon DEF ReadLine
<1>6. unread' \in Seq(Characters)
  <2>1. n \in 1 .. Len(unread)
    BY <1>3 DEF EndsLine
  <2>2. \A k \in n + 1 .. Len(unread) : unread[k] \in Characters
    BY <1>1, <2>1
  <2> QED
    BY <1>1, <1>5, <2>1, <2>2, SubSeqProperties
<1>7. source \in Seq(Characters) /\ source # << >> /\ source[Len(source)] = NUL
  BY <1>3, <1>4, LineSource
<1> QED
  BY <1>5, <1>6, <1>7, TokenizeKeeps

(* The text of a piece of the source. *)
LEMMA PieceOfInput ==
  ASSUME ReaderInv, NEW end \in pos .. length
  PROVE  /\ SubSeq(input, pos + 1, end) \in Seq(Characters)
         /\ Len(SubSeq(input, pos + 1, end)) = end - pos
<1>1. pos + 1 \in Int /\ end \in Int /\ pos <= end
  BY Positions
<1>2. \A k \in pos + 1 .. end : input[k] \in Characters
  BY Positions
<1>3. /\ SubSeq(input, pos + 1, end) \in Seq(Characters)
      /\ Len(SubSeq(input, pos + 1, end)) =
           IF pos + 1 <= end THEN end - (pos + 1) + 1 ELSE 0
  BY <1>1, <1>2, SubSeqProperties
<1> QED
  BY <1>1, <1>3, Positions

(* What does not touch the source keeps what is known of it. *)
LEMMA SourceKept ==
  ASSUME ReaderInv, UNCHANGED <<input, length, text, unread>>
  PROVE  /\ SourceOK'
         /\ length' \in 0 .. Len(input') - 1
         /\ input'[length' + 1] = NUL
BY DEF ReaderInv, ReaderTypeOK, SourceOK, Ends

(* A token keeps the invariant. *)
LEMMA TakesKeepsInv ==
  ASSUME ReaderInv, NEW type, NEW end, TakesToken(type, end), UNCHANGED <<text, unread>>
  PROVE  ReaderInv'
<1>1. end \in pos + 1 .. length /\ end \in pos .. length
  BY Positions DEF TakesToken
<1> DEFINE token == [type |-> type, v |-> SubSeq(input, pos + 1, end),
                     line |-> line, column |-> column]
<1>2. token \in TokensOf
  BY <1>1, PieceOfInput, Positions DEF TokensOf, TakesToken
<1>3. tokens' = Append(tokens, token)
  BY DEF TakesToken
<1> HIDE DEF token
<1>4. tokens' \in Seq(TokensOf) /\ Len(tokens') = Len(tokens) + 1
  BY <1>2, <1>3, Positions, AppendProperties
<1>5. Len(tokens') <= MaxTokens
  BY <1>4, Positions, LexerAssumption DEF TakesToken, Room
<1>6. SourceOK' /\ length' \in 0 .. Len(input') - 1 /\ input'[length' + 1] = NUL
  BY SourceKept DEF TakesToken
<1>7. /\ pos' \in 0 .. length'
      /\ line' \in Nat \ {0}
      /\ column' \in Nat \ {0}
  BY <1>1, Positions DEF TakesToken, ReaderInv, ReaderTypeOK
<1> QED
  BY <1>4, <1>5, <1>6, <1>7 DEF ReaderInv, ReaderTypeOK

(* Moving over a blank does too. *)
LEMMA BlankKeepsInv ==
  ASSUME ReaderInv, Newline \/ Space, UNCHANGED <<text, unread>>
  PROVE  ReaderInv'
<1>1. /\ pos < length
      /\ pos' = pos + 1
      /\ line' \in {line, line + 1}
      /\ column' \in {1, column + 1}
      /\ UNCHANGED <<input, length, tokens>>
  BY DEF Newline, Space, Lexing
<1>2. SourceOK' /\ length' \in 0 .. Len(input') - 1 /\ input'[length' + 1] = NUL
  BY <1>1, SourceKept
<1>3. pos' \in 0 .. length' /\ line' \in Nat \ {0} /\ column' \in Nat \ {0}
  BY <1>1, Positions DEF ReaderInv, ReaderTypeOK
<1>4. tokens' \in Seq(TokensOf) /\ Len(tokens') <= MaxTokens
  BY <1>1 DEF ReaderInv, ReaderTypeOK
<1> QED
  BY <1>2, <1>3, <1>4 DEF ReaderInv, ReaderTypeOK

(* The token END needs room as well. *)
LEMMA FinishKeepsInv ==
  ASSUME ReaderInv, Finish, Room, UNCHANGED <<text, unread>>
  PROVE  ReaderInv'
<1>1. tokens' = Append(tokens, EndToken) /\ UNCHANGED <<input, length, pos, line, column>>
  BY DEF Finish, NewToken, EndToken
<1>2. EndToken \in TokensOf
  <2>1. "END" \in TokenType
    BY DEF TokenType
  <2>2. << >> \in Seq(Characters)
    OBVIOUS
  <2> QED
    BY <2>1, <2>2, Positions DEF EndToken, TokensOf
<1>3. tokens' \in Seq(TokensOf) /\ Len(tokens') = Len(tokens) + 1
  BY <1>1, <1>2, Positions, AppendProperties
<1>4. Len(tokens') <= MaxTokens
  BY <1>3, Positions, LexerAssumption DEF Room
<1>5. SourceOK' /\ length' \in 0 .. Len(input') - 1 /\ input'[length' + 1] = NUL
  BY <1>1, SourceKept
<1>6. pos' \in 0 .. length' /\ line' \in Nat \ {0} /\ column' \in Nat \ {0}
  BY <1>1 DEF ReaderInv, ReaderTypeOK
<1> QED
  BY <1>3, <1>4, <1>5, <1>6 DEF ReaderInv, ReaderTypeOK

(* So does whatever leaves the lexer where it is. *)
LEMMA StandstillKeepsInv ==
  ASSUME ReaderInv, UNCHANGED <<input, length, pos, line, column, tokens, text, unread>>
  PROVE  ReaderInv'
BY DEF ReaderInv, ReaderTypeOK, SourceOK, Ends

(* The turns of the loop, told apart by what they do. *)
LEMMA TurnsOfLoop ==
  ASSUME ReaderInv, LexStep
  PROVE  \/ Newline \/ Space
         \/ \E type, end : TakesToken(type, end)
         \/ Finish /\ Room
         \/ \E why : Panic(why) /\ why # "none"
<1>1. CASE Newline \/ Space
  BY <1>1
<1>2. CASE Symbol
  BY <1>2, SymbolTakes
<1>3. CASE Word \/ Number
  BY <1>3, WordTakes
<1>4. CASE NoRoom \/ Illegal
  <2>1. Panic("token capacity") \/ Panic("illegal character")
    BY <1>4 DEF NoRoom, Illegal
  <2>2. PICK why : why \in {"token capacity", "illegal character"} /\ Panic(why)
    BY <2>1
  <2>3. why # "none"
    BY <2>2
  <2> QED
    BY <2>2, <2>3, Zenon
<1>5. CASE Finish /\ Room
  BY <1>5
<1>6. CASE Finish /\ ~ Room
  <2>1. Panic("token capacity")
    BY <1>6 DEF Finish
  <2>2. "token capacity" # "none"
    OBVIOUS
  <2> QED
    BY <2>1, <2>2, Zenon
<1> QED
  BY <1>1, <1>2, <1>3, <1>4, <1>5, <1>6 DEF LexStep

(* A turn of the loop keeps the invariant. *)
LEMMA LexKeepsInv ==
  ASSUME ReaderInv, Lex
  PROVE  ReaderInv'
<1>1. LexStep /\ UNCHANGED <<text, unread>>
  BY DEF Lex
<1>2. CASE Newline \/ Space
  BY <1>1, <1>2, BlankKeepsInv
<1>3. CASE \E type, end : TakesToken(type, end)
  <2>1. PICK type, end : TakesToken(type, end)
    BY <1>3
  <2> QED
    BY <1>1, <2>1, TakesKeepsInv
<1>4. CASE Finish /\ Room
  BY <1>1, <1>4, FinishKeepsInv
<1>5. CASE \E why : Panic(why) /\ why # "none"
  BY <1>1, <1>5, StandstillKeepsInv DEF Panic
<1> QED
  BY <1>1, <1>2, <1>3, <1>4, <1>5, TurnsOfLoop

(* ReaderInv holds at the start. *)
LEMMA InitReaderInv == ReaderInit => ReaderInv
<1> SUFFICES ASSUME ReaderInit PROVE ReaderInv
  OBVIOUS
<1>1. text \in Seq(Characters) /\ unread = text
  BY ReaderAssumption DEF ReaderInit
<1>2. /\ input = <<NUL>> /\ length = 0 /\ pos = 0 /\ line = 1 /\ column = 1
      /\ tokens = << >>
  BY DEF ReaderInit
<1>3. input \in Seq(Characters) /\ Len(input) = 1 /\ input[1] = NUL
  BY <1>2, NulIsCharacter DEF NUL
<1>4. Ends(input, 0, length)
  BY <1>2, <1>3 DEF Ends
<1> QED
  BY <1>1, <1>2, <1>3, <1>4, LexerAssumption DEF ReaderInv, ReaderTypeOK, SourceOK

(* Every step keeps it. *)
LEMMA NextReaderInv ==
  ASSUME ReaderInv, [ReaderNext]_readerVars
  PROVE  ReaderInv'
<1>1. CASE ReadFile
  BY <1>1, ReadFileKeepsInv
<1>2. CASE ReadLine
  BY <1>2, ReadLineKeepsInv
<1>3. CASE Lex
  BY <1>3, LexKeepsInv
<1>4. CASE UNCHANGED readerVars
  BY <1>4, StandstillKeepsInv DEF readerVars, lexerVars
<1> QED
  BY <1>1, <1>2, <1>3, <1>4 DEF ReaderNext

(* The strengthened type invariant holds in every state. *)
LEMMA ReaderInvAlways == ReaderSpec => []ReaderInv
BY InitReaderInv, NextReaderInv, PTL DEF ReaderSpec

(* The lexer stays inside its source, whose terminator it puts back, and within
   its capacity: no token, and no END, is stored beyond MAX_TOKENS. *)
THEOREM ReaderTypeCorrect == ReaderSpec => []ReaderTypeOK
<1>1. ReaderInv => ReaderTypeOK
  BY DEF ReaderInv
<1> QED
  BY <1>1, ReaderInvAlways, PTL

-----------------------------------------------------------------------------
(* Lines and columns *)

(* The newlines before a position are finitely many, and in front of it. *)
LEMMA NewlinesFinite ==
  ASSUME NEW source, NEW p \in Nat
  PROVE  /\ IsFiniteSet(NewlinesBefore(source, p))
         /\ Cardinality(NewlinesBefore(source, p)) \in Nat
         /\ NewlinesBefore(source, p) \in SUBSET (0 .. p - 1)
<1>1. NewlinesBefore(source, p) \in SUBSET (0 .. p - 1)
  BY DEF NewlinesBefore
<1>2. IsFiniteSet(0 .. p - 1)
  BY FS_Interval
<1>3. IsFiniteSet(NewlinesBefore(source, p))
  BY <1>1, <1>2, FS_Subset
<1> QED
  BY <1>1, <1>3, FS_CardinalityType

(* Max finds the greatest element. *)
LEMMA MaxIs ==
  ASSUME NEW T \in SUBSET Int, NEW m \in T, \A x \in T : m >= x
  PROVE  Max(T) = m
<1>1. ASSUME NEW x \in T, \A y \in T : x >= y PROVE x = m
  BY <1>1
<1> QED
  BY <1>1, Zenon DEF Max

(* A column counts from the last newline, or from in front of the source. *)
LEMMA ColumnCounts ==
  ASSUME NEW source, NEW p \in Nat
  PROVE  \E m \in -1 .. p - 1 :
           /\ m = Max(NewlinesBefore(source, p) \union {-1})
           /\ ColumnAt(source, p) = p - m
<1> DEFINE T == NewlinesBefore(source, p) \union {-1}
<1>1. T \in SUBSET Int /\ T # {} /\ p - 1 \in Int /\ \A x \in T : x \in -1 .. p - 1
  BY NewlinesFinite
<1> HIDE DEF T
<1>2. \A x \in T : x <= p - 1
  BY <1>1
<1>3. PICK m \in T : \A x \in T : m >= x
  BY <1>1, <1>2, Greatest
<1>4. Max(T) = m
  BY <1>1, <1>3, MaxIs
<1>5. m \in -1 .. p - 1
  BY <1>1
<1> QED
  BY <1>4, <1>5, Zenon DEF T, ColumnAt

(* The first position. *)
LEMMA FirstPosition ==
  ASSUME NEW source
  PROVE  LineAt(source, 0) = 1 /\ ColumnAt(source, 0) = 1
<1>1. NewlinesBefore(source, 0) = {}
  BY DEF NewlinesBefore
<1>2. LineAt(source, 0) = 1
  BY <1>1, FS_EmptySet DEF LineAt
<1>3. PICK m \in -1 .. 0 - 1 : ColumnAt(source, 0) = 0 - m
  BY ColumnCounts
<1> QED
  BY <1>2, <1>3

(* The position after a newline. *)
LEMMA AfterNewline ==
  ASSUME NEW source, NEW p \in Nat, source[p + 1] = "\n"
  PROVE  /\ LineAt(source, p + 1) = LineAt(source, p) + 1
         /\ ColumnAt(source, p + 1) = 1
<1>1. NewlinesBefore(source, p + 1) = NewlinesBefore(source, p) \union {p}
  BY DEF NewlinesBefore
<1>2. p \notin NewlinesBefore(source, p)
  BY DEF NewlinesBefore
<1>3. LineAt(source, p + 1) = LineAt(source, p) + 1
  BY <1>1, <1>2, NewlinesFinite, FS_AddElement DEF LineAt
<1> DEFINE T == NewlinesBefore(source, p + 1) \union {-1}
<1>4. T \in SUBSET Int /\ p \in T /\ \A x \in T : p >= x
  BY <1>1, NewlinesFinite
<1> HIDE DEF T
<1>5. Max(T) = p
  BY <1>4, MaxIs
<1>6. ColumnAt(source, p + 1) = p + 1 - p
  BY <1>5 DEF T, ColumnAt
<1> QED
  BY <1>3, <1>6

(* A position on the same line. *)
LEMMA SameLine ==
  ASSUME NEW source, NEW p \in Nat, NEW q \in Nat, p <= q,
         \A k \in p .. q - 1 : source[k + 1] # "\n"
  PROVE  /\ LineAt(source, q) = LineAt(source, p)
         /\ ColumnAt(source, q) = ColumnAt(source, p) + (q - p)
<1>1. NewlinesBefore(source, q) = NewlinesBefore(source, p)
  <2>1. ASSUME NEW k \in 0 .. q - 1, source[k + 1] = "\n" PROVE k \in 0 .. p - 1
    BY <2>1
  <2>2. 0 .. p - 1 \subseteq 0 .. q - 1
    OBVIOUS
  <2> QED
    BY <2>1, <2>2, Zenon DEF NewlinesBefore
<1>2. LineAt(source, q) = LineAt(source, p)
  BY <1>1, Zenon DEF LineAt
<1>3. PICK m \in -1 .. p - 1 : /\ m = Max(NewlinesBefore(source, p) \union {-1})
                               /\ ColumnAt(source, p) = p - m
  BY ColumnCounts
<1>4. ColumnAt(source, q) = q - m
  BY <1>1, <1>3, Zenon DEF ColumnAt
<1> QED
  BY <1>2, <1>3, <1>4

(* A line and a column determine the position. *)
LEMMA OnePosition ==
  ASSUME NEW source, NEW p \in Nat, NEW q \in Nat,
         LineAt(source, p) = LineAt(source, q),
         ColumnAt(source, p) = ColumnAt(source, q)
  PROVE  p = q
<1>1. ASSUME NEW a \in Nat, NEW b \in Nat, a <= b,
             LineAt(source, a) = LineAt(source, b)
      PROVE  NewlinesBefore(source, a) = NewlinesBefore(source, b)
  <2>1. NewlinesBefore(source, a) \in SUBSET NewlinesBefore(source, b)
    BY <1>1 DEF NewlinesBefore
  <2>2. Cardinality(NewlinesBefore(source, a)) = Cardinality(NewlinesBefore(source, b))
    BY <1>1, NewlinesFinite DEF LineAt
  <2> QED
    BY <2>1, <2>2, NewlinesFinite, FS_Subset
<1>2. NewlinesBefore(source, p) = NewlinesBefore(source, q)
  <2>1. p <= q \/ q <= p
    OBVIOUS
  <2> QED
    BY <1>1, <2>1, Zenon
<1>3. PICK m \in -1 .. p - 1 : /\ m = Max(NewlinesBefore(source, p) \union {-1})
                               /\ ColumnAt(source, p) = p - m
  BY ColumnCounts
<1>4. ColumnAt(source, q) = q - m
  BY <1>2, <1>3, Zenon DEF ColumnAt
<1>5. p - m = q - m
  BY <1>3, <1>4, Zenon
<1> QED
  BY <1>5

(* So a token names the one place it stands at. *)
LEMMA PlaceIs ==
  ASSUME NEW source, NEW t, NEW p \in 0 .. Len(source), Len(source) \in Nat,
         t.line = LineAt(source, p), t.column = ColumnAt(source, p)
  PROVE  Place(source, t) = p
<1> DEFINE Here(q) == t.line = LineAt(source, q) /\ t.column = ColumnAt(source, q)
<1>1. ASSUME NEW q \in 0 .. Len(source), Here(q) PROVE q = p
  <2>1. p \in Nat /\ q \in Nat
    BY <1>1
  <2> QED
    BY <1>1, <2>1, OnePosition
<1>2. Here(p)
  OBVIOUS
<1> HIDE DEF Here
<1>3. (CHOOSE q \in 0 .. Len(source) : Here(q)) = p
  BY <1>1, <1>2, Zenon
<1> QED
  BY <1>3, Zenon DEF Place, Here

-----------------------------------------------------------------------------
(* Tokens in place *)

StartOf(source, words, p, k) ==
  IF k > Len(words) THEN p ELSE Place(source, words[k])

WordInPlace(source, words, p, k) ==
  /\ Stands(source, words[k], StartOf(source, words, p, k))
  /\ Blank(source, StartOf(source, words, p, k) + Len(words[k].v),
           StartOf(source, words, p, k + 1))

(* InPlace, word by word. *)
LEMMA InPlaceIs ==
  ASSUME NEW source, NEW words, NEW p
  PROVE  InPlace(source, words, p) <=>
           /\ \A k \in 1 .. Len(words) : WordInPlace(source, words, p, k)
           /\ Blank(source, 0, StartOf(source, words, p, 1))
BY Zenon DEF InPlace, WordInPlace, StartOf

(* Blanks join. *)
LEMMA BlanksJoin ==
  ASSUME NEW source, NEW a \in Int, NEW b \in Int, NEW c \in Int,
         Blank(source, a, b), Blank(source, b, c)
  PROVE  Blank(source, a, c)
BY DEF Blank

(* Where a word stands, and ends. *)
LEMMA WordsAt ==
  ASSUME NEW source \in Seq(Characters), NEW words \in Seq(TokensOf), NEW p \in Nat,
         NEW k \in 1 .. Len(words), WordInPlace(source, words, p, k)
  PROVE  /\ StartOf(source, words, p, k) \in Int
         /\ StartOf(source, words, p, k) + Len(words[k].v) \in Int
<1>1. words[k].v \in Seq(Characters)
  <2>1. words[k] \in TokensOf
    BY ElementOfSeq
  <2> QED
    BY <2>1 DEF TokensOf
<1>2. Len(words[k].v) \in Nat
  BY <1>1
<1>3. StartOf(source, words, p, k) \in 0 .. Len(source) - 1
  BY DEF WordInPlace, Stands
<1> QED
  BY <1>2, <1>3

(* Moving over blanks. *)
LEMMA InPlaceOverBlanks ==
  ASSUME NEW source \in Seq(Characters), NEW words \in Seq(TokensOf),
         NEW p \in Nat, NEW q \in Nat,
         InPlace(source, words, p), Blank(source, p, q)
  PROVE  InPlace(source, words, q)
<1>1. /\ \A k \in 1 .. Len(words) : WordInPlace(source, words, p, k)
      /\ Blank(source, 0, StartOf(source, words, p, 1))
  BY InPlaceIs
<1>2. \A k \in 1 .. Len(words) : StartOf(source, words, q, k) = StartOf(source, words, p, k)
  BY DEF StartOf
<1>3. /\ StartOf(source, words, p, Len(words) + 1) = p
      /\ StartOf(source, words, q, Len(words) + 1) = q
  BY DEF StartOf
<1>4. ASSUME NEW k \in 1 .. Len(words) PROVE WordInPlace(source, words, q, k)
  <2>1. WordInPlace(source, words, p, k)
    BY <1>1
  <2> DEFINE a == StartOf(source, words, p, k) + Len(words[k].v)
  <2>2. a \in Int
    BY <2>1, WordsAt
  <2>3. Blank(source, a, StartOf(source, words, p, k + 1))
    BY <2>1 DEF WordInPlace
  <2>4. CASE k = Len(words)
    <3> HIDE DEF a
    <3>1. Blank(source, a, p)
      BY <1>3, <2>3, <2>4
    <3>2. Blank(source, a, q)
      BY <2>2, <3>1, BlanksJoin
    <3>3. Blank(source, a, StartOf(source, words, q, k + 1))
      BY <1>3, <2>4, <3>2
    <3> QED
      BY <1>2, <2>1, <3>3 DEF WordInPlace, a
  <2>5. CASE k # Len(words)
    <3>1. k + 1 \in 1 .. Len(words)
      BY <2>5
    <3>2. StartOf(source, words, q, k + 1) = StartOf(source, words, p, k + 1)
      BY <1>2, <3>1
    <3> QED
      BY <1>2, <2>1, <3>2 DEF WordInPlace
  <2> QED
    BY <2>4, <2>5
<1>5. Blank(source, 0, StartOf(source, words, q, 1))
  <2>1. CASE Len(words) = 0
    <3>1. Blank(source, 0, p)
      BY <1>1, <1>3, <2>1
    <3>2. Blank(source, 0, q)
      BY <3>1, BlanksJoin
    <3> QED
      BY <1>3, <2>1, <3>2
  <2>2. CASE Len(words) # 0
    <3>1. 1 \in 1 .. Len(words)
      BY <2>2
    <3> QED
      BY <1>1, <1>2, <3>1
  <2> QED
    BY <2>1, <2>2
<1> QED
  BY <1>4, <1>5, InPlaceIs

(* Taking a token. *)
LEMMA InPlaceWithOneMore ==
  ASSUME NEW source \in Seq(Characters), NEW words \in Seq(TokensOf),
         NEW t \in TokensOf, NEW p \in Nat, NEW q \in Nat, q = p + Len(t.v),
         InPlace(source, words, p), Stands(source, t, p)
  PROVE  InPlace(source, Append(words, t), q)
<1> DEFINE more == Append(words, t)
           n == Len(words) + 1
<1>1. /\ \A k \in 1 .. Len(words) : WordInPlace(source, words, p, k)
      /\ Blank(source, 0, StartOf(source, words, p, 1))
  BY InPlaceIs
<1>2. /\ Len(more) = n /\ n \in Nat /\ n = Len(words) + 1
      /\ \A k \in 1 .. Len(words) : more[k] = words[k]
      /\ more[n] = t
  BY AppendProperties
<1> HIDE DEF more, n
<1>3. Place(source, t) = p
  <2>1. p \in 0 .. Len(source) /\ t.line = LineAt(source, p) /\ t.column = ColumnAt(source, p)
    BY DEF Stands
  <2> QED
    BY <2>1, PlaceIs
<1>4. /\ \A k \in 1 .. Len(words) : StartOf(source, more, q, k) = StartOf(source, words, p, k)
      /\ StartOf(source, words, p, n) = p
      /\ StartOf(source, more, q, n) = p
      /\ StartOf(source, more, q, n + 1) = q
  BY <1>2, <1>3 DEF StartOf
<1>5. \A k \in 1 .. Len(words) + 1 :
        StartOf(source, more, q, k) = StartOf(source, words, p, k)
  BY <1>2, <1>4
<1>6. ASSUME NEW k \in 1 .. Len(words) PROVE WordInPlace(source, more, q, k)
  <2>1. WordInPlace(source, words, p, k) /\ k + 1 \in 1 .. Len(words) + 1
    BY <1>1
  <2>2. /\ StartOf(source, more, q, k) = StartOf(source, words, p, k)
        /\ StartOf(source, more, q, k + 1) = StartOf(source, words, p, k + 1)
        /\ more[k] = words[k]
    BY <1>2, <1>4, <1>5, <2>1
  <2> QED
    BY <2>1, <2>2, Zenon DEF WordInPlace
<1>7. WordInPlace(source, more, q, n)
  <2>1. Blank(source, q, q)
    BY DEF Blank
  <2> QED
    BY <1>2, <1>4, <2>1 DEF WordInPlace
<1>8. Blank(source, 0, StartOf(source, more, q, 1))
  <2>1. 1 \in 1 .. Len(words) + 1
    BY <1>2
  <2> QED
    BY <1>1, <1>5, <2>1
<1>9. \A k \in 1 .. Len(more) : WordInPlace(source, more, q, k)
  <2>1. \A k \in 1 .. Len(more) : k \in 1 .. Len(words) \/ k = n
    BY <1>2
  <2> QED
    BY <1>6, <1>7, <2>1, Zenon
<1>10. InPlace(source, more, q)
  BY <1>8, <1>9, InPlaceIs
<1> QED
  BY <1>10 DEF more

(* A new source, nothing of it taken. *)
LEMMA NothingTaken ==
  ASSUME NEW source
  PROVE  InPlace(source, << >>, 0)
<1>1. Len(<< >>) = 0 /\ StartOf(source, << >>, 0, 1) = 0
  BY DEF StartOf
<1>2. Blank(source, 0, 0)
  BY DEF Blank
<1> QED
  BY <1>1, <1>2, InPlaceIs

(* The state of a lexer that starts. *)
LEMMA StartInPlace ==
  ASSUME NEW source, Tokenize(source)
  PROVE  TokensInPlace'
<1>1. /\ input' = source /\ pos' = 0 /\ line' = 1 /\ column' = 1
      /\ tokens' = << >>
  BY DEF Tokenize
<1>2. line' = LineAt(input', pos') /\ column' = ColumnAt(input', pos')
  BY <1>1, FirstPosition
<1>3. InPlace(input', tokens', pos')
  BY <1>1, NothingTaken
<1> QED
  BY <1>2, <1>3 DEF TokensInPlace

(* A newline and a space. *)
LEMMA BlankInPlace ==
  ASSUME ReaderInv, TokensInPlace, Newline \/ Space
  PROVE  TokensInPlace'
<1>1. /\ lexing /\ pos' = pos + 1 /\ UNCHANGED <<input, tokens>>
      /\ \/ ch = "\n" /\ line' = line + 1 /\ column' = 1
         \/ ch \in Spaces /\ line' = line /\ column' = column + 1
  BY DEF Newline, Space, Lexing
<1>2. /\ line = LineAt(input, pos) /\ column = ColumnAt(input, pos)
      /\ InPlace(input, tokens, pos)
  BY <1>1 DEF TokensInPlace
<1>3. ch = input[pos + 1]
  BY DEF ch, At
<1>4. line' = LineAt(input, pos + 1) /\ column' = ColumnAt(input, pos + 1)
  <2>1. CASE ch = "\n" /\ line' = line + 1 /\ column' = 1
    BY <1>2, <1>3, <2>1, Positions, AfterNewline
  <2>2. CASE ch \in Spaces /\ line' = line /\ column' = column + 1
    <3>1. ch # "\n"
      BY <2>2 DEF Spaces
    <3>2. \A k \in pos .. pos + 1 - 1 : input[k + 1] # "\n"
      BY <1>3, <3>1, Positions
    <3>3. pos \in Nat /\ pos + 1 \in Nat /\ pos <= pos + 1
      BY Positions
    <3>4. /\ LineAt(input, pos + 1) = LineAt(input, pos)
          /\ ColumnAt(input, pos + 1) = ColumnAt(input, pos) + (pos + 1 - pos)
      BY <3>2, <3>3, SameLine
    <3>5. pos + 1 - pos = 1
      BY Positions
    <3> QED
      BY <1>2, <2>2, <3>4, <3>5
  <2> QED
    BY <1>1, <2>1, <2>2
<1>5. Blank(input, pos, pos + 1)
  BY <1>1, <1>3, Positions DEF Blank, Blanks
<1>6. InPlace(input, tokens, pos + 1)
  BY <1>2, <1>5, Positions, InPlaceOverBlanks
<1>7. InPlace(input', tokens', pos')
  BY <1>1, <1>6
<1> QED
  BY <1>1, <1>4, <1>7 DEF TokensInPlace

(* The token that is taken stands where the lexer is. *)
LEMMA TakesInPlace ==
  ASSUME ReaderInv, TokensInPlace, NEW type, NEW end, TakesToken(type, end)
  PROVE  TokensInPlace'
<1>1. PICK t : t = [type |-> type, v |-> SubSeq(input, pos + 1, end),
                    line |-> line, column |-> column]
  BY Zenon
<1>2. t \in TokensOf /\ end = pos + Len(t.v) /\ Stands(input, t, pos)
  <2>1. /\ type \in TokenType /\ end \in pos + 1 .. length /\ Longest(type, end)
        /\ line = LineAt(input, pos) /\ column = ColumnAt(input, pos)
    BY DEF TakesToken, TokensInPlace
  <2>2. end \in pos .. length /\ pos \in 0 .. Len(input) - 1
    BY <2>1, Positions
  <2>3. /\ t.v = SubSeq(input, pos + 1, end)
        /\ t.v \in Seq(Characters) /\ Len(t.v) = end - pos
        /\ t.type = type /\ t.line = line /\ t.column = column
    BY <1>1, <2>2, PieceOfInput
  <2>4. t \in TokensOf
    BY <1>1, <2>1, <2>3, Positions DEF TokensOf
  <2>5. end = pos + Len(t.v) /\ t.v # << >>
    <3>1. pos \in Nat /\ length \in Nat /\ Len(t.v) = end - pos
      BY <2>3, Positions
    <3>2. end = pos + Len(t.v) /\ Len(t.v) # 0
      BY <2>1, <3>1
    <3>3. Len(<< >>) = 0
      OBVIOUS
    <3> QED
      BY <3>2, <3>3, Zenon
  <2>6. /\ t.type \in {"ASSIGN", "BANG"} => input[end + 1] # "="
        /\ t.type = "INT" => ~ IsDigit(input[end + 1])
        /\ IsIdentifierStart(input[pos + 1]) => ~ IsIdentifierChar(input[end + 1])
    BY <2>1, <2>3 DEF Longest, At, ch
  <2>7. Stands(input, t, pos)
    BY <2>1, <2>2, <2>3, <2>5, <2>6, Zenon DEF Stands
  <2> QED
    BY <2>4, <2>5, <2>7, Zenon
<1>3. /\ tokens' = Append(tokens, t) /\ pos' = end /\ input' = input
      /\ line' = line /\ column' = column + (end - pos)
      /\ lexing /\ end \in pos + 1 .. length
      /\ \A k \in pos .. end - 1 : input[k + 1] \notin Blanks
  BY <1>1 DEF TakesToken, At
<1>4. /\ line = LineAt(input, pos) /\ column = ColumnAt(input, pos)
      /\ InPlace(input, tokens, pos)
  BY <1>3 DEF TokensInPlace
<1>5. InPlace(input, Append(tokens, t), end)
  <2>1. end \in Nat
    BY <1>3, Positions
  <2> QED
    BY <1>2, <1>4, <2>1, Positions, InPlaceWithOneMore
<1>6. LineAt(input, end) = line /\ ColumnAt(input, end) = column + (end - pos)
  <2>1. \A k \in pos .. end - 1 : input[k + 1] # "\n"
    BY <1>3 DEF Blanks
  <2>2. pos \in Nat /\ end \in Nat /\ pos <= end
    BY <1>3, Positions
  <2> QED
    BY <1>4, <2>1, <2>2, SameLine
<1>7. InPlace(input', tokens', pos')
  BY <1>3, <1>5
<1> QED
  BY <1>3, <1>6, <1>7 DEF TokensInPlace

(* The token END. *)
LEMMA FinishInPlace ==
  ASSUME ReaderInv, TokensInPlace, Finish, Room
  PROVE  TokensInPlace'
<1>1. /\ lexing /\ ~ lexing' /\ pos = length
      /\ tokens' = Append(tokens, EndToken)
      /\ UNCHANGED <<input, length, pos, line, column>>
  BY Positions DEF Finish, NewToken, EndToken
<1>2. EndToken' = EndToken
  BY <1>1 DEF EndToken
<1>3. Last(tokens') = EndToken /\ Front(tokens') = tokens /\ tokens' # << >>
  <2>1. PICK e : e = EndToken
    BY Zenon
  <2>2. \A k \in 1 .. Len(tokens) : tokens[k] \in TokensOf
    BY Positions
  <2>3. tokens' = Append(tokens, e)
    BY <1>1, <2>1
  <2>4. Len(tokens') = Len(tokens) + 1 /\ tokens'[Len(tokens) + 1] = e
    BY <2>3, Positions
  <2>5. SubSeq(tokens', 1, Len(tokens)) = tokens
    BY <2>3, Positions
  <2> QED
    BY <2>1, <2>3, <2>4, <2>5, Positions DEF Last, Front
<1>4. line = LineAt(input, pos) /\ column = ColumnAt(input, pos) /\ InPlace(input, tokens, pos)
  BY <1>1 DEF TokensInPlace
<1> QED
  BY <1>1, <1>2, <1>3, <1>4 DEF TokensInPlace

(* A panic leaves what was taken. *)
LEMMA PanicInPlace ==
  ASSUME TokensInPlace, NEW why, Panic(why)
  PROVE  TokensInPlace'
BY DEF TokensInPlace, Panic, EndToken

(* TokensInPlace holds at the start. *)
LEMMA InitInPlace == ReaderInit => TokensInPlace
<1> SUFFICES ASSUME ReaderInit PROVE TokensInPlace
  OBVIOUS
<1>1. pos = 0 /\ line = 1 /\ column = 1 /\ tokens = << >>
  BY DEF ReaderInit
<1> QED
  BY <1>1, FirstPosition, NothingTaken DEF TokensInPlace

(* Every step keeps it. *)
LEMMA NextInPlace ==
  ASSUME ReaderInv, TokensInPlace, [ReaderNext]_readerVars
  PROVE  TokensInPlace'
<1>1. CASE ReadFile
  <2>1. CASE Len(text) > MaxSourceBytes
    BY <1>1, <2>1, PanicInPlace DEF ReadFile
  <2>2. CASE ~ (Len(text) > MaxSourceBytes)
    <3>1. PICK source : source = Append(text, NUL)
      BY Zenon
    <3>2. Tokenize(source)
      BY <1>1, <2>2, <3>1 DEF ReadFile
    <3> QED
      BY <3>2, StartInPlace
  <2> QED
    BY <2>1, <2>2
<1>2. CASE ReadLine
  <2>1. PICK source : source = WithoutNewline(Append(SubSeq(unread, 1, Fgets), NUL))
    BY Zenon
  <2>2. Tokenize(source)
    BY <1>2, <2>1, Zenon DEF ReadLine
  <2> QED
    BY <2>2, StartInPlace
<1>3. CASE Lex
  <2>1. LexStep
    BY <1>3 DEF Lex
  <2>2. CASE Newline \/ Space
    BY <2>2, BlankInPlace
  <2>3. CASE \E type, end : TakesToken(type, end)
    BY <2>3, TakesInPlace
  <2>4. CASE Finish /\ Room
    BY <2>4, FinishInPlace
  <2>5. CASE \E why : Panic(why) /\ why # "none"
    BY <2>5, PanicInPlace
  <2> QED
    BY <2>1, <2>2, <2>3, <2>4, <2>5, TurnsOfLoop
<1>4. CASE UNCHANGED readerVars
  BY <1>4 DEF readerVars, lexerVars, TokensInPlace, EndToken
<1> QED
  BY <1>1, <1>2, <1>3, <1>4 DEF ReaderNext

(* Line and column are those of the position at every turn of the lexer's loop,
   and the tokens stand in the source one after the other at the places they
   name, with only blanks between, each as long as it can be. *)
THEOREM TokensAlwaysInPlace == ReaderSpec => []TokensInPlace
<1>1. ReaderInit => ReaderInv /\ TokensInPlace
  BY InitReaderInv, InitInPlace
<1>2. ReaderInv /\ TokensInPlace /\ [ReaderNext]_readerVars => (ReaderInv /\ TokensInPlace)'
  BY NextReaderInv, NextInPlace
<1> QED
  BY <1>1, <1>2, PTL DEF ReaderSpec

-----------------------------------------------------------------------------
(* Flattening: FlattenSeq is the last value of a recursive function, which is
   built here from its beginnings. *)

Joins(ss, n, f) ==
  \A i \in 1 .. n : f[i] = IF i = 1 THEN ss[i] ELSE f[i - 1] \o ss[i]

Beginnings(S, ss, n, f) == f \in [1 .. n -> Seq(S)] /\ Joins(ss, n, f)

(* Up to every n there are beginnings. *)
LEMMA BeginningsExist ==
  ASSUME NEW S, NEW ss \in Seq(Seq(S)), NEW n \in 0 .. Len(ss)
  PROVE  \E f : Beginnings(S, ss, n, f)
<1> DEFINE T == {k \in 0 .. Len(ss) : ~ \E f : Beginnings(S, ss, k, f)}
<1>1. SUFFICES ASSUME n \in T PROVE FALSE
  OBVIOUS
<1>2. T \in SUBSET Nat /\ T # {}
  BY <1>1
<1>3. PICK k \in T : \A j \in T : k <= j
  BY <1>2, Least, Zenon
<1>4. k \in 0 .. Len(ss) /\ ~ \E f : Beginnings(S, ss, k, f)
  OBVIOUS
<1>5. CASE k = 0
  <2> DEFINE f == [i \in 1 .. 0 |-> << >>]
  <2>1. Beginnings(S, ss, k, f)
    BY <1>5 DEF Beginnings, Joins
  <2> QED
    BY <1>4, <2>1, Zenon
<1>6. CASE k # 0
  <2>1. k - 1 \in 0 .. Len(ss) /\ ~ (k <= k - 1)
    BY <1>4, <1>6
  <2>2. k - 1 \notin T
    BY <1>3, <2>1, Zenon
  <2>3. PICK g : Beginnings(S, ss, k - 1, g)
    BY <2>1, <2>2
  <2> HIDE DEF T
  <2>4. g \in [1 .. k - 1 -> Seq(S)]
    BY <2>3 DEF Beginnings, Joins
  <2> DEFINE new == IF k = 1 THEN ss[k] ELSE g[k - 1] \o ss[k]
             f == [i \in 1 .. k |-> IF i = k THEN new ELSE g[i]]
  <2>5. ss[k] \in Seq(S)
    BY <1>4, <1>6, ElementOfSeq
  <2>6. new \in Seq(S)
    <3>1. CASE k = 1
      BY <2>5, <3>1
    <3>2. CASE k # 1
      <4>1. k - 1 \in 1 .. k - 1
        BY <1>4, <1>6, <3>2
      <4>2. g[k - 1] \in Seq(S)
        BY <2>4, <4>1
      <4> QED
        BY <2>5, <3>2, <4>2, ConcatProperties
    <3> QED
      BY <3>1, <3>2
  <2> HIDE DEF new
  <2>7. f \in [1 .. k -> Seq(S)]
    BY <1>4, <2>4, <2>6
  <2>8. ASSUME NEW i \in 1 .. k
        PROVE  f[i] = IF i = 1 THEN ss[i] ELSE f[i - 1] \o ss[i]
    <3>1. CASE i = k
      <4>1. f[i] = new
        BY <3>1
      <4>2. CASE k = 1
        BY <3>1, <4>1, <4>2 DEF new
      <4>3. CASE k # 1
        <5>1. f[i - 1] = g[k - 1]
          BY <1>4, <1>6, <3>1, <4>3
        <5> QED
          BY <3>1, <4>1, <4>3, <5>1 DEF new
      <4> QED
        BY <4>2, <4>3
    <3>2. CASE i # k
      <4>1. f[i] = g[i] /\ i \in 1 .. k - 1
        BY <1>4, <3>2
      <4>2. g[i] = IF i = 1 THEN ss[i] ELSE g[i - 1] \o ss[i]
        BY <2>3, <4>1 DEF Beginnings, Joins
      <4>3. i # 1 => f[i - 1] = g[i - 1]
        BY <1>4, <4>1
      <4> QED
        BY <4>1, <4>2, <4>3
    <3> QED
      BY <3>1, <3>2
  <2> HIDE DEF f
  <2>9. Beginnings(S, ss, k, f)
    BY <2>7, <2>8 DEF Beginnings, Joins
  <2> QED
    BY <1>4, <2>9, Zenon
<1> QED
  BY <1>5, <1>6

(* Two functions that satisfy the equations are the same. *)
LEMMA BeginningsUnique ==
  ASSUME NEW ss, NEW n \in Nat, NEW f, NEW g,
         Joins(ss, n, f), Joins(ss, n, g)
  PROVE  \A i \in 1 .. n : f[i] = g[i]
<1> DEFINE T == {i \in 1 .. n : f[i] # g[i]}
<1>1. SUFFICES ASSUME T # {} PROVE FALSE
  OBVIOUS
<1>2. T \in SUBSET Nat
  OBVIOUS
<1>3. PICK k \in T : \A j \in T : k <= j
  BY <1>1, <1>2, Least, Zenon
<1>4. k \in 1 .. n /\ f[k] # g[k]
  OBVIOUS
<1>5. CASE k = 1
  BY <1>4, <1>5 DEF Joins
<1>6. CASE k # 1
  <2>1. k - 1 \in 1 .. n /\ ~ (k <= k - 1)
    BY <1>4, <1>6
  <2>2. f[k - 1] = g[k - 1]
    BY <1>3, <2>1, Zenon
  <2>3. f[k] = f[k - 1] \o ss[k] /\ g[k] = g[k - 1] \o ss[k]
    BY <1>4, <1>6 DEF Joins
  <2> QED
    BY <1>4, <2>2, <2>3, Zenon
<1> QED
  BY <1>5, <1>6

Flat(ss, f) ==
  f = [i \in 1 .. Len(ss) |-> IF i = 1 THEN ss[i] ELSE f[i - 1] \o ss[i]]

(* FlattenSeq is the last of the beginnings. *)
LEMMA FlattenIs ==
  ASSUME NEW S, NEW ss \in Seq(Seq(S)), Len(ss) # 0, NEW f, Beginnings(S, ss, Len(ss), f)
  PROVE  FlattenSeq(ss) = f[Len(ss)]
<1>1. Len(ss) \in Nat
  OBVIOUS
<1>2. /\ f \in [1 .. Len(ss) -> Seq(S)]
      /\ \A i \in 1 .. Len(ss) : f[i] = IF i = 1 THEN ss[i] ELSE f[i - 1] \o ss[i]
  BY DEF Beginnings, Joins
<1>3. Flat(ss, f)
  BY <1>2, Zenon DEF Flat
<1>4. ASSUME NEW g, Flat(ss, g) PROVE g = f
  <2> DEFINE e(i) == IF i = 1 THEN ss[i] ELSE g[i - 1] \o ss[i]
  <2>1. g = [i \in 1 .. Len(ss) |-> e(i)]
    BY <1>4, Zenon DEF Flat
  <2>2. \A i \in 1 .. Len(ss) : g[i] = e(i)
    BY <2>1, Zenon
  <2>3. \A i \in 1 .. Len(ss) : g[i] = f[i]
    <3>1. Joins(ss, Len(ss), g) /\ Joins(ss, Len(ss), f)
      BY <1>2, <2>2 DEF Joins
    <3> QED
      BY <1>1, <3>1, BeginningsUnique
  <2>4. f = [i \in 1 .. Len(ss) |-> f[i]] /\ g = [i \in 1 .. Len(ss) |-> g[i]]
    <3> HIDE DEF e
    <3> QED
      BY <1>2, <2>1, <2>2, Zenon
  <2> QED
    BY <2>3, <2>4, Zenon
<1>5. (CHOOSE g : Flat(ss, g)) = f
  BY <1>3, <1>4, Zenon
<1> QED
  BY <1>5, Zenon DEF FlattenSeq, Flat

(* Nothing, flattened. *)
LEMMA FlattenNothing == FlattenSeq(<< >>) = << >>
BY DEF FlattenSeq

(* A sequence of sequences flattens to a sequence. *)
LEMMA FlattenType ==
  ASSUME NEW S, NEW ss \in Seq(Seq(S))
  PROVE  FlattenSeq(ss) \in Seq(S)
<1>1. CASE Len(ss) = 0
  <2>1. ss = << >>
    BY <1>1
  <2>2. << >> \in Seq(S)
    OBVIOUS
  <2> QED
    BY <2>1, <2>2, FlattenNothing, Zenon
<1>2. CASE Len(ss) # 0
  <2>1. Len(ss) \in 0 .. Len(ss) /\ Len(ss) \in 1 .. Len(ss)
    BY <1>2
  <2>2. PICK f : Beginnings(S, ss, Len(ss), f)
    BY <2>1, BeginningsExist
  <2>3. f[Len(ss)] \in Seq(S)
    BY <2>1, <2>2 DEF Beginnings, Joins
  <2> QED
    BY <1>2, <2>2, <2>3, FlattenIs
<1> QED
  BY <1>1, <1>2

(* One sequence more comes behind. *)
LEMMA FlattenAppend ==
  ASSUME NEW S, NEW ss \in Seq(Seq(S)), NEW s \in Seq(S)
  PROVE  FlattenSeq(Append(ss, s)) = FlattenSeq(ss) \o s
<1> DEFINE more == Append(ss, s)
           n == Len(ss)
<1>1. /\ more \in Seq(Seq(S)) /\ Len(more) = n + 1 /\ n \in Nat
      /\ \A i \in 1 .. n : more[i] = ss[i]
      /\ more[n + 1] = s
  BY AppendProperties
<1> HIDE DEF more
<1>2. n + 1 \in 0 .. Len(more) /\ Len(more) # 0
  BY <1>1
<1>3. PICK f : Beginnings(S, more, n + 1, f)
  BY <1>1, <1>2, BeginningsExist
<1>4. FlattenSeq(more) = f[n + 1]
  BY <1>1, <1>2, <1>3, FlattenIs
<1>5. /\ f \in [1 .. n + 1 -> Seq(S)]
      /\ \A i \in 1 .. n + 1 : f[i] = IF i = 1 THEN more[i] ELSE f[i - 1] \o more[i]
  BY <1>3 DEF Beginnings, Joins
<1>6. n + 1 \in 1 .. n + 1 /\ n + 1 - 1 = n
  BY <1>1
<1>7. CASE n = 0
  <2>1. ss = << >>
    BY <1>7
  <2>2. n + 1 = 1
    BY <1>7
  <2>3. f[n + 1] = s
    BY <1>1, <1>5, <1>6, <2>2
  <2>4. FlattenSeq(ss) \o s = s
    BY <2>1, FlattenNothing, ConcatEmptySeq
  <2> QED
    BY <1>4, <2>3, <2>4 DEF more
<1>8. CASE n # 0
  <2> DEFINE g == [i \in 1 .. n |-> f[i]]
  <2>1. g \in [1 .. n -> Seq(S)]
    BY <1>1, <1>5
  <2>2. ASSUME NEW i \in 1 .. n PROVE g[i] = IF i = 1 THEN ss[i] ELSE g[i - 1] \o ss[i]
    <3>1. i \in 1 .. n + 1
      BY <1>1
    <3>2. f[i] = IF i = 1 THEN ss[i] ELSE f[i - 1] \o ss[i]
      BY <1>1, <1>5, <3>1
    <3>3. i # 1 => i - 1 \in 1 .. n
      BY <1>1
    <3> QED
      BY <3>2, <3>3
  <2>3. g[n] = f[n]
    BY <1>1, <1>8
  <2> HIDE DEF g
  <2>4. Beginnings(S, ss, n, g)
    BY <2>1, <2>2 DEF Beginnings, Joins
  <2>5. FlattenSeq(ss) = g[n]
    BY <1>8, <2>4, FlattenIs
  <2>6. f[n + 1] = f[n] \o s
    <3>1. PICK m : m = n + 1
      OBVIOUS
    <3>2. m \in 1 .. n + 1 /\ m # 1 /\ m - 1 = n
      BY <1>1, <1>8, <3>1
    <3>3. f[m] = IF m = 1 THEN more[m] ELSE f[m - 1] \o more[m]
      BY <1>5, <3>2, Zenon
    <3>4. f[m] = f[n] \o more[m]
      BY <3>2, <3>3, Zenon
    <3> QED
      BY <1>1, <3>1, <3>4, Zenon
  <2> QED
    BY <1>4, <2>3, <2>5, <2>6, Zenon DEF more
<1> QED
  BY <1>7, <1>8

InAnyOrder(a, b, c) == a \o (b \o c) = (a \o b) \o c

(* It does not matter which two of three sequences are joined first. *)
LEMMA JoinedInAnyOrder ==
  ASSUME NEW S, NEW a \in Seq(S), NEW b \in Seq(S), NEW c \in Seq(S)
  PROVE  InAnyOrder(a, b, c)
BY ConcatAssociative DEF InAnyOrder

(* Two sequences of sequences, one behind the other. *)
LEMMA FlattenConcat ==
  ASSUME NEW S, NEW ss \in Seq(Seq(S)), NEW tt \in Seq(Seq(S))
  PROVE  FlattenSeq(ss \o tt) = FlattenSeq(ss) \o FlattenSeq(tt)
<1> DEFINE part(k) == SubSeq(tt, 1, k)
           Same(k) == FlattenSeq(ss \o part(k)) = FlattenSeq(ss) \o FlattenSeq(part(k))
           T == {k \in 0 .. Len(tt) : ~ Same(k)}
<1>1. Len(tt) \in 0 .. Len(tt) /\ part(Len(tt)) = tt
  BY SubSeqFull
<1>2. SUFFICES ASSUME ~ Same(Len(tt)) PROVE FALSE
  BY <1>1, Zenon
<1>3. T \in SUBSET Nat /\ T # {}
  <2> HIDE DEF Same
  <2> QED
    BY <1>1, <1>2
<1>4. PICK k \in T : \A j \in T : k <= j
  BY <1>3, Least, Zenon
<1>5. k \in 0 .. Len(tt) /\ ~ Same(k)
  <2> HIDE DEF Same
  <2> QED
    OBVIOUS
<1>6. FlattenSeq(ss) \in Seq(S)
  BY FlattenType
<1>7. CASE k = 0
  <2>1. part(k) = << >>
    BY <1>7, SubSeqEmpty
  <2>2. ss \o << >> = ss /\ FlattenSeq(ss) \o << >> = FlattenSeq(ss)
    BY <1>6, ConcatEmptySeq
  <2> QED
    BY <1>5, <2>1, <2>2, FlattenNothing, Zenon
<1>8. CASE k # 0
  <2>1. /\ k - 1 \in 0 .. Len(tt) /\ ~ (k <= k - 1)
        /\ 1 \in 1 .. Len(tt) /\ k \in 1 .. Len(tt)
    BY <1>5, <1>8
  <2>2. Same(k - 1)
    <3> HIDE DEF Same
    <3> QED
      BY <1>4, <2>1
  <2> DEFINE p == part(k - 1)
  <2>3. p \in Seq(Seq(S)) /\ tt[k] \in Seq(S)
    BY <2>1
  <2>4. part(k) = Append(p, tt[k])
    <3>1. part(k) = p \o <<tt[k]>>
      BY <2>1, SubSeqRecursiveSecond
    <3> HIDE DEF p
    <3> QED
      BY <2>3, <3>1, AppendIsConcat
  <2> DEFINE q == ss \o p
  <2>5. q \in Seq(Seq(S))
    <3> HIDE DEF p
    <3> QED
      BY <2>3, ConcatProperties
  <2>6. ss \o Append(p, tt[k]) = Append(q, tt[k])
    <3> HIDE DEF p
    <3>1. Append(p, tt[k]) = p \o <<tt[k]>>
      BY <2>3, AppendIsConcat
    <3>2. <<tt[k]>> \in Seq(Seq(S))
      BY <2>3
    <3>3. ss \o (p \o <<tt[k]>>) = (ss \o p) \o <<tt[k]>>
      <4>1. InAnyOrder(ss, p, <<tt[k]>>)
        BY <2>3, <3>2, JoinedInAnyOrder, Zenon
      <4> QED
        BY <4>1, Zenon DEF InAnyOrder
    <3>4. Append(q, tt[k]) = q \o <<tt[k]>>
      BY <2>3, <2>5, AppendIsConcat
    <3> QED
      BY <3>1, <3>3, <3>4
  <2>7. FlattenSeq(q) = FlattenSeq(ss) \o FlattenSeq(p)
    BY <2>2, Zenon
  <2> HIDE DEF p, q, part
  <2>8. FlattenSeq(Append(q, tt[k])) = FlattenSeq(q) \o tt[k]
    BY <2>3, <2>5, FlattenAppend
  <2>9. FlattenSeq(Append(p, tt[k])) = FlattenSeq(p) \o tt[k]
    BY <2>3, FlattenAppend
  <2>10. FlattenSeq(p) \in Seq(S)
    BY <2>3, FlattenType
  <2>11. FlattenSeq(ss) \o (FlattenSeq(p) \o tt[k]) = (FlattenSeq(ss) \o FlattenSeq(p)) \o tt[k]
    <3>1. PICK a : a = FlattenSeq(ss)
      OBVIOUS
    <3>2. PICK b : b = FlattenSeq(p)
      OBVIOUS
    <3>3. PICK c : c = tt[k]
      OBVIOUS
    <3>4. a \in Seq(S) /\ b \in Seq(S) /\ c \in Seq(S)
      BY <1>6, <2>3, <2>10, <3>1, <3>2, <3>3
    <3>5. a \o (b \o c) = (a \o b) \o c
      <4>1. InAnyOrder(a, b, c)
        BY <3>4, JoinedInAnyOrder, Zenon
      <4> QED
        BY <4>1, Zenon DEF InAnyOrder
    <3> QED
      BY <3>1, <3>2, <3>3, <3>5, Zenon
  <2>12. FlattenSeq(ss \o part(k)) = FlattenSeq(ss) \o FlattenSeq(part(k))
    BY <2>4, <2>6, <2>7, <2>8, <2>9, <2>11, Zenon
  <2> QED
    BY <1>5, <2>12, Zenon
<1> QED
  BY <1>7, <1>8

-----------------------------------------------------------------------------
(* What is visible of a sequence of characters *)

Shown(s) == [k \in DOMAIN s |-> IF s[k] \in Blanks THEN << >> ELSE <<s[k]>>]

(* Shown has a place for each character. *)
LEMMA ShownIs ==
  ASSUME NEW s \in Seq(Characters)
  PROVE  /\ Shown(s) \in Seq(Seq(Characters))
         /\ Len(Shown(s)) = Len(s)
         /\ \A k \in 1 .. Len(s) :
              Shown(s)[k] = IF s[k] \in Blanks THEN << >> ELSE <<s[k]>>
<1> DEFINE e(k) == IF s[k] \in Blanks THEN << >> ELSE <<s[k]>>
<1>1. \A k \in 1 .. Len(s) : e(k) \in Seq(Characters)
  <2> TAKE k \in 1 .. Len(s)
  <2>1. s[k] \in Characters
    OBVIOUS
  <2> HIDE DEF Characters
  <2>2. << >> \in Seq(Characters) /\ <<s[k]>> \in Seq(Characters)
    BY <2>1
  <2> QED
    BY <2>2
<1>2. Shown(s) = [k \in 1 .. Len(s) |-> e(k)]
  BY DEF Shown
<1> HIDE DEF e
<1>3. Shown(s) \in Seq(Seq(Characters)) /\ Len(Shown(s)) = Len(s)
  BY <1>1, <1>2
<1>4. \A k \in 1 .. Len(s) : Shown(s)[k] = e(k)
  BY <1>2, Zenon
<1> QED
  BY <1>3, <1>4, Zenon DEF e

(* What is visible are characters. *)
LEMMA VisibleType ==
  ASSUME NEW s \in Seq(Characters)
  PROVE  Visible(s) \in Seq(Characters)
BY ShownIs, FlattenType DEF Visible, Shown

(* Two texts, one behind the other. *)
LEMMA VisibleConcat ==
  ASSUME NEW s \in Seq(Characters), NEW t \in Seq(Characters)
  PROVE  Visible(s \o t) = Visible(s) \o Visible(t)
<1>1. PICK w : w = s \o t
  OBVIOUS
<1>2. /\ w \in Seq(Characters)
      /\ Len(w) = Len(s) + Len(t)
      /\ \A k \in 1 .. Len(s) + Len(t) :
           w[k] = IF k <= Len(s) THEN s[k] ELSE t[k - Len(s)]
  BY <1>1, ConcatProperties
<1>3. PICK a : a = Shown(s)
  OBVIOUS
<1>4. PICK b : b = Shown(t)
  OBVIOUS
<1>5. PICK c : c = Shown(w)
  OBVIOUS
<1>6. /\ a \in Seq(Seq(Characters))
      /\ Len(a) = Len(s)
      /\ \A k \in 1 .. Len(s) : a[k] = IF s[k] \in Blanks THEN << >> ELSE <<s[k]>>
  BY <1>3, ShownIs
<1>7. /\ b \in Seq(Seq(Characters))
      /\ Len(b) = Len(t)
      /\ \A k \in 1 .. Len(t) : b[k] = IF t[k] \in Blanks THEN << >> ELSE <<t[k]>>
  BY <1>4, ShownIs
<1>8. /\ c \in Seq(Seq(Characters))
      /\ Len(c) = Len(w)
      /\ \A k \in 1 .. Len(w) : c[k] = IF w[k] \in Blanks THEN << >> ELSE <<w[k]>>
  BY <1>2, <1>5, ShownIs
<1>9. PICK d : d = a \o b
  OBVIOUS
<1>10. /\ d \in Seq(Seq(Characters))
       /\ Len(d) = Len(a) + Len(b)
       /\ \A k \in 1 .. Len(a) + Len(b) :
            d[k] = IF k <= Len(a) THEN a[k] ELSE b[k - Len(a)]
  <2>1. a \in Seq(Seq(Characters)) /\ b \in Seq(Seq(Characters))
    BY <1>6, <1>7
  <2> QED
    BY <1>9, <2>1, ConcatProperties
<1>11. ASSUME NEW k \in 1 .. Len(w) PROVE c[k] = d[k]
  <2>1. CASE k <= Len(s)
    <3>1. k \in 1 .. Len(s) /\ k \in 1 .. Len(a) + Len(b)
      BY <1>2, <1>6, <1>7, <2>1
    <3>2. w[k] = s[k] /\ d[k] = a[k]
      BY <1>2, <1>6, <1>7, <1>10, <2>1, <3>1
    <3> QED
      BY <1>6, <1>8, <3>1, <3>2, Zenon
  <2>2. CASE ~ (k <= Len(s))
    <3>1. PICK i : i = k - Len(s)
      OBVIOUS
    <3>2. i \in 1 .. Len(t) /\ k \in 1 .. Len(a) + Len(b)
      BY <1>2, <1>6, <1>7, <2>2, <3>1
    <3>3. w[k] = t[i] /\ d[k] = b[i]
      BY <1>2, <1>6, <1>7, <1>10, <2>2, <3>1, <3>2
    <3> QED
      BY <1>7, <1>8, <3>2, <3>3, Zenon
  <2> QED
    BY <2>1, <2>2
<1>12. c = d
  BY <1>2, <1>6, <1>7, <1>8, <1>10, <1>11, SeqEqual
<1>13. FlattenSeq(d) = FlattenSeq(a) \o FlattenSeq(b)
  BY <1>6, <1>7, <1>9, FlattenConcat
<1>14. Visible(w) = FlattenSeq(c) /\ Visible(s) = FlattenSeq(a) /\ Visible(t) = FlattenSeq(b)
  BY <1>3, <1>4, <1>5, Zenon DEF Visible, Shown
<1> QED
  BY <1>1, <1>12, <1>13, <1>14, Zenon

(* Nothing to be seen of nothing. *)
LEMMA VisibleNothing == Visible(<< >>) = << >>
<1>1. << >> \in Seq(Characters) /\ Len(<< >>) = 0
  OBVIOUS
<1>2. PICK a : a = Shown(<< >>)
  OBVIOUS
<1>3. a \in Seq(Seq(Characters)) /\ Len(a) = 0
  BY <1>1, <1>2, ShownIs, Zenon
<1>4. a = << >>
  BY <1>3
<1> QED
  BY <1>2, <1>4, FlattenNothing, Zenon DEF Visible, Shown

(* One character. *)
LEMMA VisibleOne ==
  ASSUME NEW c \in Characters
  PROVE  Visible(<<c>>) = IF c \in Blanks THEN << >> ELSE <<c>>
<1>1. PICK s : s = <<c>>
  OBVIOUS
<1>2. s \in Seq(Characters) /\ Len(s) = 1 /\ s[1] = c
  BY <1>1
<1>3. PICK e : e = IF c \in Blanks THEN << >> ELSE <<c>>
  OBVIOUS
<1>4. PICK a : a = Shown(s)
  OBVIOUS
<1>5. a \in Seq(Seq(Characters)) /\ Len(a) = 1
  BY <1>2, <1>4, ShownIs
<1>6. a[1] = e
  <2>1. 1 \in 1 .. Len(s)
    BY <1>2
  <2> QED
    BY <1>2, <1>3, <1>4, <2>1, ShownIs, Zenon
<1>7. e \in Seq(Characters)
  <2>1. 1 \in 1 .. Len(a)
    BY <1>5
  <2>2. a[1] \in Seq(Characters)
    BY <1>5, <2>1, ElementOfSeq
  <2> QED
    BY <1>6, <2>2, Zenon
<1>8. << >> \in Seq(Seq(Characters))
  OBVIOUS
<1>9. a = Append(<< >>, e)
  BY <1>5, <1>6, <1>7
<1>10. FlattenSeq(a) = FlattenSeq(<< >>) \o e
  BY <1>7, <1>8, <1>9, FlattenAppend
<1>11. FlattenSeq(a) = e
  BY <1>7, <1>10, FlattenNothing, ConcatEmptySeq
<1> QED
  BY <1>1, <1>3, <1>4, <1>11, Zenon DEF Visible, Shown

(* All of a sequence without blanks is visible. *)
LEMMA VisibleWord ==
  ASSUME NEW s \in Seq(Characters), \A k \in 1 .. Len(s) : s[k] \notin Blanks
  PROVE  Visible(s) = s
<1> DEFINE Same(k) == Visible(SubSeq(s, 1, k)) = SubSeq(s, 1, k)
           T == {k \in 0 .. Len(s) : ~ Same(k)}
<1>1. SubSeq(s, 1, Len(s)) = s /\ Len(s) \in 0 .. Len(s)
  BY SubSeqFull
<1>2. SUFFICES ASSUME ~ Same(Len(s)) PROVE FALSE
  BY <1>1, Zenon
<1>3. T \in SUBSET Nat /\ T # {}
  <2> HIDE DEF Same
  <2> QED
    BY <1>1, <1>2
<1>4. PICK k \in T : \A j \in T : k <= j
  BY <1>3, Least, Zenon
<1>5. k \in 0 .. Len(s) /\ ~ Same(k)
  <2> HIDE DEF Same
  <2> QED
    OBVIOUS
<1>6. CASE k = 0
  <2>1. SubSeq(s, 1, k) = << >>
    BY <1>6, SubSeqEmpty
  <2> QED
    BY <1>5, <2>1, VisibleNothing, Zenon
<1>7. CASE k # 0
  <2>1. k - 1 \in 0 .. Len(s) /\ ~ (k <= k - 1) /\ k \in 1 .. Len(s) /\ 1 \in 1 .. Len(s)
    BY <1>5, <1>7
  <2>2. Same(k - 1)
    <3> HIDE DEF Same
    <3> QED
      BY <1>4, <2>1
  <2>3. PICK p : p = SubSeq(s, 1, k - 1)
    OBVIOUS
  <2>4. p \in Seq(Characters) /\ <<s[k]>> \in Seq(Characters) /\ s[k] \in Characters
    <3>1. s[k] \in Characters
      BY <2>1
    <3>2. p \in Seq(Characters)
      BY <2>1, <2>3
    <3> QED
      BY <3>1, <3>2
  <2>5. SubSeq(s, 1, k) = p \o <<s[k]>>
    BY <2>1, <2>3, SubSeqRecursiveSecond
  <2>6. Visible(p) = p
    BY <2>2, <2>3, Zenon
  <2>7. Visible(<<s[k]>>) = <<s[k]>>
    BY <2>1, <2>4, VisibleOne
  <2>8. Visible(p \o <<s[k]>>) = Visible(p) \o Visible(<<s[k]>>)
    BY <2>4, VisibleConcat
  <2> QED
    BY <1>5, <2>5, <2>6, <2>7, <2>8, Zenon
<1> QED
  BY <1>6, <1>7

-----------------------------------------------------------------------------
(* The text of tokens *)

Written(ts) == [k \in DOMAIN ts |-> ts[k].v]

(* Written has the text of each token. *)
LEMMA WrittenIs ==
  ASSUME NEW ts \in Seq(TokensOf)
  PROVE  /\ Written(ts) \in Seq(Seq(Characters))
         /\ Len(Written(ts)) = Len(ts)
         /\ \A k \in 1 .. Len(ts) : Written(ts)[k] = ts[k].v
<1> DEFINE e(k) == ts[k].v
<1>1. \A k \in 1 .. Len(ts) : e(k) \in Seq(Characters)
  <2> TAKE k \in 1 .. Len(ts)
  <2>1. ts[k] \in TokensOf
    OBVIOUS
  <2> QED
    BY <2>1 DEF TokensOf
<1>2. Written(ts) = [k \in 1 .. Len(ts) |-> e(k)]
  BY DEF Written
<1> HIDE DEF e
<1>3. Written(ts) \in Seq(Seq(Characters)) /\ Len(Written(ts)) = Len(ts)
  BY <1>1, <1>2
<1>4. \A k \in 1 .. Len(ts) : Written(ts)[k] = e(k)
  BY <1>2, Zenon
<1> QED
  BY <1>3, <1>4, Zenon DEF e

(* The text is made of characters. *)
LEMMA TextType ==
  ASSUME NEW ts \in Seq(TokensOf)
  PROVE  TextOf(ts) \in Seq(Characters)
BY WrittenIs, FlattenType DEF TextOf, Written

(* The text of no token. *)
LEMMA TextOfNothing == TextOf(<< >>) = << >>
<1>1. << >> \in Seq(TokensOf) /\ Len(<< >>) = 0
  OBVIOUS
<1>2. PICK a : a = Written(<< >>)
  OBVIOUS
<1>3. a \in Seq(Seq(Characters)) /\ Len(a) = 0
  BY <1>1, <1>2, WrittenIs, Zenon
<1>4. a = << >>
  BY <1>3
<1> QED
  BY <1>2, <1>4, FlattenNothing, Zenon DEF TextOf, Written

(* One token more. *)
LEMMA TextOfOneMore ==
  ASSUME NEW ts \in Seq(TokensOf), NEW t \in TokensOf
  PROVE  TextOf(Append(ts, t)) = TextOf(ts) \o t.v
<1>1. PICK more : more = Append(ts, t)
  OBVIOUS
<1>2. /\ more \in Seq(TokensOf) /\ Len(more) = Len(ts) + 1
      /\ \A k \in 1 .. Len(ts) : more[k] = ts[k]
      /\ more[Len(ts) + 1] = t
  BY <1>1, AppendProperties
<1>3. PICK a : a = Written(ts)
  OBVIOUS
<1>4. PICK b : b = Written(more)
  OBVIOUS
<1>5. /\ a \in Seq(Seq(Characters)) /\ Len(a) = Len(ts)
      /\ \A k \in 1 .. Len(ts) : a[k] = ts[k].v
  BY <1>3, WrittenIs
<1>6. /\ b \in Seq(Seq(Characters)) /\ Len(b) = Len(more)
      /\ \A k \in 1 .. Len(more) : b[k] = more[k].v
  BY <1>2, <1>4, WrittenIs
<1>7. PICK v : v = t.v
  OBVIOUS
<1>8. v \in Seq(Characters)
  BY <1>7 DEF TokensOf
<1>9. PICK c : c = Append(a, v)
  OBVIOUS
<1>10. /\ c \in Seq(Seq(Characters)) /\ Len(c) = Len(a) + 1
       /\ \A k \in 1 .. Len(a) : c[k] = a[k]
       /\ c[Len(a) + 1] = v
  BY <1>5, <1>8, <1>9, AppendProperties
<1>11. ASSUME NEW k \in 1 .. Len(b) PROVE b[k] = c[k]
  <2>1. CASE k \in 1 .. Len(ts)
    <3>1. c[k] = ts[k].v
      BY <1>5, <1>10, <2>1
    <3>2. more[k] = ts[k] /\ b[k] = more[k].v
      BY <1>2, <1>6, <2>1
    <3> QED
      BY <3>1, <3>2, Zenon
  <2>2. CASE k \notin 1 .. Len(ts)
    <3>1. k = Len(ts) + 1
      BY <1>2, <1>6, <2>2
    <3>2. b[k] = more[k].v /\ more[k] = t /\ c[k] = v
      BY <1>2, <1>5, <1>6, <1>10, <3>1
    <3> QED
      BY <1>7, <3>2, Zenon
  <2> QED
    BY <2>1, <2>2
<1>12. b = c
  BY <1>2, <1>5, <1>6, <1>10, <1>11, SeqEqual
<1>13. FlattenSeq(c) = FlattenSeq(a) \o v
  BY <1>5, <1>8, <1>9, FlattenAppend
<1>14. TextOf(more) = FlattenSeq(b) /\ TextOf(ts) = FlattenSeq(a)
  BY <1>3, <1>4, Zenon DEF TextOf, Written
<1> QED
  BY <1>1, <1>7, <1>12, <1>13, <1>14, Zenon

Said(pieces) == [k \in DOMAIN pieces |-> TextOf(pieces[k])]

(* Said has the text of each piece. *)
LEMMA SaidIs ==
  ASSUME NEW pieces \in Seq(Seq(TokensOf))
  PROVE  /\ Said(pieces) \in Seq(Seq(Characters))
         /\ Len(Said(pieces)) = Len(pieces)
         /\ \A k \in 1 .. Len(pieces) : Said(pieces)[k] = TextOf(pieces[k])
<1> DEFINE e(k) == TextOf(pieces[k])
<1>1. \A k \in 1 .. Len(pieces) : e(k) \in Seq(Characters)
  <2> TAKE k \in 1 .. Len(pieces)
  <2>1. pieces[k] \in Seq(TokensOf)
    OBVIOUS
  <2> QED
    BY <2>1, TextType
<1>2. Said(pieces) = [k \in 1 .. Len(pieces) |-> e(k)]
  BY DEF Said
<1> HIDE DEF e
<1>3. Said(pieces) \in Seq(Seq(Characters)) /\ Len(Said(pieces)) = Len(pieces)
  BY <1>1, <1>2
<1>4. \A k \in 1 .. Len(pieces) : Said(pieces)[k] = e(k)
  BY <1>2, Zenon
<1> QED
  BY <1>3, <1>4, Zenon DEF e

(* The text of no piece. *)
LEMMA TextsOfNothing == TextsOf(<< >>) = << >>
<1>1. << >> \in Seq(Seq(TokensOf)) /\ Len(<< >>) = 0
  OBVIOUS
<1>2. PICK a : a = Said(<< >>)
  OBVIOUS
<1>3. a \in Seq(Seq(Characters)) /\ Len(a) = 0
  BY <1>1, <1>2, SaidIs, Zenon
<1>4. a = << >>
  BY <1>3
<1> QED
  BY <1>2, <1>4, FlattenNothing, Zenon DEF TextsOf, Said

(* The texts of pieces are characters. *)
LEMMA TextsType ==
  ASSUME NEW pieces \in Seq(Seq(TokensOf))
  PROVE  TextsOf(pieces) \in Seq(Characters)
BY SaidIs, FlattenType DEF TextsOf, Said

(* One piece more. *)
LEMMA TextsOfOneMore ==
  ASSUME NEW pieces \in Seq(Seq(TokensOf)), NEW ts \in Seq(TokensOf)
  PROVE  TextsOf(Append(pieces, ts)) = TextsOf(pieces) \o TextOf(ts)
<1>1. PICK more : more = Append(pieces, ts)
  OBVIOUS
<1>2. /\ more \in Seq(Seq(TokensOf)) /\ Len(more) = Len(pieces) + 1
      /\ \A k \in 1 .. Len(pieces) : more[k] = pieces[k]
      /\ more[Len(pieces) + 1] = ts
  BY <1>1, AppendProperties
<1>3. PICK a : a = Said(pieces)
  OBVIOUS
<1>4. PICK b : b = Said(more)
  OBVIOUS
<1>5. /\ a \in Seq(Seq(Characters)) /\ Len(a) = Len(pieces)
      /\ \A k \in 1 .. Len(pieces) : a[k] = TextOf(pieces[k])
  BY <1>3, SaidIs
<1>6. /\ b \in Seq(Seq(Characters)) /\ Len(b) = Len(more)
      /\ \A k \in 1 .. Len(more) : b[k] = TextOf(more[k])
  BY <1>2, <1>4, SaidIs
<1>7. PICK v : v = TextOf(ts)
  OBVIOUS
<1>8. v \in Seq(Characters)
  BY <1>7, TextType
<1>9. PICK c : c = Append(a, v)
  OBVIOUS
<1>10. /\ c \in Seq(Seq(Characters)) /\ Len(c) = Len(a) + 1
       /\ \A k \in 1 .. Len(a) : c[k] = a[k]
       /\ c[Len(a) + 1] = v
  BY <1>5, <1>8, <1>9, AppendProperties
<1>11. ASSUME NEW k \in 1 .. Len(b) PROVE b[k] = c[k]
  <2>1. CASE k \in 1 .. Len(pieces)
    <3>1. c[k] = TextOf(pieces[k])
      BY <1>5, <1>10, <2>1
    <3>2. more[k] = pieces[k] /\ b[k] = TextOf(more[k])
      BY <1>2, <1>6, <2>1
    <3> QED
      BY <3>1, <3>2, Zenon
  <2>2. CASE k \notin 1 .. Len(pieces)
    <3>1. k = Len(pieces) + 1
      BY <1>2, <1>6, <2>2
    <3>2. b[k] = TextOf(more[k]) /\ more[k] = ts /\ c[k] = v
      BY <1>2, <1>5, <1>6, <1>10, <3>1
    <3> QED
      BY <1>7, <3>2, Zenon
  <2> QED
    BY <2>1, <2>2
<1>12. b = c
  BY <1>2, <1>5, <1>6, <1>10, <1>11, SeqEqual
<1>13. FlattenSeq(c) = FlattenSeq(a) \o v
  BY <1>5, <1>8, <1>9, FlattenAppend
<1>14. TextsOf(more) = FlattenSeq(b) /\ TextsOf(pieces) = FlattenSeq(a)
  BY <1>3, <1>4, Zenon DEF TextsOf, Said
<1> QED
  BY <1>1, <1>7, <1>12, <1>13, <1>14, Zenon

-----------------------------------------------------------------------------
(* What is left of the source while it is lexed *)

Remaining == SubSeq(input, pos + 1, length)

(* A sequence cut in two. *)
LEMMA CutInTwo ==
  ASSUME NEW s \in Seq(Characters), NEW i \in Nat, NEW j \in Nat, NEW k \in Nat,
         i <= j, j <= k, k <= Len(s)
  PROVE  /\ SubSeq(s, i + 1, j) \in Seq(Characters)
         /\ SubSeq(s, j + 1, k) \in Seq(Characters)
         /\ SubSeq(s, i + 1, k) = SubSeq(s, i + 1, j) \o SubSeq(s, j + 1, k)
<1>1. /\ \A n \in i + 1 .. j : s[n] \in Characters
      /\ \A n \in j + 1 .. k : s[n] \in Characters
  OBVIOUS
<1>2. i + 1 \in Int /\ j + 1 \in Int /\ j \in Int /\ k \in Int
  OBVIOUS
<1>3. SubSeq(s, i + 1, j) \in Seq(Characters) /\ SubSeq(s, j + 1, k) \in Seq(Characters)
  BY <1>1, <1>2, SubSeqProperties
<1>4. i + 1 \in 1 .. Len(s) + 1 /\ j \in i + 1 - 1 .. Len(s) /\ k \in j .. Len(s)
  OBVIOUS
<1>5. SubSeq(s, i + 1, j) \o SubSeq(s, j + 1, k) = SubSeq(s, i + 1, k)
  BY <1>4, ConcatAdjacentSubSeq
<1> QED
  BY <1>3, <1>5

(* What is visible of it. *)
LEMMA VisibleInTwo ==
  ASSUME NEW s \in Seq(Characters), NEW i \in Nat, NEW j \in Nat, NEW k \in Nat,
         i <= j, j <= k, k <= Len(s)
  PROVE  Visible(SubSeq(s, i + 1, k)) =
           Visible(SubSeq(s, i + 1, j)) \o Visible(SubSeq(s, j + 1, k))
<1>1. PICK a : a = SubSeq(s, i + 1, j)
  OBVIOUS
<1>2. PICK b : b = SubSeq(s, j + 1, k)
  OBVIOUS
<1>3. a \in Seq(Characters) /\ b \in Seq(Characters) /\ SubSeq(s, i + 1, k) = a \o b
  BY <1>1, <1>2, CutInTwo
<1>4. Visible(a \o b) = Visible(a) \o Visible(b)
  BY <1>3, VisibleConcat
<1> QED
  BY <1>1, <1>2, <1>3, <1>4, Zenon

(* A blank of a sequence is not seen. *)
LEMMA BlankUnseen ==
  ASSUME NEW s \in Seq(Characters), NEW i \in Nat, NEW k \in Nat,
         i < k, k <= Len(s), s[i + 1] \in Blanks
  PROVE  Visible(SubSeq(s, i + 1, k)) = Visible(SubSeq(s, i + 2, k))
<1>1. PICK j : j = i + 1
  OBVIOUS
<1>2. /\ j \in Nat /\ i <= j /\ j <= k /\ j \in 1 .. Len(s) /\ j + 1 = i + 2
      /\ s[j] \in Blanks
  BY <1>1
<1>3. Visible(SubSeq(s, i + 1, k)) =
        Visible(SubSeq(s, i + 1, j)) \o Visible(SubSeq(s, j + 1, k))
  BY <1>2, VisibleInTwo
<1>4. SubSeq(s, j, j) = <<s[j]>> /\ s[j] \in Characters
  <2>1. s[j] \in Characters
    BY <1>2
  <2> QED
    BY <1>2, <2>1, ShortPieces
<1>5. Visible(SubSeq(s, i + 1, j)) = << >>
  BY <1>1, <1>2, <1>4, VisibleOne, Zenon
<1>6. PICK b : b = SubSeq(s, j + 1, k)
  OBVIOUS
<1>7. Visible(b) \in Seq(Characters)
  <2>1. b \in Seq(Characters)
    BY <1>2, <1>6, CutInTwo
  <2> QED
    BY <2>1, VisibleType
<1>8. << >> \o Visible(b) = Visible(b)
  BY <1>7, ConcatEmptySeq
<1> QED
  BY <1>2, <1>3, <1>5, <1>6, <1>8, Zenon

(* A stretch without blanks is seen as it is. *)
LEMMA WordSeen ==
  ASSUME NEW s \in Seq(Characters), NEW i \in Nat, NEW j \in Nat,
         i <= j, j <= Len(s), \A n \in i .. j - 1 : s[n + 1] \notin Blanks
  PROVE  Visible(SubSeq(s, i + 1, j)) = SubSeq(s, i + 1, j)
<1>1. PICK a : a = SubSeq(s, i + 1, j)
  OBVIOUS
<1>2. \A n \in i + 1 .. j : s[n] \in Characters
  OBVIOUS
<1>3. i + 1 \in Int /\ j \in Int
  OBVIOUS
<1>4. /\ a \in Seq(Characters)
      /\ Len(a) = IF i + 1 <= j THEN j - (i + 1) + 1 ELSE 0
      /\ \A n \in 1 .. j - (i + 1) + 1 : a[n] = s[i + 1 + n - 1]
  BY <1>1, <1>2, <1>3, SubSeqProperties
<1>5. ASSUME NEW n \in 1 .. Len(a) PROVE a[n] \notin Blanks
  <2>1. PICK m : m = i + n - 1
    OBVIOUS
  <2>2. m \in i .. j - 1 /\ n \in 1 .. j - (i + 1) + 1 /\ m + 1 = i + 1 + n - 1
    BY <1>4, <2>1
  <2>3. a[n] = s[m + 1]
    BY <1>4, <2>2
  <2> QED
    BY <2>2, <2>3
<1>6. Visible(a) = a
  BY <1>4, <1>5, VisibleWord
<1> QED
  BY <1>1, <1>6, Zenon

(* The text of the tokens, and what is left to lex. *)
Taken == IF lexing THEN TextOf(tokens) \o Visible(Remaining) ELSE << >>

(* What is left are characters. *)
LEMMA RemainingType ==
  ASSUME ReaderInv
  PROVE  /\ Remaining \in Seq(Characters)
         /\ Visible(Remaining) \in Seq(Characters)
         /\ TextOf(tokens) \in Seq(Characters)
         /\ Taken \in Seq(Characters)
<1>1. length \in pos .. length
  BY Positions
<1>2. PICK r : r = Remaining
  BY Zenon
<1>3. r \in Seq(Characters)
  BY <1>1, <1>2, PieceOfInput DEF Remaining
<1>4. Visible(r) \in Seq(Characters)
  BY <1>3, VisibleType
<1>5. PICK w : w = TextOf(tokens)
  BY Zenon
<1>6. w \in Seq(Characters)
  BY <1>5, Positions, TextType
<1>7. Taken = IF lexing THEN w \o Visible(r) ELSE << >>
  BY <1>2, <1>5, Zenon DEF Taken
<1>8. w \o Visible(r) \in Seq(Characters) /\ << >> \in Seq(Characters)
  BY <1>4, <1>6, ConcatProperties
<1> QED
  BY <1>2, <1>3, <1>4, <1>5, <1>6, <1>7, <1>8, Zenon

(* Moving over a blank leaves it so. *)
LEMMA BlankKeepsTaken ==
  ASSUME ReaderInv, Newline \/ Space
  PROVE  lexing' /\ Taken' = Taken
<1>1. /\ lexing /\ pos < length /\ ch \in Blanks /\ pos' = pos + 1
      /\ UNCHANGED <<input, length, tokens, lexing>>
  BY DEF Newline, Space, Lexing, Blanks
<1>2. /\ input \in Seq(Characters) /\ pos \in Nat /\ length \in Nat
      /\ length <= Len(input) /\ pos + 1 + 1 = pos + 2
  BY Positions
<1>3. input[pos + 1] \in Blanks
  BY <1>1 DEF ch, At
<1>4. Visible(SubSeq(input, pos + 1, length)) = Visible(SubSeq(input, pos + 2, length))
  BY <1>1, <1>2, <1>3, BlankUnseen
<1>5. Taken = TextOf(tokens) \o Visible(SubSeq(input, pos + 1, length))
  BY <1>1, Zenon DEF Taken, Remaining
<1>6. Taken' = TextOf(tokens) \o Visible(SubSeq(input, pos + 2, length))
  BY <1>1, <1>2, Zenon DEF Taken, Remaining
<1> QED
  BY <1>1, <1>4, <1>5, <1>6, Zenon

(* Taking a token does, too. *)
LEMMA TakesKeepsTaken ==
  ASSUME ReaderInv, NEW type, NEW end, TakesToken(type, end)
  PROVE  lexing' /\ Taken' = Taken
<1>1. /\ input \in Seq(Characters) /\ pos \in Nat /\ length \in Nat /\ end \in Nat
      /\ pos <= end /\ end <= length /\ length <= Len(input)
      /\ end \in pos .. length
  BY Positions DEF TakesToken
<1>2. PICK v : v = SubSeq(input, pos + 1, end)
  BY Zenon
<1>3. PICK r : r = Visible(SubSeq(input, end + 1, length))
  BY Zenon
<1>4. v \in Seq(Characters)
  BY <1>1, <1>2, PieceOfInput
<1>5. r \in Seq(Characters)
  <2>1. PICK u : u = SubSeq(input, end + 1, length)
    BY Zenon
  <2>2. u \in Seq(Characters)
    BY <1>1, <2>1, CutInTwo
  <2>3. Visible(u) \in Seq(Characters)
    BY <2>2, VisibleType
  <2> QED
    BY <1>3, <2>1, <2>3, Zenon
<1>6. Visible(v) = v
  <2>1. \A n \in pos .. end - 1 : input[n + 1] \notin Blanks
    BY DEF TakesToken, At
  <2>2. PICK s : s = input
    BY Zenon
  <2>3. PICK i : i = pos
    BY Zenon
  <2>4. s \in Seq(Characters) /\ i \in Nat /\ i <= end /\ end <= Len(s)
    BY <1>1, <2>2, <2>3
  <2>5. \A n \in i .. end - 1 : s[n + 1] \notin Blanks
    BY <2>1, <2>2, <2>3, Zenon
  <2>6. Visible(SubSeq(s, i + 1, end)) = SubSeq(s, i + 1, end)
    BY <1>1, <2>4, <2>5, WordSeen
  <2> QED
    BY <1>2, <2>2, <2>3, <2>6, Zenon
<1>7. Visible(Remaining) = v \o r
  <2>1. Visible(SubSeq(input, pos + 1, length)) =
          Visible(SubSeq(input, pos + 1, end)) \o Visible(SubSeq(input, end + 1, length))
    BY <1>1, VisibleInTwo
  <2> QED
    BY <1>2, <1>3, <1>6, <2>1, Zenon DEF Remaining
<1>8. PICK w : w = TextOf(tokens)
  BY Zenon
<1>9. w \in Seq(Characters)
  BY <1>8, Positions, TextType
<1> DEFINE token == [type |-> type, v |-> v, line |-> line, column |-> column]
<1>10. token \in TokensOf
  BY <1>4, Positions DEF TokensOf, TakesToken
<1>11. token.v = v
  OBVIOUS
<1>12. tokens' = Append(tokens, token)
  BY <1>2, Zenon DEF TakesToken
<1> HIDE DEF token
<1>13. TextOf(tokens') = w \o v
  <2>1. PICK ts : ts = tokens
    BY Zenon
  <2>2. ts \in Seq(TokensOf)
    BY <2>1, Positions
  <2>3. TextOf(Append(ts, token)) = TextOf(ts) \o token.v
    BY <1>10, <2>2, TextOfOneMore
  <2> QED
    BY <1>8, <1>11, <1>12, <2>1, <2>3, Zenon
<1>14. Visible(Remaining)' = r
  BY <1>3, Zenon DEF Remaining, TakesToken
<1>15. w \o (v \o r) = (w \o v) \o r
  <2>1. InAnyOrder(w, v, r)
    BY <1>4, <1>5, <1>9, JoinedInAnyOrder, Zenon
  <2> QED
    BY <2>1, Zenon DEF InAnyOrder
<1>16. lexing /\ lexing'
  BY DEF TakesToken
<1>17. Taken = w \o (v \o r)
  BY <1>7, <1>8, <1>16, Zenon DEF Taken
<1>18. Taken' = (w \o v) \o r
  BY <1>13, <1>14, <1>16, Zenon DEF Taken
<1> QED
  BY <1>15, <1>16, <1>17, <1>18, Zenon

(* At the end the tokens have it all. *)
LEMMA FinishHasTaken ==
  ASSUME ReaderInv, Finish, Room
  PROVE  ~ lexing' /\ lexing /\ TextOf(tokens') = Taken
<1>1. /\ lexing /\ ~ lexing' /\ pos >= length
      /\ tokens' = Append(tokens, EndToken)
  BY DEF Finish, NewToken, EndToken
<1>2. Remaining = << >>
  <2>1. pos + 1 \in Int /\ length \in Int /\ length < pos + 1
    BY <1>1, Positions
  <2> QED
    BY <2>1, SubSeqEmpty DEF Remaining
<1>3. PICK ts : ts = tokens
  BY Zenon
<1>4. PICK e : e = EndToken
  BY Zenon
<1>5. ts \in Seq(TokensOf)
  BY <1>3, Positions
<1>6. e \in TokensOf /\ e.v = << >>
  <2>1. "END" \in TokenType
    BY DEF TokenType
  <2>2. << >> \in Seq(Characters)
    OBVIOUS
  <2> QED
    BY <1>4, <2>1, <2>2, Positions DEF EndToken, TokensOf
<1>7. TextOf(Append(ts, e)) = TextOf(ts) \o << >>
  BY <1>5, <1>6, TextOfOneMore
<1>8. Taken = TextOf(ts) \o << >>
  BY <1>1, <1>2, <1>3, VisibleNothing, Zenon DEF Taken
<1> QED
  BY <1>1, <1>3, <1>4, <1>7, <1>8, Zenon

(* A turn of the loop either goes on with the same text, or hands it all over, or
   the process aborts. *)
LEMMA TurnsKeepTaken ==
  ASSUME ReaderInv, LexStep
  PROVE  \/ lexing' /\ ~ (Finish /\ Room) /\ Taken' = Taken /\ UNCHANGED panic
         \/ ~ lexing' /\ Finish /\ Room /\ TextOf(tokens') = Taken /\ UNCHANGED panic
         \/ ~ lexing' /\ ~ (Finish /\ Room) /\ panic' # "none"
<1>1. CASE Newline \/ Space
  <2>1. lexing' /\ Taken' = Taken
    BY <1>1, BlankKeepsTaken
  <2>2. pos < length /\ UNCHANGED panic
    BY <1>1 DEF Newline, Space, Lexing
  <2>3. ~ Finish
    <3>1. ~ (pos >= length)
      BY <2>2, Positions
    <3> QED
      BY <3>1, Zenon DEF Finish
  <2> QED
    BY <2>1, <2>2, <2>3, Zenon
<1>2. CASE \E type, end : TakesToken(type, end)
  <2>1. PICK type, end : TakesToken(type, end)
    BY <1>2
  <2>2. lexing' /\ Taken' = Taken
    BY <2>1, TakesKeepsTaken
  <2>3. pos < length /\ UNCHANGED panic
    BY <2>1, Positions DEF TakesToken
  <2>4. ~ Finish
    <3>1. ~ (pos >= length)
      BY <2>3, Positions
    <3> QED
      BY <3>1, Zenon DEF Finish
  <2> QED
    BY <2>2, <2>3, <2>4, Zenon
<1>3. CASE Finish /\ Room
  <2>1. ~ lexing' /\ lexing /\ TextOf(tokens') = Taken
    BY <1>3, FinishHasTaken
  <2>2. UNCHANGED panic
    BY <1>3 DEF Finish
  <2> QED
    BY <1>3, <2>1, <2>2, Zenon
<1>4. CASE \E why : Panic(why) /\ why # "none"
  <2>1. ~ lexing' /\ panic' # "none" /\ tokens' = tokens
    BY <1>4 DEF Panic
  <2>2. ~ (Finish /\ Room)
    <3>1. ASSUME Finish, Room PROVE FALSE
      <4>1. tokens' = Append(tokens, EndToken)
        BY <3>1 DEF Finish, NewToken, EndToken
      <4>2. Len(tokens') = Len(tokens) + 1 /\ Len(tokens) \in Nat
        <5>1. PICK e : e = EndToken
          BY Zenon
        <5>2. tokens' = Append(tokens, e)
          BY <4>1, <5>1, Zenon
        <5> QED
          BY <5>2, Positions
      <4> QED
        BY <2>1, <4>2
    <3> QED
      BY <3>1
  <2> QED
    BY <2>1, <2>2, Zenon
<1> QED
  BY <1>1, <1>2, <1>3, <1>4, TurnsOfLoop, Zenon

-----------------------------------------------------------------------------
(* New pieces *)

(* A source without a NUL of its own ends where the NUL was put. *)
LEMMA WholeSource ==
  ASSUME NEW s \in Seq(Characters), NUL \notin ToSet(s),
         NEW source \in Seq(Characters), NEW n \in 0 .. Len(s), Len(source) > n,
         \A k \in 1 .. n : source[k] = s[k], source[n + 1] = NUL,
         NEW end, Ends(source, 0, end)
  PROVE  end = n /\ SubSeq(source, 1, end) = SubSeq(s, 1, n)
<1>1. /\ end \in 0 .. Len(source) - 1 /\ source[end + 1] = NUL
      /\ \A k \in 0 .. end - 1 : source[k + 1] # NUL
  BY DEF Ends
<1>2. ~ (end < n)
  <2>1. ASSUME end < n PROVE FALSE
    <3>1. end + 1 \in 1 .. n /\ end + 1 \in DOMAIN s
      BY <1>1, <2>1
    <3>2. s[end + 1] = NUL
      BY <1>1, <3>1
    <3>3. s[end + 1] \in ToSet(s)
      BY <3>1, Zenon DEF ToSet
    <3> QED
      BY <3>2, <3>3, Zenon
  <2> QED
    BY <2>1
<1>3. ~ (n < end)
  <2>1. ASSUME n < end PROVE FALSE
    <3>1. n \in 0 .. end - 1
      BY <1>1, <2>1
    <3> QED
      BY <1>1, <3>1, Zenon
  <2> QED
    BY <2>1
<1>4. end = n
  BY <1>1, <1>2, <1>3
<1>5. PICK a : a = SubSeq(source, 1, n)
  OBVIOUS
<1>6. PICK b : b = SubSeq(s, 1, n)
  OBVIOUS
<1>7. (\A k \in 1 .. n : source[k] \in Characters) /\ 1 \in Int /\ n \in Int
  OBVIOUS
<1>8. (\A k \in 1 .. n : s[k] \in Characters)
  OBVIOUS
<1>9. /\ a \in Seq(Characters)
      /\ Len(a) = IF 1 <= n THEN n - 1 + 1 ELSE 0
      /\ \A k \in 1 .. n - 1 + 1 : a[k] = source[1 + k - 1]
  BY <1>5, <1>7, SubSeqProperties
<1>10. /\ b \in Seq(Characters)
       /\ Len(b) = IF 1 <= n THEN n - 1 + 1 ELSE 0
       /\ \A k \in 1 .. n - 1 + 1 : b[k] = s[1 + k - 1]
  BY <1>6, <1>7, <1>8, SubSeqProperties
<1>11. ASSUME NEW k \in 1 .. Len(a) PROVE a[k] = b[k]
  <2>1. k \in 1 .. n /\ k \in 1 .. n - 1 + 1 /\ 1 + k - 1 = k
    BY <1>9
  <2>2. a[k] = source[k] /\ b[k] = s[k]
    BY <1>9, <1>10, <2>1
  <2> QED
    BY <2>1, <2>2
<1>12. a = b
  BY <1>9, <1>10, <1>11, SeqEqual
<1> QED
  BY <1>4, <1>5, <1>6, <1>12, Zenon

(* Of the n characters fgets reads, the lexer gets all but a newline at the end. *)
LEMMA LineTaken ==
  ASSUME NEW s \in Seq(Characters), NUL \notin ToSet(s), NEW n \in 1 .. Len(s),
         NEW source, source = WithoutNewline(Append(SubSeq(s, 1, n), NUL)),
         NEW end, Ends(source, 0, end)
  PROVE  /\ end = IF s[n] = "\n" THEN n - 1 ELSE n
         /\ SubSeq(source, 1, end) = SubSeq(s, 1, end)
<1>1. PICK piece : piece = Append(SubSeq(s, 1, n), NUL)
  OBVIOUS
<1>2. /\ piece \in Seq(Characters)
      /\ Len(piece) = n + 1
      /\ \A k \in 1 .. n : piece[k] = s[k]
      /\ piece[n + 1] = NUL
  <2>1. \A k \in 1 .. n : s[k] \in Characters
    OBVIOUS
  <2>2. 1 \in Int /\ n \in Int
    OBVIOUS
  <2>3. PICK a : a = SubSeq(s, 1, n)
    OBVIOUS
  <2>4. /\ a \in Seq(Characters)
        /\ Len(a) = IF 1 <= n THEN n - 1 + 1 ELSE 0
        /\ \A k \in 1 .. n - 1 + 1 : a[k] = s[1 + k - 1]
    BY <2>1, <2>2, <2>3, SubSeqProperties
  <2>5. Len(a) = n /\ \A k \in 1 .. n : a[k] = s[k]
    BY <2>4
  <2>6. piece = Append(a, NUL) /\ NUL \in Characters
    BY <1>1, <2>3, NulIsCharacter, Zenon
  <2> HIDE DEF NUL
  <2> QED
    BY <2>4, <2>5, <2>6, AppendProperties
<1>3. PICK m : Ends(piece, 0, m)
  <2>1. 0 \in Nat /\ n \in 0 .. Len(piece) - 1
    BY <1>2
  <2>2. PICK m \in 0 .. n : Ends(piece, 0, m)
    BY <1>2, <2>1, StringEnds
  <2> QED
    BY <2>2
<1>4. m = n
  <2>1. n \in 0 .. Len(s) /\ Len(piece) > n
    BY <1>2
  <2> QED
    BY <1>2, <1>3, <2>1, WholeSource
<1>5. /\ source \in Seq(Characters)
      /\ Len(source) = Len(piece)
      /\ \A k \in 1 .. Len(piece) : k # n => source[k] = piece[k]
      /\ IF n > 0 /\ piece[n] = "\n" THEN source[n] = NUL ELSE source = piece
  <2>1. source = WithoutNewline(piece)
    BY <1>1, Zenon
  <2>2. Ends(piece, 0, n)
    BY <1>3, <1>4
  <2> QED
    BY <1>2, <2>1, <2>2, CutIs
<1>6. piece[n] = s[n] /\ n > 0
  BY <1>2
<1>7. CASE s[n] = "\n"
  <2>1. PICK i : i = n - 1
    OBVIOUS
  <2>2. i \in 0 .. Len(s) /\ Len(source) > i /\ source[i + 1] = NUL
    BY <1>2, <1>5, <1>6, <1>7, <2>1
  <2>3. \A k \in 1 .. i : source[k] = s[k]
    BY <1>2, <1>5, <2>1
  <2>4. end = i /\ SubSeq(source, 1, end) = SubSeq(s, 1, i)
    BY <1>5, <2>2, <2>3, WholeSource
  <2> QED
    BY <1>7, <2>1, <2>4
<1>8. CASE s[n] # "\n"
  <2>1. source = piece
    BY <1>5, <1>6, <1>8
  <2>2. n \in 0 .. Len(s) /\ Len(source) > n
    BY <1>2, <2>1
  <2>3. end = n /\ SubSeq(source, 1, end) = SubSeq(s, 1, n)
    BY <1>2, <2>1, <2>2, WholeSource
  <2> QED
    BY <1>8, <2>3
<1> QED
  BY <1>7, <1>8

(* Of a text that is read in two pieces both are seen, without the newline. *)
LEMMA SeenInPieces ==
  ASSUME NEW s \in Seq(Characters), NEW n \in 1 .. Len(s),
         NEW end, end = IF s[n] = "\n" THEN n - 1 ELSE n
  PROVE  Visible(s) = Visible(SubSeq(s, 1, end)) \o Visible(SubSeq(s, n + 1, Len(s)))
<1>1. /\ 0 \in Nat /\ end \in Nat /\ Len(s) \in Nat
      /\ 0 <= end /\ end <= Len(s) /\ Len(s) <= Len(s) /\ 0 + 1 = 1
  OBVIOUS
<1>2. Visible(SubSeq(s, 1, Len(s))) =
        Visible(SubSeq(s, 1, end)) \o Visible(SubSeq(s, end + 1, Len(s)))
  <2>1. PICK i : i = 0
    OBVIOUS
  <2>2. PICK j : j = end
    OBVIOUS
  <2>3. PICK m : m = Len(s)
    OBVIOUS
  <2>4. /\ i \in Nat /\ j \in Nat /\ m \in Nat
        /\ i <= j /\ j <= m /\ m <= Len(s) /\ i + 1 = 1
    BY <1>1, <2>1, <2>2, <2>3
  <2>5. Visible(SubSeq(s, i + 1, m)) =
          Visible(SubSeq(s, i + 1, j)) \o Visible(SubSeq(s, j + 1, m))
    BY <2>4, VisibleInTwo
  <2> QED
    BY <2>2, <2>3, <2>4, <2>5, Zenon
<1>3. SubSeq(s, 1, Len(s)) = s
  BY SubSeqFull
<1>4. Visible(SubSeq(s, end + 1, Len(s))) = Visible(SubSeq(s, n + 1, Len(s)))
  <2>1. CASE s[n] = "\n"
    <3>1. end + 1 = n /\ end + 2 = n + 1 /\ end < Len(s) /\ s[end + 1] = "\n"
      BY <2>1
    <3>2. s[end + 1] \in Blanks
      BY <3>1 DEF Blanks
    <3>3. Visible(SubSeq(s, end + 1, Len(s))) = Visible(SubSeq(s, end + 2, Len(s)))
      BY <1>1, <3>1, <3>2, BlankUnseen
    <3> QED
      BY <3>1, <3>3, Zenon
  <2>2. CASE s[n] # "\n"
    BY <2>2
  <2> QED
    BY <2>1, <2>2
<1> QED
  BY <1>2, <1>3, <1>4, Zenon

-----------------------------------------------------------------------------
(* Nothing is lost *)

JoinedAlike(a, b, c, d) == (a \o b) \o (c \o d) = a \o ((b \o c) \o d)

(* It does not matter how four texts are joined. *)
LEMMA FourJoined ==
  ASSUME NEW a \in Seq(Characters), NEW b \in Seq(Characters),
         NEW c \in Seq(Characters), NEW d \in Seq(Characters)
  PROVE  JoinedAlike(a, b, c, d)
<1>1. PICK e : e = c \o d
  OBVIOUS
<1>2. PICK f : f = b \o c
  OBVIOUS
<1>3. e \in Seq(Characters) /\ f \in Seq(Characters)
  BY <1>1, <1>2, ConcatProperties
<1>4. a \o (b \o e) = (a \o b) \o e
  <2>1. InAnyOrder(a, b, e)
    BY <1>3, JoinedInAnyOrder, Zenon
  <2> QED
    BY <2>1, Zenon DEF InAnyOrder
<1>5. b \o (c \o d) = (b \o c) \o d
  <2>1. InAnyOrder(b, c, d)
    BY JoinedInAnyOrder, Zenon
  <2> QED
    BY <2>1, Zenon DEF InAnyOrder
<1> QED
  BY <1>1, <1>2, <1>4, <1>5, Zenon DEF JoinedAlike

(* The balance of NothingLost, by what is left to lex. *)
Balance == Visible(text) = TextsOf(handed) \o (Taken \o Visible(unread))

(* What else the proof needs of the state. *)
PiecesOK ==
  /\ handed \in Seq(Seq(TokensOf))
  /\ NUL \notin ToSet(text) => NUL \notin ToSet(unread)
  /\ lexing => panic = "none"

(* The balance is that of NothingLost. *)
LEMMA BalanceIs ==
  ASSUME ReaderInv, PiecesOK
  PROVE  NothingLost <=> (NUL \notin ToSet(text) /\ panic = "none" => Balance)
<1> DEFINE pieces == IF lexing THEN Append(handed, tokens) ELSE handed
           rest == (IF lexing THEN Remaining ELSE << >>) \o unread
<1>1. PICK h : h = TextsOf(handed)
  BY Zenon
<1>2. PICK r : r = Remaining
  BY Zenon
<1>3. PICK w : w = TextOf(tokens)
  BY Zenon
<1>4. PICK u : u = unread
  BY Zenon
<1>5. /\ handed \in Seq(Seq(TokensOf)) /\ tokens \in Seq(TokensOf)
      /\ u \in Seq(Characters)
  BY <1>4, Positions DEF PiecesOK, ReaderInv, SourceOK
<1>6. /\ h \in Seq(Characters) /\ r \in Seq(Characters) /\ w \in Seq(Characters)
      /\ Visible(r) \in Seq(Characters) /\ Visible(u) \in Seq(Characters)
  <2>1. Visible(r) \in Seq(Characters) /\ r \in Seq(Characters) /\ w \in Seq(Characters)
    BY <1>2, <1>3, RemainingType, Zenon
  <2>2. Visible(u) \in Seq(Characters)
    BY <1>5, VisibleType
  <2>3. PICK hs : hs = handed
    BY Zenon
  <2>4. TextsOf(hs) \in Seq(Characters)
    BY <1>5, <2>3, TextsType
  <2> QED
    BY <1>1, <2>1, <2>2, <2>3, <2>4, Zenon
<1>7. CASE lexing
  <2>1. TextsOf(pieces) = h \o w
    <3>1. PICK hs : hs = handed
      BY Zenon
    <3>2. PICK ts : ts = tokens
      BY Zenon
    <3>3. TextsOf(Append(hs, ts)) = TextsOf(hs) \o TextOf(ts)
      BY <1>5, <3>1, <3>2, TextsOfOneMore
    <3> QED
      BY <1>1, <1>3, <1>7, <3>1, <3>2, <3>3, Zenon
  <2>2. Visible(rest) = Visible(r) \o Visible(u)
    <3>1. Visible(r \o u) = Visible(r) \o Visible(u)
      BY <1>5, <1>6, VisibleConcat
    <3> QED
      BY <1>2, <1>4, <1>7, <3>1, Zenon
  <2>3. Taken = w \o Visible(r)
    BY <1>2, <1>3, <1>7, Zenon DEF Taken
  <2>4. (h \o w) \o (Visible(r) \o Visible(u)) = h \o ((w \o Visible(r)) \o Visible(u))
    <3>1. PICK a : a = Visible(r)
      OBVIOUS
    <3>2. PICK b : b = Visible(u)
      OBVIOUS
    <3>3. /\ h \in Seq(Characters) /\ w \in Seq(Characters)
          /\ a \in Seq(Characters) /\ b \in Seq(Characters)
      BY <1>6, <3>1, <3>2
    <3>4. JoinedAlike(h, w, a, b)
      BY <3>3, FourJoined
    <3> QED
      BY <3>1, <3>2, <3>4, Zenon DEF JoinedAlike
  <2>5. Balance <=> Visible(text) = TextsOf(pieces) \o Visible(rest)
    BY <1>1, <1>4, <2>1, <2>2, <2>3, <2>4, Zenon DEF Balance
  <2> QED
    BY <1>7, <2>5, Zenon DEF NothingLost, Remaining
<1>8. CASE ~ lexing
  <2>1. TextsOf(pieces) = h
    BY <1>1, <1>8, Zenon
  <2>2. rest = << >> \o u
    BY <1>4, <1>8, Zenon
  <2>3. << >> \o u = u /\ << >> \o Visible(u) = Visible(u)
    BY <1>5, <1>6, ConcatEmptySeq
  <2>4. Taken = << >>
    BY <1>8, Zenon DEF Taken
  <2>5. Balance <=> Visible(text) = TextsOf(pieces) \o Visible(rest)
    BY <1>1, <1>4, <2>1, <2>2, <2>3, <2>4, Zenon DEF Balance
  <2> QED
    BY <1>8, <2>5, Zenon DEF NothingLost, Remaining
<1> QED
  BY <1>7, <1>8

(* What is taken when a piece has just been read. *)
LEMMA TakenAtStart ==
  ASSUME NEW q \in Seq(Characters), lexing', pos' = 0, tokens' = << >>,
         SubSeq(input', 1, length') = q
  PROVE  Taken' = Visible(q)
<1>1. pos' + 1 = 1
  OBVIOUS
<1>2. Remaining' = q
  BY <1>1, Zenon DEF Remaining
<1>3. PICK r : r = Visible(q)
  OBVIOUS
<1>4. r \in Seq(Characters)
  BY <1>3, VisibleType
<1>5. << >> \o r = r
  BY <1>4, ConcatEmptySeq
<1>6. PICK w : w = TextOf(<< >>)
  OBVIOUS
<1>7. w = << >>
  BY <1>6, TextOfNothing, Zenon
<1>8. Taken' = w \o r
  BY <1>2, <1>3, <1>6, Zenon DEF Taken
<1> QED
  BY <1>3, <1>5, <1>7, <1>8, Zenon

(* What ReadFile does. *)
LEMMA FileRead ==
  ASSUME ReaderInv, ReadFile, NUL \notin ToSet(text), panic' = "none"
  PROVE  /\ handed = << >> /\ unread' = << >>
         /\ Taken' = Visible(text)
         /\ UNCHANGED <<text, handed>>
<1>1. ~ (Len(text) > MaxSourceBytes)
  <2>1. ASSUME Len(text) > MaxSourceBytes PROVE FALSE
    <3>1. panic' = "source capacity"
      BY <2>1 DEF ReadFile, Panic
    <3> QED
      BY <3>1
  <2> QED
    BY <2>1
<1>2. PICK source : source = Append(text, NUL)
  BY Zenon
<1>3. /\ Tokenize(source) /\ unread' = << >> /\ handed = << >>
      /\ UNCHANGED <<text, handed>>
  BY <1>1, <1>2 DEF ReadFile
<1>4. text \in Seq(Characters) /\ NUL \in Characters
  BY NulIsCharacter DEF ReaderInv, SourceOK
<1>5. PICK s : s = text
  BY Zenon
<1>6. /\ source \in Seq(Characters)
      /\ source # << >>
      /\ Len(source) = Len(s) + 1
      /\ \A k \in 1 .. Len(s) : source[k] = s[k]
      /\ source[Len(s) + 1] = NUL
  BY <1>2, <1>4, <1>5, AppendProperties DEF NUL
<1>7. input' = source /\ Ends(source, 0, length')
  BY <1>3, <1>6, TokenizeMeasures
<1>8. SubSeq(source, 1, length') = s
  <2>1. PICK end : end = length'
    BY Zenon
  <2>2. Ends(source, 0, end) /\ s \in Seq(Characters) /\ NUL \notin ToSet(s)
    BY <1>4, <1>5, <1>7, <2>1, Zenon
  <2>3. Len(s) \in 0 .. Len(s) /\ Len(source) > Len(s)
    BY <1>6, <2>2
  <2>4. SubSeq(source, 1, end) = SubSeq(s, 1, Len(s))
    BY <1>6, <2>2, <2>3, WholeSource
  <2>5. SubSeq(s, 1, Len(s)) = s
    BY <2>2, SubSeqFull
  <2> QED
    BY <2>1, <2>4, <2>5, Zenon
<1>9. Taken' = Visible(s)
  <2>1. lexing' /\ pos' = 0 /\ tokens' = << >> /\ s \in Seq(Characters)
    BY <1>3, <1>4, <1>5 DEF Tokenize
  <2>2. SubSeq(input', 1, length') = s
    BY <1>7, <1>8, Zenon
  <2> QED
    BY <2>1, <2>2, TakenAtStart
<1> QED
  BY <1>3, <1>5, <1>9, Zenon

(* What ReadLine does. *)
LineRead(n, end) ==
  /\ EndsLine(n)
  /\ end = IF unread[n] = "\n" THEN n - 1 ELSE n
  /\ Taken' = Visible(SubSeq(unread, 1, end))
  /\ unread' = SubSeq(unread, n + 1, Len(unread))
  /\ lexing'
  /\ UNCHANGED <<panic, text, is_file, handed>>

(* It takes the line, without the newline. *)
LEMMA ReadLineIs ==
  ASSUME ReaderInv, PiecesOK, ReadLine, NUL \notin ToSet(text)
  PROVE  \E n, end : LineRead(n, end)
<1>1. unread \in Seq(Characters) /\ unread # << >> /\ NUL \notin ToSet(unread)
  BY DEF ReaderInv, SourceOK, PiecesOK, ReadLine
<1>2. PICK n : n = Fgets
  BY Zenon
<1>3. EndsLine(n)
  BY <1>1, <1>2, FgetsIs, Zenon
<1>4. PICK source : source = WithoutNewline(Append(SubSeq(unread, 1, n), NUL))
  BY Zenon
<1>5. /\ Tokenize(source)
      /\ unread' = SubSeq(unread, n + 1, Len(unread))
      /\ UNCHANGED <<text, is_file, handed>>
  BY <1>2, <1>4, Zenon DEF ReadLine
<1>6. source \in Seq(Characters) /\ source # << >> /\ source[Len(source)] = NUL
  BY <1>3, <1>4, LineSource
<1>7. input' = source /\ Ends(source, 0, length')
  BY <1>5, <1>6, TokenizeMeasures
<1>8. PICK end : end = length'
  BY Zenon
<1>9. PICK s : s = unread
  BY Zenon
<1>10. /\ s \in Seq(Characters) /\ NUL \notin ToSet(s) /\ n \in 1 .. Len(s)
       /\ source = WithoutNewline(Append(SubSeq(s, 1, n), NUL))
       /\ Ends(source, 0, end)
  <2>1. n \in 1 .. Len(unread)
    BY <1>3 DEF EndsLine
  <2> QED
    BY <1>1, <1>4, <1>7, <1>8, <1>9, <2>1, Zenon
<1>11. /\ end = IF s[n] = "\n" THEN n - 1 ELSE n
       /\ SubSeq(source, 1, end) = SubSeq(s, 1, end)
  BY <1>10, LineTaken
<1>12. PICK q : q = SubSeq(s, 1, end)
  OBVIOUS
<1>13. q \in Seq(Characters)
  <2>1. 1 \in Int /\ end \in Int /\ \A k \in 1 .. end : s[k] \in Characters
    BY <1>10, <1>11
  <2> QED
    BY <1>12, <2>1, SubSeqProperties
<1>14. Taken' = Visible(q)
  <2>1. lexing' /\ pos' = 0 /\ tokens' = << >>
    BY <1>5 DEF Tokenize
  <2>2. SubSeq(input', 1, length') = q
    BY <1>7, <1>8, <1>11, <1>12, Zenon
  <2> QED
    BY <1>13, <2>1, <2>2, TakenAtStart
<1>15. lexing' /\ UNCHANGED panic
  BY <1>5 DEF Tokenize
<1>16. LineRead(n, end)
  BY <1>3, <1>5, <1>9, <1>11, <1>12, <1>14, <1>15, Zenon DEF LineRead
<1> QED
  BY <1>16, Zenon

(* The pieces are tokens, what is unread comes from the text, and nothing is lexed
   after a panic. *)
LEMMA PiecesKept ==
  ASSUME ReaderInv, PiecesOK, [ReaderNext]_readerVars
  PROVE  PiecesOK'
<1>1. CASE ReadFile
  <2>1. UNCHANGED <<text, handed>>
    BY <1>1 DEF ReadFile
  <2>2. lexing' => panic' = "none"
    BY <1>1 DEF ReadFile, Waiting, Panic, Tokenize
  <2>3. unread' = unread \/ unread' = << >>
    BY <1>1 DEF ReadFile
  <2>4. NUL \notin ToSet(<< >>)
    BY DEF ToSet
  <2> QED
    BY <2>1, <2>2, <2>3, <2>4, Zenon DEF PiecesOK
<1>2. CASE ReadLine
  <2>1. UNCHANGED <<text, handed>> /\ panic' = "none"
    BY <1>2 DEF ReadLine, Waiting, Tokenize
  <2>2. NUL \notin ToSet(text) => NUL \notin ToSet(unread')
    <3>1. PICK n : n = Fgets
      BY Zenon
    <3>2. EndsLine(n)
      <4>1. unread \in Seq(Characters) /\ unread # << >>
        BY <1>2 DEF ReaderInv, SourceOK, ReadLine
      <4> QED
        BY <3>1, <4>1, FgetsIs, Zenon
    <3>3. unread' = SubSeq(unread, n + 1, Len(unread))
      BY <1>2, <3>1, Zenon DEF ReadLine
    <3>4. PICK s : s = unread
      BY Zenon
    <3>5. PICK t : t = SubSeq(s, n + 1, Len(s))
      OBVIOUS
    <3>6. s \in Seq(Characters) /\ n \in 1 .. Len(s)
      BY <3>2, <3>4 DEF ReaderInv, SourceOK, EndsLine
    <3>7. n + 1 \in Int /\ Len(s) \in Int /\ \A k \in n + 1 .. Len(s) : s[k] \in Characters
      BY <3>6
    <3>8. /\ t \in Seq(Characters)
          /\ Len(t) = IF n + 1 <= Len(s) THEN Len(s) - (n + 1) + 1 ELSE 0
          /\ \A k \in 1 .. Len(s) - (n + 1) + 1 : t[k] = s[n + 1 + k - 1]
      BY <3>5, <3>7, SubSeqProperties
    <3>9. ASSUME NEW c \in ToSet(t) PROVE c \in ToSet(s)
      <4>1. PICK k \in 1 .. Len(t) : c = t[k]
        BY <3>8, <3>9 DEF ToSet
      <4>2. PICK i : i = n + 1 + k - 1
        OBVIOUS
      <4>3. k \in 1 .. Len(s) - (n + 1) + 1 /\ i \in DOMAIN s
        BY <3>6, <3>8, <4>2
      <4>4. c = s[i]
        BY <3>8, <4>1, <4>2, <4>3, Zenon
      <4> QED
        BY <4>3, <4>4, Zenon DEF ToSet
    <3>10. NUL \notin ToSet(s) => NUL \notin ToSet(t)
      BY <3>9, Zenon
    <3>11. unread' = t
      BY <3>3, <3>4, <3>5, Zenon
    <3> QED
      BY <3>4, <3>10, <3>11, Zenon DEF PiecesOK
  <2> QED
    BY <2>1, <2>2, Zenon DEF PiecesOK
<1>3. CASE Lex
  <2>1. LexStep /\ UNCHANGED <<text, unread>> /\ handed' \in {handed, Append(handed, tokens')}
    BY <1>3 DEF Lex
  <2>2. handed' \in Seq(Seq(TokensOf))
    <3>1. tokens' \in Seq(TokensOf)
      BY <1>3, LexKeepsInv DEF ReaderInv, ReaderTypeOK
    <3>2. handed \in Seq(Seq(TokensOf))
      BY DEF PiecesOK
    <3>3. PICK hs, ts : hs = handed /\ ts = tokens'
      BY Zenon
    <3>4. Append(hs, ts) \in Seq(Seq(TokensOf))
      BY <3>1, <3>2, <3>3, AppendProperties
    <3> QED
      BY <2>1, <3>2, <3>3, <3>4, Zenon
  <2>3. lexing' => panic' = "none"
    <3>1. lexing' => UNCHANGED panic
      BY <2>1, TurnsKeepTaken, Zenon
    <3>2. lexing
      BY <2>1 DEF LexStep, Newline, Space, Symbol, Word, Number, NoRoom, Illegal, Finish,
                  Lexing
    <3> QED
      BY <3>1, <3>2 DEF PiecesOK
  <2> QED
    BY <2>1, <2>2, <2>3, Zenon DEF PiecesOK
<1>4. CASE UNCHANGED readerVars
  BY <1>4 DEF readerVars, lexerVars, PiecesOK
<1> QED
  BY <1>1, <1>2, <1>3, <1>4 DEF ReaderNext

(* The balance, as long as there is no NUL and no panic. *)
InBalance == NUL \notin ToSet(text) /\ panic = "none" => Balance

(* At the start nothing is taken. *)
LEMMA InitInBalance == ReaderInit => PiecesOK /\ InBalance
<1> SUFFICES ASSUME ReaderInit PROVE PiecesOK /\ Balance
  BY Zenon DEF InBalance
<1>1. /\ handed = << >> /\ unread = text /\ lexing = FALSE
      /\ text \in Seq(Characters)
  BY ReaderAssumption DEF ReaderInit
<1>2. PiecesOK
  <2>1. << >> \in Seq(Seq(TokensOf))
    OBVIOUS
  <2> QED
    BY <1>1, <2>1, Zenon DEF PiecesOK
<1>3. PICK r : r = Visible(text)
  BY Zenon
<1>4. r \in Seq(Characters)
  <2>1. PICK s : s = text
    BY Zenon
  <2>2. Visible(s) \in Seq(Characters)
    BY <1>1, <2>1, VisibleType
  <2> QED
    BY <1>3, <2>1, <2>2, Zenon
<1>5. << >> \o r = r
  BY <1>4, ConcatEmptySeq
<1>6. Taken = << >> /\ TextsOf(handed) = << >>
  BY <1>1, TextsOfNothing, Zenon DEF Taken
<1>7. Balance
  BY <1>1, <1>3, <1>5, <1>6, Zenon DEF Balance
<1> QED
  BY <1>2, <1>7

(* A file. *)
LEMMA ReadFileKeepsBalance ==
  ASSUME ReaderInv, ReadFile
  PROVE  InBalance'
<1> SUFFICES ASSUME NUL \notin ToSet(text), panic' = "none" PROVE Balance'
  <2>1. text' = text
    BY DEF ReadFile
  <2> QED
    BY <2>1, Zenon DEF InBalance
<1>1. /\ handed = << >> /\ unread' = << >>
      /\ Taken' = Visible(text)
      /\ UNCHANGED <<text, handed>>
  BY FileRead
<1>2. PICK r : r = Visible(text)
  BY Zenon
<1>3. r \in Seq(Characters)
  <2>1. PICK s : s = text
    BY Zenon
  <2>2. s \in Seq(Characters)
    BY <2>1 DEF ReaderInv, SourceOK
  <2>3. Visible(s) \in Seq(Characters)
    BY <2>2, VisibleType
  <2> QED
    BY <1>2, <2>1, <2>3, Zenon
<1>4. << >> \o (r \o << >>) = r
  BY <1>3, ConcatEmptySeq
<1>5. TextsOf(handed)' = << >> /\ Visible(unread)' = << >>
  BY <1>1, TextsOfNothing, VisibleNothing, Zenon
<1> QED
  BY <1>1, <1>2, <1>4, <1>5, Zenon DEF Balance

(* A line. *)
LEMMA ReadLineKeepsBalance ==
  ASSUME ReaderInv, PiecesOK, InBalance, ReadLine
  PROVE  InBalance'
<1> SUFFICES ASSUME NUL \notin ToSet(text) PROVE Balance'
  <2>1. text' = text
    BY DEF ReadLine
  <2> QED
    BY <2>1, Zenon DEF InBalance
<1>1. PICK n, end : LineRead(n, end)
  BY ReadLineIs, Zenon
<1>2. panic = "none" /\ ~ lexing
  BY DEF ReadLine, Waiting
<1>3. PICK s : s = unread
  BY Zenon
<1>4. /\ s \in Seq(Characters) /\ n \in 1 .. Len(s)
      /\ end = IF s[n] = "\n" THEN n - 1 ELSE n
  BY <1>1, <1>3 DEF ReaderInv, SourceOK, LineRead, EndsLine
<1>5. PICK q : q = Visible(SubSeq(s, 1, end))
  OBVIOUS
<1>6. PICK r : r = Visible(SubSeq(s, n + 1, Len(s)))
  OBVIOUS
<1>7. Visible(s) = q \o r
  BY <1>4, <1>5, <1>6, SeenInPieces
<1>8. Visible(s) \in Seq(Characters)
  BY <1>4, VisibleType
<1>9. Balance
  BY <1>2, Zenon DEF InBalance
<1>10. Taken = << >>
  BY <1>2, Zenon DEF Taken
<1>11. << >> \o Visible(s) = Visible(s)
  BY <1>8, ConcatEmptySeq
<1>12. Visible(text) = TextsOf(handed) \o (q \o r)
  BY <1>3, <1>7, <1>9, <1>10, <1>11, Zenon DEF Balance
<1>13. Taken' = q /\ Visible(unread)' = r /\ UNCHANGED <<text, handed>>
  BY <1>1, <1>3, <1>5, <1>6, Zenon DEF LineRead
<1> QED
  BY <1>12, <1>13, Zenon DEF Balance

(* A turn of the loop. *)
LEMMA LexKeepsBalance ==
  ASSUME ReaderInv, PiecesOK, InBalance, Lex
  PROVE  InBalance'
<1> SUFFICES ASSUME NUL \notin ToSet(text), panic' = "none" PROVE Balance'
  <2>1. text' = text
    BY DEF Lex
  <2> QED
    BY <2>1, Zenon DEF InBalance
<1>1. LexStep /\ UNCHANGED <<text, unread>>
  BY DEF Lex
<1>2. UNCHANGED panic => Balance
  BY Zenon DEF InBalance
<1>3. CASE lexing' /\ ~ (Finish /\ Room) /\ Taken' = Taken /\ UNCHANGED panic
  <2>1. handed' = handed
    BY <1>3, Zenon DEF Lex
  <2> QED
    BY <1>1, <1>2, <1>3, <2>1, Zenon DEF Balance
<1>4. CASE ~ lexing' /\ Finish /\ Room /\ TextOf(tokens') = Taken /\ UNCHANGED panic
  <2>1. handed' = Append(handed, tokens')
    BY <1>4, Zenon DEF Lex
  <2>2. PICK hs, ts : hs = handed /\ ts = tokens'
    BY Zenon
  <2>3. hs \in Seq(Seq(TokensOf)) /\ ts \in Seq(TokensOf)
    BY <2>2, LexKeepsInv DEF PiecesOK, ReaderInv, ReaderTypeOK
  <2>4. TextsOf(Append(hs, ts)) = TextsOf(hs) \o TextOf(ts)
    BY <2>3, TextsOfOneMore
  <2>5. PICK h, w, r : h = TextsOf(hs) /\ w = TextOf(ts) /\ r = Visible(unread)
    BY Zenon
  <2>6. h \in Seq(Characters) /\ w \in Seq(Characters) /\ r \in Seq(Characters)
    <3>1. TextsOf(hs) \in Seq(Characters)
      BY <2>3, TextsType
    <3>2. TextOf(ts) \in Seq(Characters)
      BY <2>3, TextType
    <3>3. PICK u : u = unread
      BY Zenon
    <3>4. u \in Seq(Characters)
      BY <3>3 DEF ReaderInv, SourceOK
    <3>5. Visible(u) \in Seq(Characters)
      BY <3>4, VisibleType
    <3> QED
      BY <2>5, <3>1, <3>2, <3>3, <3>5, Zenon
  <2>7. h \o (w \o r) = (h \o w) \o r
    <3>1. InAnyOrder(h, w, r)
      BY <2>6, JoinedInAnyOrder, Zenon
    <3> QED
      BY <3>1, Zenon DEF InAnyOrder
  <2>8. << >> \o r = r
    BY <2>6, ConcatEmptySeq
  <2>9. Visible(text) = h \o (w \o r)
    BY <1>2, <1>4, <2>2, <2>5, Zenon DEF Balance
  <2>10. TextsOf(handed)' = h \o w /\ Taken' = << >> /\ Visible(unread)' = r
    BY <1>1, <1>4, <2>1, <2>2, <2>4, <2>5, Zenon DEF Taken
  <2> QED
    BY <1>1, <2>7, <2>8, <2>9, <2>10, Zenon DEF Balance
<1> QED
  BY <1>1, <1>3, <1>4, TurnsKeepTaken, Zenon

(* Every step keeps the balance. *)
LEMMA NextInBalance ==
  ASSUME ReaderInv, PiecesOK, InBalance, [ReaderNext]_readerVars
  PROVE  InBalance'
<1>1. CASE ReadFile
  BY <1>1, ReadFileKeepsBalance
<1>2. CASE ReadLine
  BY <1>2, ReadLineKeepsBalance
<1>3. CASE Lex
  BY <1>3, LexKeepsBalance
<1>4. CASE UNCHANGED readerVars
  BY <1>4 DEF readerVars, lexerVars, InBalance, Balance, Taken, Remaining
<1> QED
  BY <1>1, <1>2, <1>3, <1>4 DEF ReaderNext

(* No character is lost or read twice, wherever fgets and copy_lexeme cut: the text
   of the tokens handed over and what is left make up the text, blanks aside. *)
THEOREM NothingIsLost == ReaderSpec => []NothingLost
<1>1. ReaderInv /\ PiecesOK /\ InBalance => NothingLost
  BY BalanceIs, Zenon DEF InBalance
<1>2. ReaderSpec => [](ReaderInv /\ PiecesOK /\ InBalance)
  <2>1. ReaderInit => ReaderInv /\ PiecesOK /\ InBalance
    BY InitReaderInv, InitInBalance
  <2>2. ReaderInv /\ PiecesOK /\ InBalance /\ [ReaderNext]_readerVars
          => (ReaderInv /\ PiecesOK /\ InBalance)'
    BY NextReaderInv, PiecesKept, NextInBalance
  <2> QED
    BY <2>1, <2>2, PTL DEF ReaderSpec
<1> QED
  BY <1>1, <1>2, PTL

-----------------------------------------------------------------------------
(* The lines of the text *)

(* A line number is a positive number, and does not go down. *)
LEMMA LinesGoUp ==
  ASSUME NEW source, NEW p \in Nat, NEW q \in Nat, p <= q
  PROVE  /\ LineAt(source, p) \in Nat /\ LineAt(source, p) >= 1
         /\ LineAt(source, q) \in Nat
         /\ LineAt(source, p) <= LineAt(source, q)
<1> DEFINE P == NewlinesBefore(source, p)
           Q == NewlinesBefore(source, q)
<1>1. /\ IsFiniteSet(P) /\ Cardinality(P) \in Nat
      /\ IsFiniteSet(Q) /\ Cardinality(Q) \in Nat
  BY NewlinesFinite
<1>2. P \subseteq Q
  BY DEF NewlinesBefore
<1>3. Cardinality(P) <= Cardinality(Q)
  BY <1>1, <1>2, FS_Subset
<1>4. LineAt(source, p) = Cardinality(P) + 1 /\ LineAt(source, q) = Cardinality(Q) + 1
  BY DEF LineAt
<1> QED
  BY <1>1, <1>3, <1>4

(* A position in column 1 is the start of its line. *)
LEMMA LineStartIs ==
  ASSUME text \in Seq(Characters), NEW c \in 0 .. Len(text), ColumnAt(text, c) = 1,
         NEW k, LineAt(text, c) = k
  PROVE  LineStart(k) = c
<1>1. ASSUME NEW p \in 0 .. Len(text), LineAt(text, p) = k, ColumnAt(text, p) = 1
      PROVE  p = c
  <2>1. c \in Nat /\ p \in Nat
    OBVIOUS
  <2>2. PICK s : s = text
    BY Zenon
  <2>3. LineAt(s, p) = LineAt(s, c) /\ ColumnAt(s, p) = ColumnAt(s, c)
    BY <1>1, <2>2, Zenon
  <2> QED
    BY <2>1, <2>3, OnePosition
<1> QED
  BY <1>1, Zenon DEF LineStart

(* Where the line that starts at p ends. *)
EndsAt(p, e) ==
  /\ e \in p .. Len(text)
  /\ \A k \in p .. e - 1 : text[k + 1] # "\n"
  /\ e < Len(text) => text[e + 1] = "\n"

(* There is an end, and LineEnd finds it. *)
LEMMA LineEndIs ==
  ASSUME text \in Seq(Characters), NEW p \in 0 .. Len(text)
  PROVE  EndsAt(p, LineEnd(p))
<1> DEFINE T == {k \in p .. Len(text) : k = Len(text) \/ text[k + 1] = "\n"}
<1>1. T \in SUBSET Nat /\ T # {}
  <2>1. Len(text) \in T
    OBVIOUS
  <2>2. T \in SUBSET Nat
    OBVIOUS
  <2> QED
    BY <2>1, <2>2
<1>2. PICK e \in T : \A k \in T : e <= k
  BY <1>1, Least, Zenon
<1>3. e \in p .. Len(text) /\ (e < Len(text) => text[e + 1] = "\n")
  BY <1>2
<1>4. ASSUME NEW k \in p .. e - 1 PROVE text[k + 1] # "\n"
  <2>1. k \in p .. Len(text) /\ ~ (e <= k)
    BY <1>3
  <2>2. k \notin T
    BY <1>2, <2>1, Zenon
  <2> QED
    BY <2>1, <2>2
<1>5. EndsAt(p, e)
  BY <1>3, <1>4 DEF EndsAt
<1>6. PICK x : x = LineEnd(p)
  BY Zenon
<1>7. x = CHOOSE y \in p .. Len(text) :
            /\ \A k \in p .. y - 1 : text[k + 1] # "\n"
            /\ y < Len(text) => text[y + 1] = "\n"
  BY <1>6, Zenon DEF LineEnd
<1>8. EndsAt(p, x)
  BY <1>5, <1>7, Zenon DEF EndsAt
<1> QED
  BY <1>6, <1>8, Zenon

(* After n whole lines there are at least n, and one more if there is more text. *)
LEMMA LinesCounted ==
  ASSUME text \in Seq(Characters), NEW c \in 0 .. Len(text), NEW n \in Nat,
         ColumnAt(text, c) = 1, LineAt(text, c) = n + 1
  PROVE  /\ LineCount \in Nat
         /\ n <= LineCount
         /\ c = Len(text) => LineCount = n
         /\ c < Len(text) => n + 1 <= LineCount
<1>1. PICK s : s = text
  BY Zenon
<1>2. PICK e : e = Len(s)
  OBVIOUS
<1>3. /\ s \in Seq(Characters) /\ e \in Nat /\ c \in Nat /\ c <= e
      /\ ColumnAt(s, c) = 1 /\ LineAt(s, c) = n + 1
  BY <1>1, <1>2
<1>4. /\ LineAt(s, e) \in Nat /\ LineAt(s, c) \in Nat
      /\ LineAt(s, c) <= LineAt(s, e)
  BY <1>3, LinesGoUp
<1>5. LineCount = IF ColumnAt(s, e) = 1 THEN LineAt(s, e) - 1 ELSE LineAt(s, e)
  BY <1>1, <1>2, Zenon DEF LineCount
<1>6. CASE ColumnAt(s, e) = 1
  <2>1. ASSUME LineAt(s, e) = n + 1 PROVE c = e
    <3>1. LineAt(s, e) = LineAt(s, c) /\ ColumnAt(s, e) = ColumnAt(s, c)
      BY <1>3, <1>6, <2>1, Zenon
    <3> QED
      BY <1>3, <3>1, OnePosition
  <2>2. c < e => LineAt(s, e) # n + 1
    BY <1>3, <2>1
  <2>3. c = e => LineAt(s, e) = n + 1
    BY <1>3
  <2> QED
    BY <1>1, <1>2, <1>3, <1>4, <1>5, <1>6, <2>2, <2>3
<1>7. CASE ColumnAt(s, e) # 1
  <2>1. c # e
    BY <1>3, <1>7, Zenon
  <2> QED
    BY <1>1, <1>2, <1>3, <1>4, <1>5, <1>7, <2>1
<1> QED
  BY <1>6, <1>7

(* What comes after a line that starts at c and ends at e. *)
LEMMA AfterLine ==
  ASSUME text \in Seq(Characters), NEW c \in 0 .. Len(text) - 1, NEW n \in Nat,
         ColumnAt(text, c) = 1, LineAt(text, c) = n, NEW e, EndsAt(c, e)
  PROVE  IF e < Len(text)
           THEN LineAt(text, e + 1) = n + 1 /\ ColumnAt(text, e + 1) = 1
           ELSE e = Len(text) /\ LineCount = n
<1>1. PICK s : s = text
  BY Zenon
<1>2. /\ s \in Seq(Characters) /\ c \in Nat /\ e \in Nat /\ c <= e /\ e <= Len(s)
      /\ \A k \in c .. e - 1 : s[k + 1] # "\n"
      /\ e < Len(s) => s[e + 1] = "\n"
      /\ ColumnAt(s, c) = 1 /\ LineAt(s, c) = n
      /\ c < Len(s)
  BY <1>1 DEF EndsAt
<1>3. LineAt(s, e) = n /\ ColumnAt(s, e) = 1 + (e - c)
  BY <1>2, SameLine
<1>4. CASE e < Len(s)
  <2>1. LineAt(s, e + 1) = LineAt(s, e) + 1 /\ ColumnAt(s, e + 1) = 1
    BY <1>2, <1>4, AfterNewline
  <2> QED
    BY <1>1, <1>3, <1>4, <2>1
<1>5. CASE ~ (e < Len(s))
  <2>1. e = Len(s) /\ ColumnAt(s, e) # 1
    BY <1>2, <1>3, <1>5
  <2>2. LineCount = LineAt(s, e)
    BY <1>1, <2>1, Zenon DEF LineCount
  <2> QED
    BY <1>1, <1>3, <1>5, <2>1, <2>2
<1> QED
  BY <1>4, <1>5

(* Of n characters all but a newline at the end. *)
UpToNewline(n, end) == end = IF unread[n] = "\n" THEN n - 1 ELSE n

(* These are the line from c to e. *)
WholeLine(n, end, c, e) ==
  /\ n = IF e < Len(text) THEN e - c + 1 ELSE e - c
  /\ end = e - c
  /\ SubSeq(unread, 1, end) = SubSeq(text, c + 1, e)

(* fgets takes a line that fits as a whole, with its newline. *)
LEMMA FgetsTakesLine ==
  ASSUME text \in Seq(Characters), NEW c \in 0 .. Len(text) - 1,
         unread = SubSeq(text, c + 1, Len(text)),
         NEW e, EndsAt(c, e), e - c < LineBytes - 1,
         NEW n, EndsLine(n), NEW end, UpToNewline(n, end)
  PROVE  WholeLine(n, end, c, e)
<1>1. PICK s : s = text
  BY Zenon
<1>2. PICK u : u = unread
  BY Zenon
<1>3. /\ s \in Seq(Characters) /\ c \in 0 .. Len(s) - 1
      /\ u = SubSeq(s, c + 1, Len(s))
      /\ e \in c .. Len(s)
      /\ \A k \in c .. e - 1 : s[k + 1] # "\n"
      /\ e < Len(s) => s[e + 1] = "\n"
  BY <1>1, <1>2, Zenon DEF EndsAt
<1>4. /\ n \in 1 .. Len(u)
      /\ n = LineBytes - 1 \/ n = Len(u) \/ u[n] = "\n"
      /\ \A k \in 1 .. n - 1 : u[k] # "\n"
      /\ LineBytes \in Int
  <2>1. LineBytes \in Int
    BY ReaderAssumption
  <2> QED
    BY <1>2, <2>1, Zenon DEF EndsLine
<1>5. c + 1 \in Int /\ Len(s) \in Int /\ \A k \in c + 1 .. Len(s) : s[k] \in Characters
  BY <1>3
<1>6. /\ u \in Seq(Characters)
      /\ Len(u) = IF c + 1 <= Len(s) THEN Len(s) - (c + 1) + 1 ELSE 0
      /\ \A k \in 1 .. Len(s) - (c + 1) + 1 : u[k] = s[c + 1 + k - 1]
  BY <1>3, <1>5, SubSeqProperties
<1>7. /\ Len(u) = Len(s) - c
      /\ \A k \in 1 .. Len(u) : u[k] = s[c + k]
  <2>1. Len(u) = Len(s) - c
    BY <1>3, <1>6
  <2>2. ASSUME NEW k \in 1 .. Len(u) PROVE u[k] = s[c + k]
    <3>1. k \in 1 .. Len(s) - (c + 1) + 1 /\ c + 1 + k - 1 = c + k
      BY <1>3, <2>1
    <3> QED
      BY <1>6, <3>1, Zenon
  <2> QED
    BY <2>1, <2>2
<1>8. ASSUME NEW k \in 1 .. Len(u), k <= e - c PROVE u[k] # "\n"
  <2>1. PICK i : i = c + k - 1
    OBVIOUS
  <2>2. i \in c .. e - 1 /\ i + 1 = c + k
    BY <1>3, <1>7, <1>8, <2>1
  <2> QED
    BY <1>3, <1>7, <2>2
<1>9. SubSeq(u, 1, e - c) = SubSeq(s, c + 1, e)
  <2>1. PICK i, j, m : i = c + 1 /\ j = Len(s) /\ m = e - c
    OBVIOUS
  <2>2. CASE e = c
    <3>1. /\ 1 \in Int /\ m \in Int /\ m < 1
          /\ i \in Int /\ e \in Int /\ e < i
      BY <1>3, <2>1, <2>2
    <3>2. SubSeq(u, 1, m) = << >> /\ SubSeq(s, i, e) = << >>
      BY <3>1, SubSeqEmpty
    <3> QED
      BY <2>1, <3>2, Zenon
  <2>3. CASE e # c
    <3>1. PICK one : one = 1
      OBVIOUS
    <3>2. /\ i \in 1 .. Len(s) /\ j \in 1 .. Len(s)
          /\ one \in 1 .. j - i + 1 /\ m \in 1 .. j - i + 1
          /\ i + one - 1 = i /\ i + m - 1 = e
      BY <1>3, <2>1, <2>3, <3>1
    <3>3. SubSeq(SubSeq(s, i, j), one, m) = SubSeq(s, i + one - 1, i + m - 1)
      BY <1>3, <3>2, SubSeqOfSubSeq
    <3> QED
      BY <1>3, <2>1, <3>1, <3>2, <3>3, Zenon
  <2> QED
    BY <2>2, <2>3
<1>10. CASE e < Len(s)
  <2>1. PICK m : m = e - c + 1
    OBVIOUS
  <2>2. m \in 1 .. Len(u) /\ c + m = e + 1
    BY <1>3, <1>7, <1>10, <2>1
  <2>3. u[m] = "\n"
    BY <1>3, <1>7, <1>10, <2>2
  <2>4. ~ (m < n)
    <3>1. m < n => m \in 1 .. n - 1
      BY <1>4, <2>2
    <3> QED
      BY <1>4, <2>3, <3>1
  <2>5. ~ (n < m)
    <3>1. ASSUME n < m PROVE FALSE
      <4>1. u[n] # "\n"
        BY <1>3, <1>4, <1>8, <2>1, <3>1
      <4>2. n # Len(u)
        BY <2>2, <3>1, <1>4
      <4>3. n # LineBytes - 1
        BY <1>3, <1>4, <2>1, <3>1
      <4> QED
        BY <1>4, <4>1, <4>2, <4>3
    <3> QED
      BY <3>1
  <2>6. n = m
    BY <1>4, <2>2, <2>4, <2>5
  <2>7. u[n] = "\n" /\ n = e - c + 1
    BY <2>1, <2>3, <2>6, Zenon
  <2>8. end = e - c
    <3>1. PICK d : d = e - c
      OBVIOUS
    <3>2. d \in Int
      BY <1>3, <3>1
    <3>3. n = d + 1 /\ end = n - 1
      BY <1>2, <2>7, <3>1, Zenon DEF UpToNewline
    <3>4. \A i, j, k \in Int : i = j + 1 /\ k = i - 1 => k = j
      OBVIOUS
    <3>5. n \in Int
      BY <1>4
    <3>6. n - 1 \in Int
      BY <3>5
    <3>7. end \in Int
      BY <3>3, <3>6, Zenon
    <3>8. end = d
      BY <3>2, <3>3, <3>4, <3>5, <3>7, Zenon
    <3> QED
      BY <3>1, <3>8, Zenon
  <2> QED
    BY <1>1, <1>2, <1>9, <1>10, <2>7, <2>8, Zenon DEF WholeLine
<1>11. CASE ~ (e < Len(s))
  <2>1. e = Len(s) /\ Len(u) = e - c
    <3>1. e \in Int /\ Len(s) \in Int /\ e <= Len(s)
      BY <1>3
    <3>2. e = Len(s)
      BY <1>11, <3>1
    <3> QED
      BY <1>7, <3>2, Zenon
  <2>2. u[n] # "\n"
    BY <1>4, <1>8, <2>1
  <2>3. n # LineBytes - 1
    BY <1>3, <1>4, <2>1
  <2>4. n = e - c
    BY <1>4, <2>1, <2>2, <2>3
  <2>5. end = e - c
    BY <1>2, <2>2, <2>4 DEF UpToNewline
  <2> QED
    BY <1>1, <1>2, <1>9, <1>11, <2>4, <2>5, Zenon DEF WholeLine
<1> QED
  BY <1>10, <1>11

-----------------------------------------------------------------------------
(* A session whose lines fit is taken line by line *)

Consumed == Len(text) - Len(unread)

(* How many pieces have been begun. *)
Begun == IF lexing THEN Len(handed) + 1 ELSE Len(handed)

UnreadIsRest ==
  /\ Len(unread) <= Len(text)
  /\ unread = SubSeq(text, Consumed + 1, Len(text))

(* What LinesArriveWhole asks of the text. *)
LinesFit ==
  /\ ~ is_file
  /\ NUL \notin ToSet(text)
  /\ \A k \in 1 .. LineCount : Len(LineOf(k)) < LineBytes - 1

(* Every piece is a line, also the one that is lexed, and the next piece begins where
   a line does, unless all has been read. *)
LineByLine ==
  /\ Len(handed) <= LineCount
  /\ \A k \in 1 .. Len(handed) : TextOf(handed[k]) = Visible(LineOf(k))
  /\ lexing => Begun <= LineCount /\ Taken = Visible(LineOf(Begun))
  /\ panic = "none" =>
       \/ LineAt(text, Consumed) = Begun + 1 /\ ColumnAt(text, Consumed) = 1
       \/ Consumed = Len(text) /\ Begun = LineCount

LinesInv == UnreadIsRest /\ (LinesFit => LineByLine)

(* The lines stay what they are. *)
LEMMA LinesStay ==
  ASSUME text' = text
  PROVE  LineCount' = LineCount /\ \A k : LineOf(k)' = LineOf(k)
<1>1. LineCount' = LineCount
  BY Zenon DEF LineCount
<1>2. ASSUME NEW k PROVE LineOf(k)' = LineOf(k)
  BY Zenon DEF LineOf, LineStart, LineEnd
<1> QED
  BY <1>1, <1>2, Zenon

(* So do the conditions on them. *)
LEMMA FitStays ==
  ASSUME UNCHANGED <<text, is_file>>
  PROVE  LinesFit' <=> LinesFit
BY LinesStay, Zenon DEF LinesFit

(* At the start no line is taken. *)
LEMMA InitLines == ReaderInit => LinesInv
<1> SUFFICES ASSUME ReaderInit PROVE LinesInv
  OBVIOUS
<1>1. /\ handed = << >> /\ unread = text /\ lexing = FALSE
      /\ text \in Seq(Characters)
  BY ReaderAssumption DEF ReaderInit
<1>2. Consumed = 0 /\ Consumed + 1 = 1
  BY <1>1 DEF Consumed
<1>3. UnreadIsRest
  <2>1. Len(text) <= Len(text)
    BY <1>1
  <2>2. SubSeq(text, 1, Len(text)) = text
    BY <1>1, SubSeqFull
  <2> QED
    BY <1>1, <1>2, <2>1, <2>2, Zenon DEF UnreadIsRest
<1>4. Begun = 0 /\ Len(handed) = 0
  BY <1>1 DEF Begun
<1>5. PICK c, n, s : c = 0 /\ n = 0 /\ s = text
  BY Zenon
<1>6. LineAt(s, c) = n + 1 /\ ColumnAt(s, c) = 1
  BY <1>5, FirstPosition
<1>7. 0 <= LineCount
  <2>1. c \in 0 .. Len(text) /\ n \in Nat
    BY <1>1, <1>5
  <2>2. n <= LineCount
    BY <1>1, <1>5, <1>6, <2>1, LinesCounted
  <2> QED
    BY <1>5, <2>2, Zenon
<1>8. LineByLine
  <2>1. LineAt(text, Consumed) = Begun + 1 /\ ColumnAt(text, Consumed) = 1
    BY <1>2, <1>4, <1>5, <1>6, Zenon
  <2>2. \A k \in 1 .. Len(handed) : TextOf(handed[k]) = Visible(LineOf(k))
    BY <1>4
  <2> QED
    BY <1>1, <1>4, <1>7, <2>1, <2>2, Zenon DEF LineByLine
<1> QED
  BY <1>3, <1>8 DEF LinesInv

(* What is unread stays the rest of the text. *)
LEMMA RestAfterLine ==
  ASSUME ReaderInv, UnreadIsRest, NEW n \in 1 .. Len(unread),
         unread' = SubSeq(unread, n + 1, Len(unread)), text' = text
  PROVE  UnreadIsRest' /\ Consumed' = Consumed + n
<1>1. PICK s, u, v : s = text /\ u = unread /\ v = unread'
  BY Zenon
<1>2. PICK c, l, m : c = Consumed /\ l = Len(s) /\ m = Len(u)
  BY Zenon
<1>3. /\ s \in Seq(Characters) /\ u \in Seq(Characters)
      /\ m <= l /\ c = l - m /\ n \in 1 .. m
      /\ u = SubSeq(s, c + 1, l) /\ v = SubSeq(u, n + 1, m)
  BY <1>1, <1>2, Zenon DEF UnreadIsRest, Consumed, ReaderInv, SourceOK
<1>4. l \in Nat /\ m \in Nat /\ c \in Nat /\ n \in Nat
  BY <1>2, <1>3
<1>5. v \in Seq(Characters) /\ Len(v) = m - n
  <2>1. n + 1 \in Int /\ m \in Int
    BY <1>4
  <2>2. \A k \in n + 1 .. m : u[k] \in Characters
    BY <1>2, <1>3, <1>4
  <2>3. /\ v \in Seq(Characters)
        /\ Len(v) = IF n + 1 <= m THEN m - (n + 1) + 1 ELSE 0
    BY <1>3, <2>1, <2>2, SubSeqProperties
  <2> QED
    BY <1>3, <1>4, <2>3
<1>6. Len(v) <= l /\ l - Len(v) = c + n
  BY <1>3, <1>4, <1>5
<1>7. v = SubSeq(s, c + n + 1, l)
  <2>1. CASE n = m
    <3>1. PICK i, j : i = n + 1 /\ j = c + n + 1
      OBVIOUS
    <3>2. i \in Int /\ j \in Int /\ m \in Int /\ l \in Int /\ m < i /\ l < j
      BY <1>3, <1>4, <2>1, <3>1
    <3>3. SubSeq(u, i, m) = << >> /\ SubSeq(s, j, l) = << >>
      BY <3>2, SubSeqEmpty
    <3> QED
      BY <1>3, <3>1, <3>3, Zenon
  <2>2. CASE n # m
    <3>1. PICK i, j, k : i = c + 1 /\ j = n + 1 /\ k = c + n + 1
      OBVIOUS
    <3>2. /\ i \in 1 .. l /\ l \in 1 .. l
          /\ j \in 1 .. l - i + 1 /\ m \in 1 .. l - i + 1
          /\ i + j - 1 = k /\ i + m - 1 = l
      <4>1. m <= l /\ c = l - m /\ n \in 1 .. m
        BY <1>3
      <4>2. l - i + 1 = m
        BY <1>4, <3>1, <4>1
      <4> QED
        BY <1>4, <2>2, <3>1, <4>1, <4>2
    <3>3. i \in 1 .. Len(s) /\ l \in 1 .. Len(s)
      BY <1>2, <3>2, Zenon
    <3>4. SubSeq(SubSeq(s, i, l), j, m) = SubSeq(s, i + j - 1, i + m - 1)
      BY <1>3, <3>2, <3>3, SubSeqOfSubSeq
    <3> QED
      BY <1>3, <3>1, <3>2, <3>4, Zenon
  <2> QED
    BY <2>1, <2>2
<1>8. Consumed' = c + n
  BY <1>1, <1>2, <1>6, Zenon DEF Consumed
<1> QED
  BY <1>1, <1>2, <1>6, <1>7, <1>8, Zenon DEF UnreadIsRest

(* A file is read in one piece. *)
LEMMA ReadFileKeepsLines ==
  ASSUME ReaderInv, LinesInv, ReadFile
  PROVE  LinesInv'
<1>1. is_file /\ UNCHANGED <<text, is_file>> /\ unread' \in {unread, << >>}
  BY DEF ReadFile
<1>2. ~ LinesFit'
  BY <1>1 DEF LinesFit
<1>3. CASE unread' = unread
  <2>1. UnreadIsRest'
    BY <1>1, <1>3 DEF LinesInv, UnreadIsRest, Consumed
  <2> QED
    BY <1>2, <2>1 DEF LinesInv
<1>4. CASE unread' = << >>
  <2>1. PICK s, l : s = text /\ l = Len(s)
    BY Zenon
  <2>2. l \in Nat
    BY <2>1 DEF ReaderInv, SourceOK
  <2>3. Consumed' = l /\ Len(unread') = 0
    BY <1>1, <1>4, <2>1, <2>2 DEF Consumed
  <2>4. PICK i : i = l + 1
    OBVIOUS
  <2>5. i \in Int /\ l \in Int /\ l < i /\ 0 <= l
    BY <2>2, <2>4
  <2>6. SubSeq(s, i, l) = << >>
    BY <2>5, SubSeqEmpty
  <2>7. UnreadIsRest'
    BY <1>1, <1>4, <2>1, <2>3, <2>4, <2>5, <2>6, Zenon DEF UnreadIsRest
  <2> QED
    BY <1>2, <2>7 DEF LinesInv
<1> QED
  BY <1>1, <1>3, <1>4

(* Each turn of the loop works on the line that has been begun. *)
LEMMA LexKeepsLines ==
  ASSUME ReaderInv, PiecesOK, LinesInv, Lex
  PROVE  LinesInv'
<1>1. LexStep /\ UNCHANGED <<text, unread, is_file>>
  BY DEF Lex
<1>2. UnreadIsRest'
  BY <1>1 DEF LinesInv, UnreadIsRest, Consumed
<1>3. SUFFICES ASSUME LinesFit, LineByLine PROVE LineByLine'
  BY <1>1, <1>2, FitStays, Zenon DEF LinesInv
<1>4. lexing
  BY <1>1 DEF LexStep, Newline, Space, Symbol, Word, Number, NoRoom, Illegal, Finish, Lexing
<1>5. PICK b, n : b = Begun /\ n = Len(handed)
  BY Zenon
<1>6. /\ handed \in Seq(Seq(TokensOf)) /\ n \in Nat /\ b = n + 1
      /\ panic = "none"
  BY <1>4, <1>5 DEF PiecesOK, Begun
<1>7. PICK q : q = Visible(LineOf(b))
  BY Zenon
<1>8. b <= LineCount /\ Taken = q
  BY <1>3, <1>4, <1>5, <1>7, Zenon DEF LineByLine
<1>9. /\ n <= LineCount
      /\ \A k \in 1 .. n : TextOf(handed[k]) = Visible(LineOf(k))
      /\ \/ LineAt(text, Consumed) = b + 1 /\ ColumnAt(text, Consumed) = 1
         \/ Consumed = Len(text) /\ b = LineCount
  BY <1>3, <1>5, <1>6, Zenon DEF LineByLine
<1>10. LineCount' = LineCount /\ \A k : LineOf(k)' = LineOf(k)
  BY <1>1, LinesStay
<1>11. Consumed' = Consumed
  BY <1>1, Zenon DEF Consumed
<1>12. CASE lexing' /\ ~ (Finish /\ Room) /\ Taken' = Taken /\ UNCHANGED panic
  <2>1. handed' = handed
    BY <1>12, Zenon DEF Lex
  <2>2. Begun' = b
    BY <1>4, <1>5, <1>12, <2>1, Zenon DEF Begun
  <2>3. Visible(LineOf(Begun))' = q
    BY <1>1, <1>7, <2>2, Zenon DEF LineOf, LineStart, LineEnd
  <2>4. \A k \in 1 .. Len(handed') : TextOf(handed'[k]) = Visible(LineOf(k)')
    BY <1>5, <1>9, <1>10, <2>1, Zenon
  <2> QED
    BY <1>1, <1>5, <1>8, <1>9, <1>10, <1>11, <1>12, <2>1, <2>2, <2>3, <2>4, Zenon
       DEF LineByLine
<1>13. CASE ~ lexing' /\ Finish /\ Room /\ TextOf(tokens') = Taken /\ UNCHANGED panic
  <2>1. handed' = Append(handed, tokens')
    BY <1>13, Zenon DEF Lex
  <2>2. PICK hs, ts, more : hs = handed /\ ts = tokens' /\ more = handed'
    BY Zenon
  <2>3. hs \in Seq(Seq(TokensOf)) /\ ts \in Seq(TokensOf) /\ more = Append(hs, ts)
    BY <1>6, <2>1, <2>2, LexKeepsInv, Zenon DEF ReaderInv, ReaderTypeOK
  <2>4. /\ Len(more) = b
        /\ \A k \in 1 .. n : more[k] = hs[k]
        /\ more[b] = ts
    <3>1. Len(hs) = n
      BY <1>5, <2>2, Zenon
    <3>2. /\ Len(more) = Len(hs) + 1
          /\ \A k \in 1 .. Len(hs) : more[k] = hs[k]
          /\ more[Len(hs) + 1] = ts
      BY <2>3, AppendProperties
    <3> QED
      BY <1>6, <3>1, <3>2, Zenon
  <2>5. Begun' = b
    BY <1>13, <2>2, <2>4, Zenon DEF Begun
  <2>6. ASSUME NEW k \in 1 .. b PROVE TextOf(more[k]) = Visible(LineOf(k))
    <3>1. CASE k = b
      BY <1>7, <1>8, <1>13, <2>2, <2>4, <3>1, Zenon
    <3>2. CASE k # b
      <4>1. k \in 1 .. n
        BY <1>6, <3>2
      <4> QED
        BY <1>9, <2>2, <2>4, <4>1, Zenon
    <3> QED
      BY <3>1, <3>2
  <2>7. \A k \in 1 .. Len(handed') : TextOf(handed'[k]) = Visible(LineOf(k)')
    BY <1>10, <2>2, <2>4, <2>6, Zenon
  <2> QED
    BY <1>1, <1>8, <1>9, <1>10, <1>11, <1>13, <2>2, <2>4, <2>5, <2>7, Zenon DEF LineByLine
<1>14. CASE ~ lexing' /\ ~ (Finish /\ Room) /\ panic' # "none"
  <2>1. handed' = handed
    BY <1>14, Zenon DEF Lex
  <2>2. \A k \in 1 .. Len(handed') : TextOf(handed'[k]) = Visible(LineOf(k)')
    BY <1>5, <1>9, <1>10, <2>1, Zenon
  <2> QED
    BY <1>5, <1>9, <1>10, <1>14, <2>1, <2>2, Zenon DEF LineByLine
<1> QED
  BY <1>1, <1>12, <1>13, <1>14, TurnsKeepTaken, Zenon

(* ReadLine takes the next line. *)
LEMMA ReadLineKeepsLines ==
  ASSUME ReaderInv, PiecesOK, LinesInv, ReadLine
  PROVE  LinesInv'
<1>1. UNCHANGED <<text, is_file>> /\ ~ lexing /\ panic = "none" /\ unread # << >>
  BY DEF ReadLine, Waiting
<1>2. UnreadIsRest'
  <2>1. PICK n : n = Fgets
    BY Zenon
  <2>2. EndsLine(n)
    <3>1. unread \in Seq(Characters)
      BY DEF ReaderInv, SourceOK
    <3> QED
      BY <1>1, <2>1, <3>1, FgetsIs, Zenon
  <2>3. n \in 1 .. Len(unread)
    BY <2>2 DEF EndsLine
  <2>4. unread' = SubSeq(unread, n + 1, Len(unread)) /\ text' = text
    BY <2>1, Zenon DEF ReadLine
  <2>5. UnreadIsRest
    BY DEF LinesInv
  <2> QED
    BY <2>3, <2>4, <2>5, RestAfterLine
<1>3. SUFFICES ASSUME LinesFit, LineByLine PROVE LineByLine'
  BY <1>1, <1>2, FitStays, Zenon DEF LinesInv
<1>4. PICK n, end : LineRead(n, end)
  BY <1>3, ReadLineIs, Zenon DEF LinesFit
<1>5. PICK b, c, l : b = Len(handed) + 1 /\ c = Consumed /\ l = Len(text)
  BY Zenon
<1>6. /\ handed \in Seq(Seq(TokensOf)) /\ b \in Nat /\ b >= 1 /\ b = Len(handed) + 1
      /\ Begun = Len(handed) /\ Begun \in Nat
  BY <1>1, <1>5 DEF PiecesOK, Begun
<1>7. /\ text \in Seq(Characters) /\ unread \in Seq(Characters)
      /\ unread = SubSeq(text, c + 1, Len(text))
      /\ Len(unread) <= Len(text) /\ c = Len(text) - Len(unread)
  BY <1>5, Zenon DEF ReaderInv, SourceOK, LinesInv, UnreadIsRest, Consumed
<1>8. c \in 0 .. l - 1 /\ l \in Nat /\ c \in 0 .. Len(text) - 1 /\ c \in 0 .. Len(text)
  <2>1. Len(unread) \in Nat /\ Len(unread) # 0 /\ Len(text) \in Nat
    <3>1. unread \in Seq(Characters) /\ text \in Seq(Characters) /\ unread # << >>
      BY <1>1, <1>7, Zenon
    <3> QED
      BY <3>1
  <2>2. Len(unread) <= l /\ c = l - Len(unread) /\ Len(text) = l
    BY <1>5, <1>7
  <2> QED
    BY <2>1, <2>2
<1>9. LineAt(text, c) = b /\ ColumnAt(text, c) = 1
  <2>1. Consumed # Len(text)
    BY <1>5, <1>8
  <2> QED
    BY <1>1, <1>3, <1>5, <1>6, <2>1, Zenon DEF LineByLine
<1>10. PICK e : e = LineEnd(c)
  BY Zenon
<1>11. EndsAt(c, e)
  BY <1>7, <1>8, <1>10, LineEndIs
<1>12. LineOf(b) = SubSeq(text, c + 1, e)
  <2>1. LineStart(b) = c
    BY <1>7, <1>8, <1>9, LineStartIs
  <2> QED
    BY <1>10, <2>1, Zenon DEF LineOf
<1>13. b \in 1 .. LineCount /\ LineCount \in Nat
  <2>1. PICK d : d = Begun
    BY Zenon
  <2>2. d \in Nat /\ b = d + 1
    BY <1>6, <2>1
  <2>3. ColumnAt(text, c) = 1 /\ LineAt(text, c) = d + 1 /\ c \in 0 .. Len(text)
    BY <1>8, <1>9, <2>2, Zenon
  <2>4. /\ LineCount \in Nat
        /\ c < Len(text) => d + 1 <= LineCount
    BY <1>7, <2>2, <2>3, LinesCounted
  <2>5. c < Len(text)
    BY <1>5, <1>8
  <2> QED
    BY <2>2, <2>4, <2>5
<1>14. e - c < LineBytes - 1
  <2>1. Len(LineOf(b)) < LineBytes - 1
    BY <1>3, <1>13, Zenon DEF LinesFit
  <2>2. PICK s : s = text
    BY Zenon
  <2>3. s \in Seq(Characters) /\ c \in Nat /\ e \in Nat /\ c <= e /\ e <= Len(s)
    BY <1>7, <1>8, <1>11, <2>2 DEF EndsAt
  <2>4. c + 1 \in Int /\ e \in Int /\ \A k \in c + 1 .. e : s[k] \in Characters
    BY <2>3
  <2>5. Len(SubSeq(s, c + 1, e)) = IF c + 1 <= e THEN e - (c + 1) + 1 ELSE 0
    BY <2>4, SubSeqProperties
  <2>6. Len(SubSeq(s, c + 1, e)) = e - c
    BY <2>3, <2>5
  <2> QED
    BY <1>12, <2>1, <2>2, <2>6, Zenon
<1>15. EndsLine(n) /\ UpToNewline(n, end)
  BY <1>4, Zenon DEF LineRead, UpToNewline
<1>16. /\ n = IF e < Len(text) THEN e - c + 1 ELSE e - c
       /\ SubSeq(unread, 1, end) = SubSeq(text, c + 1, e)
  <2>1. text \in Seq(Characters) /\ unread = SubSeq(text, c + 1, Len(text))
    BY <1>7, Zenon
  <2>2. c \in 0 .. Len(text) - 1
    BY <1>8, Zenon
  <2>3. WholeLine(n, end, c, e)
    BY <1>11, <1>14, <1>15, <2>1, <2>2, FgetsTakesLine
  <2> QED
    BY <2>3, Zenon DEF WholeLine
<1>17. Taken' = Visible(LineOf(b))
  BY <1>4, <1>12, <1>16, Zenon DEF LineRead
<1>18. lexing' /\ handed' = handed
  BY <1>4, Zenon DEF LineRead
<1>19. Begun' = b
  BY <1>5, <1>18, Zenon DEF Begun
<1>20. Consumed' = c + n
  <2>1. n \in 1 .. Len(unread)
    BY <1>15 DEF EndsLine
  <2>2. unread' = SubSeq(unread, n + 1, Len(unread)) /\ text' = text /\ UnreadIsRest
    BY <1>4, Zenon DEF LineRead, LinesInv
  <2>3. Consumed' = Consumed + n
    BY <2>1, <2>2, RestAfterLine
  <2> QED
    BY <1>5, <2>3, Zenon
<1>21. \/ LineAt(text, c + n) = b + 1 /\ ColumnAt(text, c + n) = 1
       \/ c + n = Len(text) /\ b = LineCount
  <2>1. IF e < Len(text)
          THEN LineAt(text, e + 1) = b + 1 /\ ColumnAt(text, e + 1) = 1
          ELSE e = Len(text) /\ LineCount = b
    BY <1>6, <1>7, <1>8, <1>9, <1>11, AfterLine
  <2>2. c \in Int /\ e \in Int
    BY <1>8, <1>11 DEF EndsAt
  <2>3. CASE e < Len(text)
    <3>1. c + n = e + 1
      BY <1>16, <2>2, <2>3
    <3> QED
      BY <2>1, <2>3, <3>1, Zenon
  <2>4. CASE ~ (e < Len(text))
    <3>1. c + n = e
      BY <1>16, <2>2, <2>4
    <3> QED
      BY <2>1, <2>4, <3>1, Zenon
  <2> QED
    BY <2>3, <2>4
<1>22. LineCount' = LineCount /\ \A k : LineOf(k)' = LineOf(k)
  BY <1>1, LinesStay
<1>23. Visible(LineOf(Begun))' = Visible(LineOf(b))
  BY <1>1, <1>19, Zenon DEF LineOf, LineStart, LineEnd
<1>24. /\ Len(handed) <= LineCount
       /\ \A k \in 1 .. Len(handed) : TextOf(handed[k]) = Visible(LineOf(k))
  BY <1>3, Zenon DEF LineByLine
<1>25. \A k \in 1 .. Len(handed') : TextOf(handed'[k]) = Visible(LineOf(k)')
  BY <1>18, <1>22, <1>24, Zenon
<1>26. b <= LineCount
  BY <1>13
<1>27. \/ LineAt(text', Consumed') = Begun' + 1 /\ ColumnAt(text', Consumed') = 1
       \/ Consumed' = Len(text') /\ Begun' = LineCount'
  BY <1>1, <1>19, <1>20, <1>21, <1>22, Zenon
<1> QED
  BY <1>17, <1>18, <1>19, <1>22, <1>23, <1>24, <1>25, <1>26, <1>27, Zenon DEF LineByLine

(* Every step keeps to the lines. *)
LEMMA NextLines ==
  ASSUME ReaderInv, PiecesOK, LinesInv, [ReaderNext]_readerVars
  PROVE  LinesInv'
<1>1. CASE ReadFile
  BY <1>1, ReadFileKeepsLines
<1>2. CASE ReadLine
  BY <1>2, ReadLineKeepsLines
<1>3. CASE Lex
  BY <1>3, LexKeepsLines
<1>4. CASE UNCHANGED readerVars
  <2>1. /\ UNCHANGED <<text, is_file, unread, handed, lexing, panic, input, pos, length, tokens>>
    BY <1>4 DEF readerVars, lexerVars
  <2>2. Taken' = Taken /\ Begun' = Begun /\ Consumed' = Consumed
    BY <2>1, Zenon DEF Taken, Remaining, Begun, Consumed
  <2>3. UnreadIsRest' <=> UnreadIsRest
    BY <2>1, <2>2, Zenon DEF UnreadIsRest
  <2>4. LineCount' = LineCount /\ \A k : LineOf(k)' = LineOf(k)
    BY <2>1, LinesStay
  <2>5. Visible(LineOf(Begun))' = Visible(LineOf(Begun))
    BY <2>1, <2>2, Zenon DEF LineOf, LineStart, LineEnd
  <2>6. LineByLine' <=> LineByLine
    BY <2>1, <2>2, <2>4, <2>5, Zenon DEF LineByLine
  <2> QED
    BY <2>1, <2>3, <2>6, FitStays, Zenon DEF LinesInv
<1> QED
  BY <1>1, <1>2, <1>3, <1>4 DEF ReaderNext

(* Whole lines are what LinesArriveWhole asks for. *)
LEMMA LinesAreWhole ==
  ASSUME ReaderInv, PiecesOK, LinesInv
  PROVE  LinesArriveWhole
<1>1. SUFFICES ASSUME LinesFit, LineByLine
      PROVE  /\ Len(handed) <= LineCount
             /\ Waiting /\ unread = << >> => Len(handed) = LineCount
             /\ \A k \in 1 .. Len(handed) : TextOf(handed[k]) = Visible(LineOf(k))
  BY Zenon DEF LinesInv, LinesFit, LinesArriveWhole
<1>2. ASSUME Waiting, unread = << >> PROVE Len(handed) = LineCount
  <2>1. PICK c, d : c = Consumed /\ d = Begun
    BY Zenon
  <2>2. /\ text \in Seq(Characters) /\ c = Len(text) /\ d = Len(handed) /\ d \in Nat
        /\ c \in 0 .. Len(text)
    BY <1>2, <2>1 DEF ReaderInv, SourceOK, PiecesOK, Consumed, Begun, Waiting
  <2>3. \/ LineAt(text, c) = d + 1 /\ ColumnAt(text, c) = 1
        \/ d = LineCount
    BY <1>1, <1>2, <2>1, Zenon DEF LineByLine, Waiting
  <2>4. LineAt(text, c) = d + 1 /\ ColumnAt(text, c) = 1 => LineCount = d
    BY <2>2, LinesCounted
  <2> QED
    BY <2>2, <2>3, <2>4, Zenon
<1> QED
  BY <1>1, <1>2, Zenon DEF LineByLine

(* A session whose lines fit into the buffer reaches the parser line by line: never
   part of a line, or two, however fgets and the lexer's loop take turns. *)
THEOREM LinesAlwaysWhole == ReaderSpec => []LinesArriveWhole
<1>1. ReaderSpec => [](ReaderInv /\ PiecesOK /\ LinesInv)
  <2>1. ReaderInit => ReaderInv /\ PiecesOK /\ LinesInv
    BY InitReaderInv, InitInBalance, InitLines
  <2>2. ReaderInv /\ PiecesOK /\ LinesInv /\ [ReaderNext]_readerVars
          => (ReaderInv /\ PiecesOK /\ LinesInv)'
    BY NextReaderInv, PiecesKept, NextLines
  <2> QED
    BY <2>1, <2>2, PTL DEF ReaderSpec
<1> QED
  BY <1>1, LinesAreWhole, PTL
===============================================================================
