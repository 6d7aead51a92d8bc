------------------------------- MODULE Lexer -------------------------------
(***************************************************************************)
(* Lexer: lexer.Lex, which cuts a source text into items, line by line.    *)
(* One action is one way through the body of its loop.  `line' and `i' are *)
(* the code's, counted from 1; reading input[i] past the end of a line is  *)
(* the panic of an index out of range.                                     *)
(***************************************************************************)
EXTENDS Integers, Sequences, SequencesExt, FiniteSetsExt

CONSTANT Texts  \* the source texts: sequences of lines, which are sequences of characters

ASSUME TextsAssumption == Texts \subseteq Seq(Seq(STRING)) \ {<<>>}

VARIABLES
  source,  \* the text, split at "\n"
  line,    \* the line Lex works on,
  i,       \*   and the position in it
  items,   \* `res'
  lexing   \* "runs", "done", or "panics"

lexVars == <<source, line, i, items, lexing>>

Letters ==
  {"a", "b", "c", "d", "e", "f", "g", "h", "i", "j", "k", "l", "m", "n", "o", "p", "q",
   "r", "s", "t", "u", "v", "w", "x", "y", "z", "A", "B", "C", "D", "E", "F", "G", "H",
   "I", "J", "K", "L", "M", "N", "O", "P", "Q", "R", "S", "T", "U", "V", "W", "X", "Y",
   "Z", "_"}

Digits == {"0", "1", "2", "3", "4", "5", "6", "7", "8", "9"}

Blanks == {" ", "\t"}

keywords ==
  {"if", "else", "func", "return", "type", "struct", "var", "const", "package", "for",
   "break", "continue", "import", "true", "false", "interface", "range", "switch", "case",
   "fallthrough", "default"}

\* ".." is there so that "..." can be found
operations ==
  {"+", "&", "+=", "&=", "&&", "==", "!=", "(", ")", "-", "|", "-=", "|=", "||", "<",
   "<=", "[", "]", "*", "^", "*=", "^=", "<-", ">", ">=", "{", "}", "/", "<<", "/=",
   "<<=", "++", "=", ":=", ",", ";", "%", ">>", "%=", ">>=", "--", "!", "...", ".", ":",
   "&^", "&^=", ".."}

\* the characters after a backslash that make an escape sequence
escapeSequences == {"\"", "n"}

Types == {"IDENTIFIER", "KEYWORD", "NUMBER", "STRING", "OPERATOR", "EOF", "EOL"}

Item(type, val, l) == [Type |-> type, Val |-> val, Line |-> l]

\* the string made of some characters
Word(chars) == FoldLeft(LAMBDA w, c : w \o c, "", chars)

LexTypeOK ==
  /\ source \in Seq(Seq(STRING))
  /\ line \in 1..Len(source)
  /\ i \in Nat \ {0}
  /\ items \in Seq([Type : Types, Val : STRING, Line : Nat])
  /\ lexing \in {"runs", "done", "panics"}

-----------------------------------------------------------------------------
input == source[line]

\* the last position of the longest piece of the line from i on whose prefixes are all Ok
LastOf(Ok(_)) ==
  CHOOSE j \in i..Len(input) :
    /\ \A k \in i..j : Ok(SubSeq(input, i, k))
    /\ j < Len(input) => ~Ok(SubSeq(input, i, j + 1))

\* there is a character to look at
Looks == lexing = "runs" /\ i <= Len(input)

\* Items end behind position `last' of the line.
Emit(type, val, last) ==
  /\ items' = Append(items, Item(type, val, line))
  /\ i' = last + 1
  /\ UNCHANGED <<source, line, lexing>>

Panics == lexing' = "panics" /\ UNCHANGED <<source, line, i, items>>

\* the test for "//" reads the character behind a "/"
AtComment == input[i] = "/" /\ i < Len(input) /\ input[i + 1] = "/"
CutComment == input[i] = "/" /\ i = Len(input)

LexFrom(text) ==
  /\ source = text
  /\ line = 1 /\ i = 1
  /\ items = <<>>
  /\ lexing = "runs"

LexInit == \E text \in Texts : LexFrom(text)

\* A wrong variant: the line after the last one is begun, too.
NextLineAlways ==
  /\ lexing = "runs" /\ i > Len(input)
  /\ items' = Append(items, Item("EOL", "", line))
  /\ line' = line + 1 /\ i' = 1
  /\ UNCHANGED <<source, lexing>>

NextLine ==
  /\ lexing = "runs" /\ i > Len(input) /\ line < Len(source)
  /\ items' = Append(items, Item("EOL", "", line))
  /\ line' = line + 1 /\ i' = 1
  /\ UNCHANGED <<source, lexing>>

EndOfText ==
  /\ lexing = "runs" /\ i > Len(input) /\ line = Len(source)
  /\ items' = items \o <<Item("EOL", "", 0), Item("EOF", "", 0)>>
  /\ lexing' = "done"
  /\ UNCHANGED <<source, line, i>>

Comment ==
  /\ Looks /\ AtComment
  /\ i' = Len(input) + 1
  /\ UNCHANGED <<source, line, items, lexing>>

SlashAtEnd == Looks /\ CutComment /\ Panics

Operator ==
  /\ Looks /\ ~AtComment /\ ~CutComment
  /\ input[i] \in operations
  /\ LET last == LastOf(LAMBDA s : Word(s) \in operations)
     IN  Emit("OPERATOR", Word(SubSeq(input, i, last)), last)

-----------------------------------------------------------------------------
\* A wrong variant: a quote ends the string whatever is before it.
ClosingAny == {j \in i + 1..Len(input) : input[j] = "\""}

\* A quote ends the string unless a backslash is before it; a string without such a quote
\* ends with the line.
Closing == {j \in i + 1..Len(input) : input[j] = "\"" /\ input[j - 1] # "\\"}

ClosingAt == IF Closing = {} THEN Len(input) + 1 ELSE Min(Closing)

\* positions k and k + 1 are an escape sequence
EscapeAt(k) == input[k] = "\\" /\ k < Len(input) /\ input[k + 1] \in escapeSequences

\* what position k adds to the value; an unknown escape sequence stays as it is
Piece(k) ==
  IF EscapeAt(k) THEN ""
  ELSE IF EscapeAt(k - 1) /\ input[k] = "n" THEN "\n"
  ELSE input[k]

\* the test for an escape sequence reads the character behind a backslash
CutEscape == Closing = {} /\ input[Len(input)] = "\\"

String ==
  /\ Looks /\ input[i] = "\"" /\ ~CutEscape
  /\ Emit("STRING", Word([k \in 1..ClosingAt - i - 1 |-> Piece(i + k)]), ClosingAt)

BackslashAtEnd == Looks /\ input[i] = "\"" /\ CutEscape /\ Panics

Name ==
  /\ Looks /\ input[i] \in Letters
  /\ LET last == LastOf(LAMBDA s : Last(s) \in Letters \cup Digits)
         name == Word(SubSeq(input, i, last))
     IN  Emit(IF name \in keywords THEN "KEYWORD" ELSE "IDENTIFIER", name, last)

Number ==
  /\ Looks /\ input[i] \in Digits
  /\ LET last == LastOf(LAMBDA s : Last(s) \in Digits)
     IN  Emit("NUMBER", Word(SubSeq(input, i, last)), last)

Blank ==
  /\ Looks /\ input[i] \in Blanks
  /\ i' = i + 1
  /\ UNCHANGED <<source, line, items, lexing>>

UnexpectedChar ==
  /\ Looks
  /\ input[i] \notin operations \cup {"\""} \cup Letters \cup Digits \cup Blanks
  /\ Panics

Lex ==
  \/ NextLine \/ EndOfText \/ Comment \/ SlashAtEnd \/ Operator \/ String
  \/ BackslashAtEnd \/ Name \/ Number \/ Blank \/ UnexpectedChar

LexSpec == LexInit /\ [][Lex]_lexVars
=============================================================================
