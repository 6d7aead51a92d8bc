------------------------------ MODULE Frontend ------------------------------
(***************************************************************************)
(* Frontend: what parseFile of build.go does with the text of a file,      *)
(* lexer.Lex, parser.Parse and the passes const_iota and escape, and what  *)
(* the compiler then makes of a program of straight-line functions,        *)
(* compared with what Go's specification says (GoGrammar, GoPrograms).     *)
(*                                                                         *)
(* There are three kinds of runs: texts that are lexed and no more;        *)
(* programs that go all the way; and programs that begin as the items Lex  *)
(* makes of them.                                                          *)
(***************************************************************************)
EXTENDS Lexer, Parser, Iota, Escape, GoCases

CONSTANTS
  Spelled,  \* programs of which the text is lexed,
  Expressions, Bodies, Declarations, Groups,  \* programs of which the items are given,
  Names,  \* and among them those in which names are looked up,
  IntegerPrograms, Storage, Calls, Assertions, Strings  \* and those that are compiled and run

BitsAssumption ==
  /\ {"i1", "i8", "i16", "i32", "i64"} \subseteq DOMAIN Bits
  /\ \A t \in DOMAIN Bits : Bits[t] \in Nat \ {0}
  /\ Bits["i1"] = 1
ASSUME BitsAssumption

VARIABLES
  program,  \* the program in the file, NoProgram if it is just a text
  file,     \* how Parse ended, and the instructions it returned; Unparsed before
  passes,   \* how many passes are done
  passed,   \* the instructions after them
  ran       \* the programs it can be compiled to: how each ended, and the variables of main
            \* or what the names stand for

frontVars == <<source, line, i, items, lexing, program, file, passes, passed, ran>>

Lowered == INSTANCE Lowering
Go      == INSTANCE GoPrograms
Looked  == INSTANCE Scopes
GoNamed == INSTANCE GoNames

NoProgram == [kind |-> "text"]
Unparsed  == [end |-> "unparsed"]

InitText == LexInit /\ program = NoProgram

InitSpelled == program \in Spelled /\ LexFrom(Text(program.words))

InitListed ==
  /\ \/ program \in Expressions
     \/ program \in Bodies
     \/ program \in Declarations
     \/ program \in Groups
     \/ program \in Names
     \/ program \in IntegerPrograms
     \/ program \in Storage
     \/ program \in Calls
     \/ program \in Assertions
     \/ program \in Strings
  /\ source = <<<<>>>> /\ line = 1 /\ i = 1 /\ lexing = "done"
  /\ items = Items(program.words)

Init ==
  /\ file = Unparsed /\ passes = 0 /\ passed = <<>> /\ ran = {}
  /\ InitText \/ InitSpelled \/ InitListed

LexFile == Lex /\ UNCHANGED <<program, file, passes, passed, ran>>

ParseFile ==
  /\ lexing = "done" /\ program # NoProgram /\ file = Unparsed
  /\ LET p == Parse(items) IN file' = [end |-> p.end, res |-> p.res]
  /\ UNCHANGED <<lexVars, program, passes, passed, ran>>

PassIota ==
  /\ file.end = "" /\ passes = 0
  /\ passes' = 1 /\ passed' = IotaPass(file.res)
  /\ UNCHANGED <<lexVars, program, file, ran>>

PassEscape ==
  /\ passes = 1
  /\ passes' = 2 /\ passed' = EscapePass(passed)
  /\ UNCHANGED <<lexVars, program, file, ran>>

\* Compile, and the run of what it makes, of the programs that have a main
CompileAndRun ==
  /\ passes = 2 /\ ran = {} /\ program.kind \in {"integers", "storage", "calls", "assertions", "strings"}
  /\ ran' = {Lowered!Run(passed, backwards) : backwards \in BOOLEAN}
  /\ UNCHANGED <<lexVars, program, file, passes, passed>>

\* Compile, of functions with ifs, loops, switches and literals: what each name stands for
LookUpNames ==
  /\ passes = 2 /\ ran = {} /\ program.kind = "names"
  /\ ran' = {Looked!Bindings(passed)}
  /\ UNCHANGED <<lexVars, program, file, passes, passed>>

Next == LexFile \/ ParseFile \/ PassIota \/ PassEscape \/ CompileAndRun \/ LookUpNames

Spec == Init /\ [][Next]_frontVars

-----------------------------------------------------------------------------
Parsed == file # Unparsed

ParsedAsGo == file.end = "" /\ file.res = program.tree

\* Types of the variables of the lexer, and what the parser can end with.
TypeOK ==
  /\ LexTypeOK
  /\ file.end \in {"unparsed", "", "panic", "hang"}
  /\ passes \in 0..2
  /\ passes > 0 => Len(passed) = Len(file.res)
  /\ \A run \in ran : run.end \in {"", "panic", "undefined", "exits", "refused"}

\* Lex makes the tokens of Go of every text that Go's scanner accepts, each on its line, and
\* panics at none of them, except for the tokens that LexedApart names (the loops and the
\* reads of input[i+1] in lexer.go:113-201).
LexesAsGo ==
  (lexing # "runs" /\ ~Parsed /\ source # <<<<>>>> /\ \A l \in DOMAIN source : Scans(source[l])) =>
    LET apart == \E l \in DOMAIN source : LexedApart(source[l]) IN
    /\ lexing = "panics" => apart
    /\ lexing = "done" => (items = GoItems(source) <=> ~apart)

\* The operators of an expression are grouped by precedence, from the left, exactly in the
\* expressions that GroupedAsGo names: sortInfix and the flags of parseOneWithOptions
\* (parser.go:129-138, 833-858; infix_sorter.go:51-75) stand in for a grammar.
GroupsAsGo == Parsed /\ program.kind = "expression" => (ParsedAsGo <=> program.plain)

HasEmptySwitch(words) ==
  \E k \in DOMAIN words : words[k] = "switch" /\ SubSeq(words, k + 2, k + 4) = <<"{", "EOL", "}">>

\* Every statement is in the block in which it stands, and is parsed to its end and no
\* further, exactly if the items between one statement and the next make up for those
\* behind which the parser leaves it (the many p.i++ of parser.go); and only a switch without
\* clauses keeps the parser from ending (switch.go:53).
StatementsAsWritten ==
  Parsed => /\ program.kind = "statement" => (ParsedAsGo <=> program.plain)
            /\ file.end = "hang" <=> HasEmptySwitch(program.words)

\* The values that the pass leaves in a group: iota has none any more.
PassedValues(group) == [k \in DOMAIN group[2] |-> Value(group[2][k][3][1], <<>>)]

\* The constants of each group have the values of Go exactly if the group is one that
\* IotaPlain names: the count is per group, and per entry whether or not it has an
\* expression, but what is repeated is the count and not the expression (iota.go:27-48).
IotaAsGo ==
  passes > 0 /\ program.kind = "groups" =>
    \A g \in DOMAIN program.groups :
      IotaPlain(program.groups[g]) <=> PassedValues(passed[g]) = GoValues(program.groups[g])

-----------------------------------------------------------------------------
\* The names of the source, without those that the compiler made up for loops over a range
InSource(bound, events) == {b \in bound : \E e \in DOMAIN events : events[e].name = b[2]}

\* Every use of a name stands for the declaration it has in Go, and clang accepts it, exactly
\* if no declaration in a loop, a switch or the other branch of an if hides the right one,
\* and no function literal uses a variable around it: a name is forgotten at the end of a
\* function and of an if, and nowhere else (compiler.go:266-304, for.go:18-62,
\* condition.go:158-206, switch.go:12-60, func.go:171-260).
NamesAsGo ==
  program.kind = "names" /\ (ran # {} \/ (Parsed /\ file.end # "")) =>
    LET events == GoNamed!Events(program.tree) IN
    /\ ParsedAsGo
    /\ GoNamed!NamesPlain(events) <=>
         \A c \in ran : c.end = "" /\ InSource(c.bound, events) = GoNamed!GoBindings(events)

\* The compiled program ends, with the bits in the variables of main that it has in Go,
\* whatever the compiler's choices; or with a panic of its own, as in Go.
RanAs(go) ==
  ParsedAsGo /\ ran = {[end |-> IF go.end = "panic" THEN "exits" ELSE "", seen |-> go.seen]}

ComparesAs(go, same) ==
  /\ go.end = "panic" => program.kind = "strings"
  /\ RanAs(go) <=> same

\* what is expected of the programs of a kind: they run as in Go if and only if GoCases does
\* not tell them apart
AsExpected(kind) ==
  (program.kind = kind /\ (ran # {} \/ (Parsed /\ file.end # ""))) =>
    ComparesAs(Go!GoRun(program.tree), program.asGo)

\* Arithmetic, comparisons, conversions and constants of all integer types have the bits of
\* Go, except where BinaryApart and the families of GoCases say: every comparison is signed,
\* every right shift logical, every widening signed, and a number an int64 unless an integer
\* is assigned to (condition.go:20-140, constants.go:17-36, types.go:138-179).
IntegersAsGo == AsExpected("integers")

\* What a function returns the address of lives on, is large enough, and copies are copies,
\* exactly in the programs of which GoCases says so: the pass escape marks declarations, a
\* mark sticks to a type, and the fields of a literal are in no order (escape.go:8-61, struct.go:103-143, alloc.go:73-154,
\* pointers.go:13-76).
StorageAsGo == AsExpected("storage")

\* Arguments, results, receivers and assignments of several values arrive as in Go, except
\* where the types of parameters and results are mixed up, a result with a name is read
\* before it is set, or a parameter is assigned (func.go:78-525, alloc.go:169-238).
CallsAsGo == AsExpected("calls")

\* x, ok := i.(T) finds the type and the value that i was given, exactly if the number of
\* the name of the type tells the two types apart and the variable that i was given is
\* unchanged and alive (types.go:23-35, 181-231; interface.go:14-84).
AssertionsAsGo == AsExpected("assertions")

\* A string has the characters and the length of Go, and an index or a substring out of range
\* ends the program, exactly if no substring has a negative start or ends before it starts,
\* nothing is joined or compared, no name stands for a string constant and no index is a
\* number of another type than int (constants.go:38-68, condition.go:58-96, slice.go:20-91,
\* array.go:125-199).
StringsAsGo == AsExpected("strings")

\* A program that joins strings ends with the length and the characters of Go
\* (testdata/string-concat.go:10-19; condition.go:58-93).
JoinsAsTested ==
  program.kind = "strings" /\ "+" \in Range(program.words) /\ ran # {} =>
    RanAs(Go!GoRun(program.tree))
=============================================================================
