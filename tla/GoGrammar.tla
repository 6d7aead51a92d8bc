----------------------------- MODULE GoGrammar -----------------------------
(***************************************************************************)
(* GoGrammar: what Go's specification says of texts, for comparison with   *)
(* Lexer and Parser: which characters make a token, and, for programs that *)
(* are built together with their syntax trees, what a text means.          *)
(*                                                                         *)
(* A program part is a record: its `words', where "EOL" is a line end, and *)
(* its `tree', with the kinds of nodes of Parser.  The other fields say    *)
(* where tre departs from Go.  `plain' is FALSE if some text inside the    *)
(* part is not parsed as Go does.  tre's parser should end a part at its   *)
(* last item; it ends it `late' items behind that, and has looked at the   *)
(* items that are behind n more, for n in `peeks'.                         *)
(***************************************************************************)
EXTENDS Integers, Sequences, SequencesExt, FiniteSetsExt, TLC

Letter == {"a", "b", "c", "d", "e", "f", "g", "h", "i", "j", "k", "l", "m", "n", "o", "p",
           "q", "r", "s", "t", "u", "v", "w", "x", "y", "z", "T", "U", "V", "_"}
Digit  == {"0", "1", "2", "3", "4", "5", "6", "7", "8", "9"}
LetterOrDigit == Letter \cup Digit
DigitOrPoint  == Digit \cup {"."}

\* https://golang.org/ref/spec#Keywords, those that tre has
GoKeywords ==
  {"break", "case", "const", "continue", "default", "else", "fallthrough", "for", "func",
   "if", "import", "interface", "package", "range", "return", "struct", "switch", "type",
   "var"}
TreKeywords == GoKeywords \cup {"true", "false"}

\* https://golang.org/ref/spec#Operators_and_punctuation
GoOperators ==
  {"+", "&", "+=", "&=", "&&", "==", "!=", "(", ")", "-", "|", "-=", "|=", "||", "<",
   "<=", "[", "]", "*", "^", "*=", "^=", "<-", ">", ">=", "{", "}", "/", "<<", "/=",
   "<<=", "++", "=", ":=", ",", ";", "%", ">>", "%=", ">>=", "--", "!", "...", ".", ":",
   "&^", "&^="}

Spelling(chars) == FoldLeft(LAMBDA w, c : w \o c, "", chars)
Chars(word)     == [k \in 1..Len(word) |-> SubSeq(word, k, k)]

-----------------------------------------------------------------------------
\* Tokens: each is the longest piece of the line that is a token.

IsName(w)   == w[1] \in Letter /\ \A k \in DOMAIN w : w[k] \in LetterOrDigit
IsNumber(w) == /\ \A k \in DOMAIN w : w[k] \in DigitOrPoint
               /\ \E k \in DOMAIN w : w[k] \in Digit
               /\ Cardinality({k \in DOMAIN w : w[k] = "."}) <= 1

\* an odd number of backslashes stands right before position k
Escaped(w, k) == \E n \in 1..k - 1 : /\ n % 2 = 1
                                     /\ \A m \in k - n..k - 1 : w[m] = "\\"
                                     /\ n < k - 1 => w[k - n - 1] # "\\"

GoEscapes == ("n" :> "\n") @@ ("t" :> "\t") @@ ("\"" :> "\"") @@ ("\\" :> "\\")

IsString(w) ==
  /\ Len(w) >= 2 /\ w[1] = "\"" /\ w[Len(w)] = "\"" /\ ~Escaped(w, Len(w))
  /\ \A k \in 2..Len(w) - 1 : IF Escaped(w, k) THEN w[k] \in DOMAIN GoEscapes ELSE w[k] # "\""

StringValue(w) ==
  Spelling([k \in 1..Len(w) - 2 |->
              LET c == w[k + 1] IN
              IF Escaped(w, k + 1) THEN GoEscapes[c] ELSE IF c = "\\" THEN "" ELSE c])

IsToken(w) == IsName(w) \/ IsNumber(w) \/ IsString(w) \/ Spelling(w) \in GoOperators

GoItem(w) ==
  CASE IsString(w) -> [Type |-> "STRING", Val |-> StringValue(w)]
    [] IsNumber(w) -> [Type |-> "NUMBER", Val |-> Spelling(w)]
    [] IsName(w)   -> [Type |-> IF Spelling(w) \in TreKeywords
                                THEN "KEYWORD" ELSE "IDENTIFIER", Val |-> Spelling(w)]
    [] OTHER       -> [Type |-> "OPERATOR", Val |-> Spelling(w)]

\* The tokens of a line from position k on, as pairs of first and last position; <<0, 0>>
\* stands for a character that begins none.
RECURSIVE Tokens(_, _)
Tokens(l, k) ==
  IF k > Len(l) THEN <<>>
  ELSE IF l[k] \in {" ", "\t"} THEN Tokens(l, k + 1)
  ELSE IF k < Len(l) /\ l[k] = "/" /\ l[k + 1] = "/" THEN <<>>
  ELSE LET ends == {e \in k..Len(l) : IsToken(SubSeq(l, k, e))} IN
       IF ends = {} THEN <<<<0, 0>>>> ELSE <<<<k, Max(ends)>>>> \o Tokens(l, Max(ends) + 1)

\* Go's scanner accepts the line.
Scans(l) == <<0, 0>> \notin Range(Tokens(l, 1))

\* Tokens that Lex cuts differently, or that make it read behind the end of the line.
LexedApart(l) ==
  LET ts    == Tokens(l, 1)
      at(n) == SubSeq(l, ts[n][1], ts[n][2])
  IN  \E n \in DOMAIN ts :
        \/ IsNumber(at(n)) /\ \E k \in DOMAIN at(n) : at(n)[k] = "."
        \/ IsString(at(n)) /\ \E k \in DOMAIN at(n) :
                                Escaped(at(n), k) /\ at(n)[k] \notin {"n", "\""}
        \/ at(n) = <<"/">> /\ ts[n][2] = Len(l)
        \/ n < Len(ts) /\ at(n) = <<".">> /\ at(n + 1) = <<".">> /\ ts[n + 1][1] = ts[n][2] + 1

\* the items of a text
GoItems(text) ==
  LET lineItems(k) == LET ts == Tokens(text[k], 1) IN
        [n \in DOMAIN ts |->
           LET item == GoItem(SubSeq(text[k], ts[n][1], ts[n][2]))
           IN  [Type |-> item.Type, Val |-> item.Val, Line |-> k]]
      eol(k) == [Type |-> "EOL", Val |-> "", Line |-> IF k = Len(text) THEN 0 ELSE k]
  IN  FlattenSeq([k \in DOMAIN text |-> lineItems(k) \o <<eol(k)>>])
        \o <<[Type |-> "EOF", Val |-> "", Line |-> 0]>>

-----------------------------------------------------------------------------
\* Programs as words

\* the text, with a blank between words
Text(words) ==
  FoldLeft(LAMBDA text, w :
             IF w = "EOL" THEN Append(text, <<>>)
             ELSE [text EXCEPT ![Len(text)] = @ \o Chars(w) \o <<" ">>],
           <<<<>>>>, words)

\* its items, as Lex makes them, but all on one line
Items(words) ==
  LET eol == [Type |-> "EOL", Val |-> "", Line |-> 0]
      first(w) == SubSeq(w, 1, 1)
      type(w) == CASE w \in GoOperators  -> "OPERATOR"
                   [] w \in TreKeywords  -> "KEYWORD"
                   [] first(w) \in Digit -> "NUMBER"
                   [] OTHER              -> "IDENTIFIER"
      item(w) == CASE w = "EOL"        -> eol
                   [] first(w) = "\"" -> [Line |-> 0] @@ GoItem(Chars(w))
                   [] OTHER            -> [Type |-> type(w), Val |-> w, Line |-> 0]
  IN  [k \in DOMAIN words |-> item(words[k])] \o <<eol, [eol EXCEPT !.Type = "EOF"]>>

Part(words, tree) ==
  [words |-> words, tree |-> tree, late |-> 0, peeks |-> {}, plain |-> TRUE]

-----------------------------------------------------------------------------
\* Expressions: operands with binary operators between them

\* https://golang.org/ref/spec#Operator_precedence
Precedence(op) ==
  CASE op \in {"*", "/", "%", "<<", ">>", "&", "&^"} -> 5
    [] op \in {"+", "-", "|", "^"} -> 4
    [] op \in {"==", "!=", "<", "<=", ">", ">="} -> 3
    [] op = "&&" -> 2
    [] op = "||" -> 1

\* The operator applied last is the last one of those that bind least.
RECURSIVE Grouped(_, _)
Grouped(trees, ops) ==
  IF ops = <<>> THEN trees[1]
  ELSE LET least == Min({Precedence(ops[k]) : k \in DOMAIN ops})
           n == Max({k \in DOMAIN ops : Precedence(ops[k]) = least})
       IN  <<"Operator", ops[n],
             Grouped(SubSeq(trees, 1, n), SubSeq(ops, 1, n - 1)),
             Grouped(SubSeq(trees, n + 1, Len(trees)), SubSeq(ops, n + 1, Len(ops)))>>

Arith == {"+", "-", "*", "/"}

\* The forms of operands: a name, or a field of one; an "open" operand, which tre's parser
\* reads together with the operators behind it, a call or an index; an item without such a
\* continuation, as a number; and those with a prefix, "-" or "&", and "!".
Operand(words, tree, form) == Part(words, tree) @@ [form |-> form]

\* tre parses what follows operator k as an expression of its own: behind an operator that
\* is none of + - * /, or if the operand goes on by itself, as a name does before an
\* operator that is none of + - * /
TakesRest(operands, ops, k) ==
  LET form == operands[k + 1].form IN
  \/ form \in {"open", "prefix"}
  \/ form # "not" /\ ops[k] \notin Arith
  \/ form = "name" /\ k < Len(ops) /\ ops[k + 1] \notin Arith

\* The groups are Go's if everything that is taken binds tighter than the operator that
\* takes it; no operator but + - * / has to be put under one before it; a prefix is at the
\* end, for it takes the rest; and "!" is not at the beginning, for it takes an item and
\* ends there.
GroupedAsGo(operands, ops) ==
  /\ \A k \in DOMAIN ops :
       /\ Precedence(ops[k]) > 2
       /\ TakesRest(operands, ops, k) =>
            \A j \in k + 1..Len(ops) : Precedence(ops[j]) > Precedence(ops[k])
       /\ ops[k] \notin Arith =>
            \A j \in 1..k - 1 : \/ Precedence(ops[j]) >= Precedence(ops[k])
                                \/ \E m \in j..k - 1 : TakesRest(operands, ops, m)
       /\ operands[k].form # "prefix"
  /\ operands[1].form = "not" => ops = <<>>

Expression(operands, ops) ==
  LET words(k) == operands[k].words \o (IF k > Len(ops) THEN <<>> ELSE <<ops[k]>>) IN
  [Part(FlattenSeq([k \in DOMAIN operands |-> words(k)]),
        Grouped([k \in DOMAIN operands |-> operands[k].tree], ops))
     EXCEPT !.plain = GroupedAsGo(operands, ops) /\ \A k \in DOMAIN operands : operands[k].plain]

-----------------------------------------------------------------------------
\* Statements.  A block is a sequence of <<statement, number of line ends behind it>>.

LineEnds(n) == [k \in 1..n |-> "EOL"]

BlockWords(block) == FlattenSeq([k \in DOMAIN block |-> block[k][1].words \o LineEnds(block[k][2])])
BlockTrees(block) == [k \in DOMAIN block |-> block[k][1].tree]

\* words that continue a statement if tre looks at them when it ends one
Continues == {"*", "(", "-", "&", "["}

\* Every statement is plain; one that is ended n items late has n line ends behind it; and
\* the statement on the next line is not taken for the rest of it.
BlockPlain(block) ==
  \A k \in DOMAIN block :
    LET s == block[k][1] n == block[k][2] IN
    /\ s.plain /\ s.late <= n
    /\ n \in s.peeks => k = Len(block) \/ Head(block[k + 1][1].words) \notin Continues

Braced(block) ==
  <<"{">> \o LineEnds(IF \E k \in DOMAIN block : block[k][2] = 0 THEN 0 ELSE 1)
    \o BlockWords(block) \o <<"}">>

\* a statement of which the parts and the blocks are given
Compound(words, tree, parts, blocks) ==
  [Part(words, tree) EXCEPT !.plain = /\ \A p \in parts : p.plain /\ p.late = 0
                                      /\ \A b \in blocks : BlockPlain(b)]

Condition(cond) == IF cond.tree[1] = "Operator" THEN cond.tree
                   ELSE <<"Operator", "==", cond.tree, <<"Bool", "true">>>>

\* An if is ended behind its "}", where an else could be, unless there is an else.
If(cond, block) ==
  [Compound(<<"if">> \o cond.words \o Braced(block),
            <<"Condition", Condition(cond), BlockTrees(block), <<>>>>, {cond}, {block})
     EXCEPT !.late = 1]

IfElse(cond, block, other) ==
  Compound(<<"if">> \o cond.words \o Braced(block) \o <<"else">> \o Braced(other),
           <<"Condition", Condition(cond), BlockTrees(block), BlockTrees(other)>>,
           {cond}, {block, other})

IfElseIf(cond, block, next) ==
  [Compound(<<"if">> \o cond.words \o Braced(block) \o <<"else">> \o next.words,
            <<"Condition", Condition(cond), BlockTrees(block), <<next.tree>>>>, {cond}, {block})
     EXCEPT !.late = next.late, !.plain = @ /\ next.plain]

For(init, cond, after, block) ==
  Compound(<<"for">> \o init.words \o <<";">> \o cond.words \o <<";">> \o after.words
             \o Braced(block),
           <<"For", init.tree, cond.tree, after.tree, BlockTrees(block)>>,
           {init, cond, after}, {block})

ForRange(init, block) ==
  Compound(<<"for">> \o init.words \o Braced(block),
           <<"For", init.tree, <<"nil">>, <<"nil">>, BlockTrees(block)>>, {init}, {block})

\* A clause: its condition or, for default, none; its block; whether it falls through.
\* A switch without clauses keeps tre's parser going round for ever.
Switch(item, clauses) ==
  LET isDefault(c) == c.conds = <<>>
      conds(c)  == FlattenSeq([k \in DOMAIN c.conds |->
                     (IF k = 1 THEN <<>> ELSE <<",">>) \o c.conds[k].words])
      words(c)  == (IF isDefault(c) THEN <<"default", ":">>
                    ELSE <<"case">> \o conds(c) \o <<":">>)
                     \o <<"EOL">> \o BlockWords(c.block)
                     \o (IF c.falls THEN <<"fallthrough", "EOL">> ELSE <<>>)
      cases     == SelectSeq(clauses, LAMBDA c : ~isDefault(c))
      defaults  == SelectSeq(clauses, isDefault)
  IN  [Compound(<<"switch">> \o item.words \o <<"{", "EOL">>
                  \o FlattenSeq([k \in DOMAIN clauses |-> words(clauses[k])]) \o <<"}">>,
                <<"Switch", item.tree,
                  [k \in DOMAIN cases |->
                     <<"SwitchCase", [n \in DOMAIN cases[k].conds |-> cases[k].conds[n].tree],
                       BlockTrees(cases[k].block), cases[k].falls>>],
                  IF defaults = <<>> THEN <<>> ELSE BlockTrees(defaults[1].block)>>,
                {item} \cup UNION {Range(clauses[k].conds) : k \in DOMAIN clauses},
                {clauses[k].block : k \in DOMAIN clauses})
         EXCEPT !.plain = @ /\ clauses # <<>>]

Clause(conds, block, falls) == [conds |-> conds, block |-> block, falls |-> falls]

\* A return is ended behind its last value, and has looked behind that.
Return(vals) ==
  LET comma(k) == IF k = Len(vals) THEN <<>> ELSE <<",">>
      late == IF vals = <<>> THEN 1 ELSE Last(vals).late + 1
  IN  [Part(<<"return">> \o FlattenSeq([k \in DOMAIN vals |-> vals[k].words \o comma(k)]),
            <<"Return", [k \in DOMAIN vals |-> vals[k].tree]>>)
         EXCEPT !.late = late, !.peeks = {late} \cup IF vals = <<>> THEN {} ELSE Last(vals).peeks,
                !.plain = /\ \A k \in DOMAIN vals : vals[k].plain
                          /\ \A k \in 1..Len(vals) - 1 : vals[k].late = 0]

\* target = value, or name := value
Assign(target, op, val) ==
  [Part(target.words \o <<op>> \o val.words,
        IF op = ":=" THEN <<"Alloc", target.words, <<val.tree>>, <<"nil">>, FALSE>>
        ELSE <<"Assign", <<target.tree>>, <<val.tree>>>>)
     EXCEPT !.late = val.late, !.peeks = val.peeks, !.plain = target.plain /\ val.plain]

\* "var name type", "var name = value"; both end behind the declaration
VarType(name, type) ==
  [Part(<<"var", name, type>>, <<"Alloc", <<name>>, <<>>, <<"Type", "", type, FALSE>>, FALSE>>)
     EXCEPT !.late = 1]

VarValue(name, val) ==
  [Part(<<"var", name, "=">> \o val.words, <<"Alloc", <<name>>, <<val.tree>>, <<"nil">>, FALSE>>)
     EXCEPT !.late = val.late + 1, !.peeks = val.peeks, !.plain = val.plain]

\* A type assertion is ended behind its ")", and has looked behind that.
Assertion(item, type) ==
  [Part(item.words \o <<".", "(", type, ")">>,
        <<"TypeCastInterface", item.tree, <<"Type", "", type, FALSE>>>>)
     EXCEPT !.late = 1, !.peeks = {1}]

\* A struct literal is ended behind its "}" if a line end, a comma or nothing is before it.
Struct(type, fields, open) ==
  LET words(k) == <<fields[k][1], ":">> \o fields[k][2].words
                    \o (IF k < Len(fields) \/ open THEN <<",">> ELSE <<>>)
  IN  [Part(<<type, "{">> \o FlattenSeq([k \in DOMAIN fields |-> words(k)])
              \o (IF open /\ fields # <<>> THEN <<"EOL">> ELSE <<>>) \o <<"}">>,
            <<"InitializeStruct", type, [k \in DOMAIN fields |-> <<fields[k][1], fields[k][2].tree>>]>>)
         EXCEPT !.late = IF open THEN 1 ELSE 0, !.peeks = IF open THEN {1} ELSE {},
                !.plain = \A k \in DOMAIN fields : fields[k][2].plain /\ fields[k][2].late = 0]

Func(name, block) ==
  Compound(<<"func", name, "(", ")">> \o Braced(block),
           <<"DefineFunc", <<>>, name, <<>>, <<>>, BlockTrees(block)>>, {}, {block})

-----------------------------------------------------------------------------
\* Types and declarations.  A type ends with whether it is variadic, but for a func type.

Joined(words) == FlattenSeq([k \in DOMAIN words |-> IF k = 1 THEN words[k] ELSE <<",">> \o words[k]])
AllWords(parts) == [k \in DOMAIN parts |-> parts[k].words]
Trees(parts)    == [k \in DOMAIN parts |-> parts[k].tree]
AllPlain(parts) == \A k \in DOMAIN parts : parts[k].plain

Type(words, tree, plain) == [Part(words, tree) EXCEPT !.plain = plain]

TypeName(name)     == Type(<<name>>, <<"Type", "", name, FALSE>>, TRUE)
TypeOf(pkg, name)  == Type(<<pkg, ".", name>>, <<"Type", pkg, name, FALSE>>, TRUE)
PointerTo(t)       == Type(<<"*">> \o t.words, <<"PointerType", t.tree, FALSE>>, t.plain)
SliceOf(t)         == Type(<<"[", "]">> \o t.words, <<"SliceType", t.tree, FALSE>>, t.plain)
ArrayOf(n, t)      == Type(<<"[", n, "]">> \o t.words, <<"ArrayType", t.tree, n, FALSE>>, t.plain)

StructOf(names, types) ==
  Type(<<"struct", "{", "EOL">>
         \o FlattenSeq([k \in DOMAIN names |-> <<names[k]>> \o types[k].words \o <<"EOL">>]) \o <<"}">>,
       <<"StructType", names, Trees(types), FALSE>>, AllPlain(types))

\* a type that begins with a name
IsNamed(t) == t.tree[1] = "Type"

\* The only result of a func type that stands without parentheses has to be a named type.
FuncOf(args, results, parens) ==
  Type(<<"func", "(">> \o Joined(AllWords(args)) \o <<")">>
         \o (IF parens THEN <<"(">> \o Joined(AllWords(results)) \o <<")">>
             ELSE FlattenSeq(AllWords(results))),
       <<"FuncType", Trees(args), Trees(results)>>,
       AllPlain(args) /\ AllPlain(results) /\ (parens \/ \A k \in DOMAIN results : IsNamed(results[k])))

\* The results of a method of an interface cannot stand in parentheses.
Method(name, args, results) == [name |-> name, args |-> args, results |-> results]

InterfaceOf(methods) ==
  LET words(m) == <<m.name, "(">> \o Joined(AllWords(m.args)) \o <<")">>
                    \o (IF Len(m.results) > 1 THEN <<"(">> \o Joined(AllWords(m.results)) \o <<")">>
                        ELSE FlattenSeq(AllWords(m.results))) \o <<"EOL">>
  IN  Type(<<"interface", "{", "EOL">>
             \o FlattenSeq([k \in DOMAIN methods |-> words(methods[k])]) \o <<"}">>,
           <<"InterfaceType", [k \in DOMAIN methods |->
                                <<methods[k].name, Trees(methods[k].args), Trees(methods[k].results)>>],
             FALSE>>,
           \A k \in DOMAIN methods : /\ AllPlain(methods[k].args) /\ AllPlain(methods[k].results)
                                     /\ Len(methods[k].results) <= 1)

TypeDecl(name, t) == Type(<<"type", name>> \o t.words, <<"DefineType", name, t.tree>>, t.plain)

\* Ended behind the type.
VarOf(name, t) ==
  [Part(<<"var", name>> \o t.words, <<"Alloc", <<name>>, <<>>, t.tree, FALSE>>)
     EXCEPT !.late = 1, !.plain = t.plain]

\* Arguments, each with a name and a type.  Names do not share a type in tre.
Arguments(names, t) ==
  Type(Joined([k \in DOMAIN names |-> <<names[k]>>]) \o t.words,
       [k \in DOMAIN names |-> <<"Param", names[k], t.tree>>], t.plain /\ Len(names) = 1)

VariadicArgument(name, t) ==
  Type(<<name, "...">> \o t.words, << <<"Param", name, [t.tree EXCEPT ![Len(t.tree)] = TRUE]>> >>,
       t.plain)

\* Results with names are in parentheses, and their types are named types.
Result(t) == Type(t.words, <<"Result", <<"nil">>, t.tree>>, t.plain)
NamedResult(name, t) ==
  Type(<<name>> \o t.words, <<"Result", <<"Type", "", name, FALSE>>, t.tree>>, t.plain /\ IsNamed(t))

\* receiver: a sequence of at most one argument; name: "" for a func value
FuncDecl(receiver, name, args, results, parens, block) ==
  LET inParens(parts) == <<"(">> \o Joined(AllWords(parts)) \o <<")">>
      open == Braced(block)
  IN  [Compound(<<"func">> \o (IF receiver = <<>> THEN <<>> ELSE inParens(receiver))
                  \o (IF name = "" THEN <<>> ELSE <<name>>) \o inParens(args)
                  \o (IF parens THEN inParens(results) ELSE FlattenSeq(AllWords(results))) \o open,
                <<"DefineFunc", FlattenSeq(Trees(receiver)), name, FlattenSeq(Trees(args)),
                  Trees(results), BlockTrees(block)>>, {}, {block})
         EXCEPT !.plain = @ /\ AllPlain(receiver) /\ AllPlain(args) /\ AllPlain(results)]

\* a literal of type t, a slice or an array
Literal(t, items) ==
  Type(t.words \o <<"{">> \o Joined(AllWords(items)) \o <<"}">>,
       IF t.tree[1] = "SliceType" THEN <<"InitializeSlice", t.tree[2], Trees(items)>>
       ELSE <<"InitializeArray", t.tree[2], t.tree[3], Trees(items)>>,
       t.plain /\ AllPlain(items))

PackageClause(name) == Part(<<"package", name>>, <<"DeclarePackage", name>>)

Quoted(path) == "\"" \o path \o "\""

Import(paths, parens) ==
  Part(IF parens THEN <<"import", "(", "EOL">>
                        \o FlattenSeq([k \in DOMAIN paths |-> <<Quoted(paths[k]), "EOL">>]) \o <<")">>
       ELSE <<"import", Quoted(paths[1])>>,
       <<"Import", paths>>)

\* A member of the package called name, imported by path: tre takes the path for its name.
Member(path, name, member) ==
  Type(<<name, ".", member>>, <<"Name", name, member>>, path = name)

\* a file: declarations, each on a line of its own
File(parts) ==
  LET block == [k \in DOMAIN parts |-> <<parts[k], 1>>] IN
  [Part(BlockWords(block), BlockTrees(block)) EXCEPT !.plain = BlockPlain(block)]

-----------------------------------------------------------------------------
\* Groups of constants and variables.  An entry has a name, an expression or none, and, if
\* it declares a variable without an expression, a type.

Entry(name, vals) == [name |-> name, vals |-> vals]

Group(isConst, entries) ==
  LET words(e) == CASE e.vals # <<>> -> <<e.name, "=">> \o e.vals[1].words
                    [] e.vals = <<>> /\ isConst -> <<e.name>>
                    [] OTHER -> <<e.name, "int">>
      tree(e) == <<"Alloc", <<e.name>>, [k \in DOMAIN e.vals |-> e.vals[k].tree],
                   IF e.vals = <<>> /\ ~isConst THEN <<"Type", "", "int", FALSE>> ELSE <<"nil">>,
                   isConst>>
  IN  Part(<<IF isConst THEN "const" ELSE "var", "(", "EOL">>
             \o FlattenSeq([k \in DOMAIN entries |-> words(entries[k]) \o <<"EOL">>]) \o <<")">>,
           <<"AllocGroup", [k \in DOMAIN entries |-> tree(entries[k])]>>)
        @@ [isConst |-> isConst, entries |-> entries]

\* The value of a constant expression, as a sequence of one number; <<>> if there is none,
\* as where a name has no value, or for a shift by a negative number.
RECURSIVE Value(_, _)
Value(tree, iota) ==
  CASE tree[1] = "Constant" -> <<CHOOSE n \in -9..9 : ToString(n) = tree[3]>>
    [] tree[1] = "Name" -> IF tree[3] = "iota" THEN iota ELSE <<>>
    [] tree[1] = "Group" -> Value(tree[2], iota)
    [] tree[1] = "TypeCast" -> Value(tree[3], iota)
    [] tree[1] = "Operator" ->
         LET l == Value(tree[3], iota) r == Value(tree[4], iota) IN
         IF l = <<>> \/ r = <<>> \/ (tree[2] = "<<" /\ r[1] < 0) THEN <<>>
         ELSE CASE tree[2] = "+" -> <<l[1] + r[1]>>
                [] tree[2] = "*" -> <<l[1] * r[1]>>
                [] tree[2] = "<<" -> <<l[1] * 2 ^ r[1]>>

\* https://golang.org/ref/spec#Iota: an entry of a group of constants without an expression
\* repeats the one before; iota is the number of the entry.  A variable without an
\* expression is zero.
GoValues(group) ==
  LET given(k) == {j \in 1..k : group.entries[j].vals # <<>>} IN
  [k \in DOMAIN group.entries |->
     IF group.isConst THEN Value(group.entries[Max(given(k))].vals[1].tree, <<k - 1>>)
     ELSE IF k \in given(k) THEN Value(group.entries[k].vals[1].tree, <<>>) ELSE <<0>>]

RECURSIVE CastsIota(_)
CastsIota(tree) ==
  CASE tree[1] = "TypeCast" -> Value(tree[3], <<>>) = <<>>
    [] tree[1] = "Group"    -> CastsIota(tree[2])
    [] tree[1] = "Operator" -> CastsIota(tree[3]) \/ CastsIota(tree[4])
    [] OTHER                -> FALSE

\* tre gives an entry without an expression its number, whatever is to be repeated, in
\* groups of variables too, where Go gives it 0, and does not look for iota in conversions.
IotaPlain(group) ==
  \A k \in DOMAIN group.entries :
    LET e == group.entries[k]
        before == {j \in 1..k : group.entries[j].vals # <<>>}
    IN  IF e.vals # <<>> THEN ~CastsIota(e.vals[1].tree)
        ELSE group.isConst /\ Value(group.entries[Max(before)].vals[1].tree, <<k - 1>>) = <<k - 1>>
=============================================================================
