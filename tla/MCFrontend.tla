----------------------------- MODULE MCFrontend -----------------------------
(* Instances of Frontend for TLC. *)
EXTENDS Frontend

\* Texts: every line of up to three of these characters, and of up to four without "$" and
\* blanks, every line of up to three of the characters of the other operators, keywords and
\* names, and pairs of short lines.
Alphabet == {"a", "n", "1", " ", "\"", "\\", "/", ".", "<", "=", "$"}
LinesUpTo(chars, n) == UNION {[1..m -> chars] : m \in 0..n}
OperatorChars == {"&", "^", "=", ":", ">", "<", "-", "+", "!", "|", "%", "*"}
MCTexts == {<<l>> : l \in LinesUpTo(Alphabet, 3) \cup LinesUpTo(Alphabet \ {"$", " "}, 4)}
             \cup {<<l>> : l \in LinesUpTo(OperatorChars, 3) \cup LinesUpTo({"i", "f", "1", "\t"}, 3)}
             \cup {<<l, m>> : l, m \in LinesUpTo({"a", "1", "/", "\""}, 2)}

Name_(w)   == Operand(<<w>>, <<"Name", "", w>>, "name")
One        == Operand(<<"1">>, <<"Constant", "NUMBER", "1">>, "item")
CallOf(e)  == [Operand(<<"f", "(">> \o e.words \o <<")">>,
                       <<"Call", <<"Name", "", "f">>, <<e.tree>>>>, "open") EXCEPT !.plain = e.plain]
a == Name_("a")
b == Name_("b")
Selector == Operand(<<"s", ".", "b">>, <<"StructLoadElement", <<"Name", "", "s">>, "b">>, "name")
Index == Operand(<<"a", "[", "1", "]">>, <<"LoadArrayElement", a.tree, One.tree>>, "open")
Slice == Operand(<<"a", "[", "1", ":", "]">>, <<"SliceArray", a.tree, One.tree, <<"nil">>>>, "open")
Paren == Operand(<<"(", "a", "+", "1", ")">>, <<"Group", <<"Operator", "+", a.tree, One.tree>>>>,
                 "open")
Cast  == Operand(<<"int8", "(", "a", ")">>, <<"TypeCast", "int8", a.tree>>, "open")
Deref == Operand(<<"*", "a">>, <<"Dereference", a.tree>>, "item")
Negative == Operand(<<"-", "a">>, <<"Sub", a.tree>>, "prefix")
Address  == Operand(<<"&", "a">>, <<"GetReference", a.tree>>, "prefix")
Not      == Operand(<<"!", "a">>, <<"Negate", a.tree>>, "not")

Operands == {a, One, CallOf(b), Selector, Index, Slice, Paren, Cast, Deref, Negative, Not, Address}

ExpressionsOf(operands, ops, n) ==
  {Expression(xs, os) : xs \in [1..n -> operands], os \in [1..n - 1 -> ops]}

Exps == ExpressionsOf(Operands, {}, 1)
          \cup ExpressionsOf(Operands, {"+", "*", "%", "==", "<<", "&&"}, 2)
          \cup ExpressionsOf({a, One, CallOf(b), Paren, Deref, Negative, Not}, {"+", "*", "%", "=="}, 3)
          \cup ExpressionsOf({a, One, CallOf(b)}, {"+", "*", "=="}, 4)

ExpressionProgram(e) == File(<<Assign(a, "=", e)>>) @@ [kind |-> "expression"]

\* Statements, with the type T of two fields declared before.
TypeT == Part(<<"type", "T", "struct", "{", "EOL", "b", "int", "EOL", "}">>,
              <<"DefineType", "T", <<"StructType", <<"b">>, << <<"Type", "", "int", FALSE>> >>, FALSE>>>>)

Field == << <<"b", One>> >>
i0    == Name_("i")
Sum   == Expression(<<a, One>>, <<"+">>)
Less  == Expression(<<i0, One>>, <<"<">>)

Plain == {Assign(a, "=", One), Assign(a, ":=", Sum), CallOf(a), Assign(Deref, "=", One),
          Part(<<"a", "++">>, <<"Increment", a.tree>>),
          Part(<<"a", "+=", "1">>, <<"Assign", <<a.tree>>, <<Sum.tree>>>>),
          Part(<<"a", ",", "b", "=", "b", ",", "a">>,
               <<"Assign", <<a.tree, b.tree>>, <<b.tree, a.tree>>>>),
          Part(<<"break">>, <<"Break">>), Part(<<"continue">>, <<"Continue">>),
          Assign(a, "=", Struct("T", Field, FALSE))}

Late == {Return(<<>>), Return(<<a>>), Return(<<a, Sum>>), VarType("a", "int"), VarValue("a", Sum),
         Assign(a, ":=", Assertion(b, "int")), Return(<<Assertion(a, "int")>>),
         Assign(a, "=", Struct("T", Field, TRUE)), Assign(a, "=", Struct("T", <<>>, TRUE)),
         Return(<<Struct("T", <<>>, TRUE)>>), Return(<<Struct("T", Field, FALSE)>>),
         VarValue("a", Struct("T", <<>>, TRUE))}

Simple == Plain \cup Late

Ends == 0..2
Blocks(statements) == {<< <<s, n>> >> : s \in statements, n \in Ends}
OneLine == << <<Assign(a, "=", One), 0>> >>
Empty == <<>>

Range_ == Part(<<"a", ":=", "range", "b">>, <<"Alloc", <<"a">>, << <<"Range", b.tree>> >>, <<"nil">>, FALSE>>)
Pair_  == Part(<<"a", ",", "i", ":=", "range", "b">>,
               <<"Alloc", <<"a", "i">>, << <<"Range", b.tree>> >>, <<"nil">>, FALSE>>)
Init_  == Assign(i0, ":=", One)
After_ == Part(<<"i", "++">>, <<"Increment", i0.tree>>)

Compounds(blocks) ==
  UNION {{If(Less, x), IfElse(a, x, OneLine), IfElse(a, OneLine, x),
          IfElseIf(Less, OneLine, If(a, x)), IfElseIf(a, x, IfElse(b, OneLine, x)),
          For(Init_, Less, After_, x), ForRange(Range_, x), ForRange(Pair_, x),
          Switch(a, <<Clause(<<One>>, x, FALSE)>>),
          Switch(a, <<Clause(<<One, b>>, x, TRUE), Clause(<<>>, OneLine, FALSE)>>),
          Switch(a, <<Clause(<<>>, x, FALSE), Clause(<<One>>, Empty, FALSE)>>)} : x \in blocks}

Nested == Compounds(Blocks(Simple)) \cup {Switch(a, <<>>)}

FunctionBodies == Blocks(Simple \cup Nested)
            \cup {<< <<s, n>>, <<t, 1>> >> : s \in Simple \cup Compounds({OneLine}), n \in 1..2,
                                            t \in Plain \cup {CallOf(a), Return(<<a>>)}}
            \cup {<< <<s, 1>> >> : s \in Compounds(Blocks(Compounds(Blocks({Return(<<a>>), Assign(a, "=", One)}))))}

StatementProgram(body) == File(<<TypeT, Func("f", body)>>) @@ [kind |-> "statement"]

\* Declarations, each alone in a file, and used in a function or a file.
int == TypeName("int")
IntTypes == {int, PointerTo(int), SliceOf(int), ArrayOf("2", int), TypeOf("p", "T")}
Types1 == IntTypes \cup {SliceOf(PointerTo(int)), StructOf(<<>>, <<>>), InterfaceOf(<<>>)}
Types2 ==
  Types1 \cup {StructOf(<<"a", "b">>, <<t, int>>) : t \in Types1}
    \cup {FuncOf(<<>>, <<>>, FALSE), FuncOf(<<int>>, <<int, int>>, TRUE)}
    \cup {FuncOf(<<t>>, <<u>>, parens) : t \in Types1, u \in Types1, parens \in BOOLEAN}
    \cup {InterfaceOf(<<Method("f", <<t, int>>, <<>>), Method("g", <<>>, <<t>>)>>) : t \in Types1}
    \cup {InterfaceOf(<<Method("f", <<>>, <<int, t>>)>>) : t \in IntTypes}
Types3 ==
  Types2 \cup {SliceOf(FuncOf(<<>>, <<>>, FALSE)), FuncOf(<<FuncOf(<<>>, <<int>>, TRUE)>>, <<int>>, FALSE)}
    \cup {FuncOf(<<int>>, <<FuncOf(<<>>, <<t>>, TRUE)>>, TRUE) : t \in IntTypes}

Return1 == << <<Return(<<One>>), 1>> >>

Functions ==
  LET x(t) == Arguments(<<"a">>, t) IN
  {FuncDecl(<<>>, "f", <<x(t), x(u)>>, <<>>, FALSE, OneLine) : t \in Types1, u \in Types2}
    \cup {FuncDecl(<<>>, "f", <<x(int), VariadicArgument("b", t)>>, <<>>, FALSE, OneLine) : t \in Types1}
    \cup {FuncDecl(<<>>, "f", <<Arguments(<<"a", "b">>, t)>>, <<>>, FALSE, OneLine) : t \in IntTypes}
    \cup {FuncDecl(<<x(t)>>, "f", <<>>, <<Result(int)>>, FALSE, Return1) : t \in {int, PointerTo(int)}}
    \cup {FuncDecl(<<>>, "f", <<>>, <<Result(t)>>, parens, Return1) : t \in Types2, parens \in BOOLEAN}
    \cup {FuncDecl(<<>>, "f", <<>>, <<Result(t), Result(u)>>, TRUE, Return1) : t \in Types1, u \in Types1}
    \cup {FuncDecl(<<>>, "f", <<>>, <<NamedResult("a", t), NamedResult("b", int)>>, TRUE, Return1)
            : t \in Types1}

Value0(v) == << <<Assign(a, ":=", v), 1>> >>
Closure == FuncDecl(<<>>, "", <<Arguments(<<"b">>, int)>>, <<Result(int)>>, FALSE, Return1)
Values == {Literal(SliceOf(t), <<One, a>>) : t \in {int, PointerTo(int)}}
            \cup {Literal(ArrayOf("2", int), <<Sum, One>>), Literal(SliceOf(int), <<>>), Closure}

Others ==
  {Part(<<"f", "(", "a", "...", ")">>,
        <<"Call", <<"Name", "", "f">>, << <<"DeVariadicSlice", a.tree>> >>>>),
   Part(<<"a", ",", "b", ":=", "f", "(", ")">>,
        <<"Alloc", <<"a", "b">>, << <<"Call", <<"Name", "", "f">>, <<>>>> >>, <<"nil">>, FALSE>>),
   Part(<<"f", "(", "EOL", "a", ",", "EOL", "1", ",", "EOL", ")">>,
        <<"Call", <<"Name", "", "f">>, <<a.tree, One.tree>>>>),
   Type(<<"a", "=", "a", "+", "EOL", "1">>, <<"Assign", <<a.tree>>, <<Sum.tree>>>>, FALSE),
   Type(<<"a", "=", "b", "[", ":", "1", "]">>,
        <<"Assign", <<a.tree>>, << <<"SliceArray", b.tree, <<"nil">>, One.tree>> >>>>, FALSE)}

Uses(path, name) ==
  File(<<PackageClause("main"), Import(<<path>>, FALSE),
         Func("f", << <<Assign(a, "=", Member(path, name, "b")), 1>> >>)>>)

Files == {File(<<TypeDecl("U", t)>>) : t \in Types3}
           \cup {File(<<VarOf("a", t), TypeDecl("U", int)>>) : t \in Types3}
           \cup {File(<<f>>) : f \in Functions}
           \cup {File(<<Func("f", Value0(v))>>) : v \in Values}
           \cup {File(<<Func("f", << <<s, 1>> >>)>>) : s \in Others}
           \cup {File(<<PackageClause("main"), Import(<<"p", "q">>, TRUE), VarOf("a", TypeOf("q", "T"))>>),
                 Uses("p", "p"), Uses("q/p", "p")}

DeclarationProgram(f) == f @@ [kind |-> "statement"]

\* Groups of constants, and of variables.
iota  == Name_("iota")
IotaExps == {<<>>, <<iota>>, <<One>>, <<Expression(<<iota, One>>, <<"+">>)>>,
             <<Expression(<<One, iota>>, <<"<<">>)>>, <<Expression(<<iota, iota>>, <<"*">>)>>,
             <<Operand(<<"(", "iota", ")">>, <<"Group", iota.tree>>, "open")>>,
             <<Operand(<<"int8", "(", "iota", ")">>, <<"TypeCast", "int8", iota.tree>>, "open")>>}
AllGroups(exps, n) ==
  {Group(isConst, [k \in 1..n |-> Entry(<<"a", "b", "c", "d">>[k], xs[k])]) :
     isConst \in BOOLEAN, xs \in {ys \in [1..n -> exps] : ys[1] # <<>>}}
\* those that Go compiles: an iota in a group of variables has no value
GroupsOf(exps, n) == {g \in AllGroups(exps, n) : <<>> \notin Range(GoValues(g))}
GroupsProgram(groups) == File(groups) @@ [kind |-> "groups", groups |-> groups]
MCGroups ==
  {GroupsProgram(<<g>>) : g \in GroupsOf(IotaExps, 1) \cup GroupsOf(IotaExps, 2) \cup GroupsOf(IotaExps, 3)
                                  \cup GroupsOf({<<>>, <<iota>>, <<One>>}, 4)}
    \cup {GroupsProgram(<<g, h>>) : g \in GroupsOf({<<>>, <<iota>>, <<One>>}, 2),
                                     h \in GroupsOf({<<>>, <<iota>>, <<One>>}, 2)}

\* Functions with blocks, in which "a" and "i" are declared, set and read.  Every statement has
\* a number of its own.
Num(n) == Operand(<<ToString(n)>>, <<"Constant", "NUMBER", ToString(n)>>, "item")
Plus(e, n) == Expression(<<e, Num(n)>>, <<"+">>)
Below(e, n) == Expression(<<e, Num(n)>>, <<"<">>)

Declare(n) == Assign(a, ":=", Num(n))
Again(n)   == Assign(a, ":=", Plus(a, n))
SetA(n)    == Assign(a, "=", Num(n))
Read(n)    == Assign(i0, "=", Plus(a, n))
DeclareI(n) == Assign(i0, ":=", Num(n))

Small(n) == {<<Declare(n)>>, <<Again(n)>>, <<SetA(n)>>, <<Read(n)>>, <<DeclareI(n)>>}
NamedBlocks(n) == {OnLines(x) : x \in Small(n) \cup {x \o y : x \in Small(n), y \in Small(n + 1)}}
SmallBlocks(n) == {OnLines(x) : x \in Small(n)}

LoopOver(x, op, n, block) ==
  For(Assign(x, op, Num(n)), Below(x, n + 1), Assign(x, "=", Plus(x, n + 2)), block)
RangeOver(names, n, block) ==
  ForRange(IF names = <<>> THEN Part(<<"range", "s">>, <<"Range", Name_("s").tree>>)
           ELSE Part(Joined([k \in DOMAIN names |-> <<names[k]>>]) \o <<":=", "range", "s">>,
                     <<"Alloc", names, << <<"Range", Name_("s").tree>> >>, <<"nil">>, FALSE>>), block)
LiteralOf(args, block) ==
  Assign(Name_("f"), ":=", FuncDecl(<<>>, "", args, <<>>, FALSE, block))

Loops(n, blocks) ==
  UNION {{LoopOver(a, ":=", n, x), LoopOver(i0, ":=", n, x), LoopOver(i0, "=", n, x),
          RangeOver(<<>>, n, x), RangeOver(<<"a">>, n, x), RangeOver(<<"i", "a">>, n, x)} : x \in blocks}
Literals(n, blocks) ==
  UNION {{LiteralOf(<<>>, x), LiteralOf(<<Arguments(<<"a">>, TypeName("int"))>>, x)} : x \in blocks}
Ifs(n, blocks, others) ==
  {If(Below(a, n), x) : x \in blocks} \cup {IfElse(Below(a, n), x, y) : x \in blocks, y \in others}
Switches(n, blocks, others) ==
  UNION {{Switch(a, <<Clause(<<Num(n)>>, x, FALSE), Clause(<<Num(n + 1)>>, y, FALSE)>>),
          Switch(a, <<Clause(<<Num(n)>>, x, TRUE), Clause(<<>>, y, FALSE)>>)} : x \in blocks, y \in others}

AllBlocks(n, blocks, others) ==
  Loops(n, blocks) \cup Literals(n, blocks)
    \cup Ifs(n, blocks, others) \cup Switches(n, blocks, others)

\* an inner statement, with one of its own before or behind it
Around(inner, n) ==
  UNION {{OnLines(<<x>>), OnLines(<<Declare(n), x>>), OnLines(<<x, Read(n)>>)} : x \in inner}

\* A loop or a switch in an if, and anything but a literal in a switch, do not compile.
OneBlock == AllBlocks(10, NamedBlocks(20), SmallBlocks(30))

Tiny(n) == {OnLines(x) : x \in {<<Declare(n)>>, <<SetA(n)>>, <<DeclareI(n)>>}}
Inner == AllBlocks(40, Tiny(20), {OnLines(<<Declare(30)>>)})
BlockInBlock ==
  Loops(10, Around(Inner, 50)) \cup Literals(10, Around(Inner, 50))
    \cup Ifs(10, Around(Ifs(40, Tiny(20), Tiny(30)) \cup Literals(40, Tiny(20)), 50), Tiny(60))
    \cup Switches(10, Around(Literals(40, Tiny(20)), 50), Tiny(60))

Names_(outer, statement) ==
  File(<<outer.package,
         Func("main", OnLines(outer.local \o <<statement, Assign(i0, "=", Plus(a, 90))>>))>>)
    @@ [kind |-> "names"]

SliceS == Assign(Name_("s"), ":=", Literal(SliceOf(TypeName("int")), <<Num(3)>>))
VarA   == Part(<<"var", "a", "=", "1">>, <<"Alloc", <<"a">>, <<Num(1).tree>>, <<"nil">>, FALSE>>)
ConstA == Part(<<"const", "a", "=", "1">>, <<"Alloc", <<"a">>, <<Num(1).tree>>, <<"nil">>, TRUE>>)
LocalA == [package |-> PackageClause("main"), local |-> <<Declare(1), DeclareI(2), SliceS>>]
Outers == {LocalA} \cup {[package |-> p, local |-> <<DeclareI(2), SliceS>>] : p \in {VarA, ConstA}}

MCNames ==
  {p \in {Names_(o, s) : o \in Outers, s \in OneBlock}
           \cup {Names_(LocalA, s) : s \in BlockInBlock} :
     GoNamed!Compiles(GoNamed!Events(p.tree))}

MCExpressions == {ExpressionProgram(e) : e \in Exps}
MCBodies == {StatementProgram(x) : x \in FunctionBodies}
MCDeclarations == {DeclarationProgram(f) : f \in Files}

\* Programs that go through the lexer first.
MCSpelled == {ExpressionProgram(e) : e \in ExpressionsOf({a, One, CallOf(b), Negative}, {"+"}, 2)}
               \cup {StatementProgram(x) : x \in {<< <<s, 1>> >> : s \in Simple}}
               \cup {StatementProgram(x) : x \in Blocks(Compounds({OneLine}))}
               \cup {DeclarationProgram(f) : f \in {File(<<TypeDecl("U", t)>>) : t \in Types1}}
               \cup {GroupsProgram(<<g>>) : g \in GroupsOf({<<>>, <<iota>>}, 2)}

\* Programs that run.  The integers have few bits: each type more than the one before.
MCBits == ("i1" :> 1) @@ ("i8" :> 3) @@ ("i16" :> 4) @@ ("i32" :> 5) @@ ("i64" :> 6)

Signeds   == {"int8", "int16", "int32", "int64", "int"}
Unsigneds == {"uint8", "uint16", "uint32", "uint64"}
AllOps    == {"+", "-", "*", "/", "%", "&", "|", "^", "&^", "<<", ">>", "==", "!=", "<", "<=", ">", ">="}

\* the numbers at the ends and in the middle of a type
Edges(t) == IF Unsigned(t) THEN {0, 1, 2, Half(t) - 1, Half(t), 2 * Half(t) - 1}
            ELSE {-Half(t), -2, -1, 0, 1, 2, Half(t) - 1}
SecondEdges(t, op) == {y \in Edges(t) : Fine(op, y)}

MCIntegers ==
  UNION {{BinaryCase(t, op, x, y) : x \in IntValues(t), y \in {n \in IntValues(t) : Fine(op, n)}}
           : t \in {"int8", "uint8"}, op \in AllOps}
  \cup UNION {{BinaryCase(t, op, x, y) : x \in Edges(t), y \in SecondEdges(t, op)}
                : t \in {"int"}, op \in AllOps}
  \cup UNION {UNION {ConstantsRight(t, op, x, 3) : x \in Edges(t)}
                : t \in {"uint8", "uint64", "int"}, op \in AllOps}
  \cup UNION {UNION {DivisionsOfConstant(t, k, x) : x \in Edges(t) \ {0}, k \in {0, 1, 3}}
                : t \in {"int8", "uint8", "uint64", "int"}}
  \cup ConstantsOnly
  \cup UNION {{ConversionCase(t, u, x) : x \in Edges(t)} : t, u \in Signeds \cup Unsigneds \cup {"uint"}}
  \cup UNION {{ConvertedDivision(t, u, x) : x \in Edges(t)}
                : <<t, u>> \in {p \in (Signeds \cup Unsigneds) \X (Signeds \cup Unsigneds) :
                                 IntBits(p[1]) = IntBits(p[2])}}
  \cup UNION {UNION {UnaryCases(t, x) : x \in Edges(t)} : t \in Signeds \cup Unsigneds}

MCStorage ==
  UNION {MakerCases(t) \cup ReturnedCases(t) \cup CopyCases(t) \cup LiteralCases(t) : t \in {"T", "U", "V"}}
    \cup PointerCases \cup OrderCases

MCCalls ==
  UNION {UNION {ShiftedCases(t, u, x) : x \in {1, IF Unsigned(t) THEN 2 * Half(t) - 1 ELSE -2}}
           : t \in {"int8", "uint8", "uint32", "int"}, u \in {"int8", "uint8", "int32", "uint32", "int", "uint64"}}
    \cup StructParameterCases \cup NamedResultCases \cup ParameterCases \cup AssignmentCases \cup MethodCases

MCAssertions ==
  {AssertionCase(t, u) : t, u \in {"int8", "uint8", "int", "int64", "bool", "T", "U", "V", "d", "e"}}
    \cup HeldCases

MCStrings ==
  UNION {SubstringCases(text, x, y) : text \in {"", "a", "abc"}, x \in -1..4, y \in -1..4}
    \cup {IndexCase(text, n) : text \in {"", "a", "abc"}, n \in -2..4}
    \cup StringOperatorCases \cup JoinCases \cup StringCallCases
=============================================================================
