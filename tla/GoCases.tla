------------------------------ MODULE GoCases ------------------------------
(***************************************************************************)
(* GoCases: families of programs that run, each with whether tre's program *)
(* does what Go's specification says: `asGo'.  All of them are accepted by *)
(* Go, and end without a panic there, except for some of those of strings. *)
(***************************************************************************)
EXTENDS GoGrammar

CONSTANT Bits  \* the number of bits of each integer type, by LLVM's names

IntBits(t) ==
  CASE t \in {"int8", "uint8"}   -> Bits["i8"]
    [] t \in {"int16", "uint16"} -> Bits["i16"]
    [] t \in {"int32", "uint32"} -> Bits["i32"]
    [] OTHER                     -> Bits["i64"]

Unsigned(t)  == t \in {"uint8", "uint16", "uint32", "uint64", "uint"}
Half(t)      == 2 ^ (IntBits(t) - 1)
TopBit(t, n) == n < 0 \/ n >= Half(t)
IntValues(t) == IF Unsigned(t) THEN 0..2 * Half(t) - 1 ELSE -Half(t)..Half(t) - 1
Wide(t)      == IntBits(t) = Bits["i64"]

Shifts    == {"<<", ">>"}
Orderings == {"<", "<=", ">", ">="}

-----------------------------------------------------------------------------
\* Parts of programs

Ident(name) == Operand(<<name>>, <<"Name", "", name>>, "name")
Numeral(n)   == Operand(<<ToString(n)>>, <<"Constant", "NUMBER", ToString(n)>>, "item")
SignedNumeral(n)   == IF n >= 0 THEN Numeral(n)
               ELSE Operand(<<"-", ToString(-n)>>, <<"Sub", Numeral(-n).tree>>, "prefix")
Binary(x, op, y) == Expression(<<x, y>>, <<op>>)
InParens(x)    == Operand(<<"(">> \o x.words \o <<")">>, <<"Group", x.tree>>, "open")
Negated(x)     == Operand(<<"!">> \o x.words, <<"Negate", x.tree>>, "not")
AddressOf(x)   == Operand(<<"&">> \o x.words, <<"GetReference", x.tree>>, "prefix")
Contents(x)    == Operand(<<"*">> \o x.words, <<"Dereference", x.tree>>, "item")
FieldOf(x, f)  == Operand(x.words \o <<".", f>>, <<"StructLoadElement", x.tree, f>>, "name")
Conversion(t, x) == Operand(<<t, "(">> \o x.words \o <<")">>, <<"TypeCast", t, x.tree>>, "open")
Call(f, args) ==
  Operand(f.words \o <<"(">> \o Joined(AllWords(args)) \o <<")">>, <<"Call", f.tree, Trees(args)>>,
          "open")

Var(name, t)   == VarOf(name, t)
Set(x, val)    == Assign(x, "=", val)
New(name, val) == Assign(Ident(name), ":=", val)
NewConst(name, n) ==
  [Part(<<"const", name, "=", ToString(n)>>,
        <<"Alloc", <<name>>, <<Numeral(n).tree>>, <<"nil">>, TRUE>>) EXCEPT !.late = 1]
VarTyped(name, t, val) ==
  [Part(<<"var", name, t, "=">> \o val.words,
        <<"Alloc", <<name>>, <<val.tree>>, TypeName(t).tree, FALSE>>) EXCEPT !.late = val.late + 1]
Step(name, op) ==
  Part(<<name, op>>, <<IF op = "++" THEN "Increment" ELSE "Decrement", Ident(name).tree>>)
NewTwo(name, other, val) ==
  [Part(<<name, ",", other, ":=">> \o val.words,
        <<"Alloc", <<name, other>>, <<val.tree>>, <<"nil">>, FALSE>>)
     EXCEPT !.late = val.late, !.peeks = val.peeks]
SetTwo(x, y, v, w) ==
  Part(x.words \o <<",">> \o y.words \o <<"=">> \o v.words \o <<",">> \o w.words,
       <<"Assign", <<x.tree, y.tree>>, <<v.tree, w.tree>>>>)

OnLines(statements) == [k \in DOMAIN statements |-> <<statements[k], 1>>]
Function(name, args, results, statements) ==
  FuncDecl(<<>>, name, args, results, Len(results) > 1, OnLines(statements))
NamedFunction(name, args, results, statements) ==
  FuncDecl(<<>>, name, args, results, TRUE, OnLines(statements))
MethodOf(t, name, args, results, statements) ==
  FuncDecl(<<Arguments(<<"t">>, t)>>, name, args, results, FALSE, OnLines(statements))

IntType == TypeName("int")
Param(name, t) == Arguments(<<name>>, t)

\* A program: declarations, and the statements of main.
Case(kind, decls, statements, asGo) ==
  File(decls \o <<Func("main", OnLines(statements))>>) @@ [kind |-> kind, asGo |-> asGo]

-----------------------------------------------------------------------------
\* Integers: x op y with both of type t

\* Comparisons are signed, right shifts bring in zeros, a shift by the width or more is
\* undefined, there is no %, and the least number divided by -1 traps.
BinaryApart(t, op, x, y) ==
  \/ op = "%"
  \/ op \in Orderings /\ Unsigned(t) /\ TopBit(t, x) # TopBit(t, y)
  \/ op \in Shifts /\ y >= IntBits(t)
  \/ op = ">>" /\ x < 0 /\ y > 0
  \/ op = "/" /\ x = -Half(t) /\ y = -1

\* Go does not panic.
Fine(op, y) == ~(op \in {"/", "%"} /\ y = 0) /\ ~(op \in Shifts /\ y < 0)

Given(name, t, n) == <<Var(name, TypeName(t)), Set(Ident(name), SignedNumeral(n))>>

\* var a t; a = x; var b t; b = y; c := a op b
BinaryCase(t, op, x, y) ==
  Case("integers", <<>>,
       Given("a", t, x) \o Given("b", t, y) \o <<New("c", Binary(Ident("a"), op, Ident("b")))>>,
       ~BinaryApart(t, op, x, y))

\* A number in an expression is an int64, unless the expression is assigned to an integer:
\* then it has the type of that.  A constant with a name gets the type of the other operand.
ConstantsRight(t, op, x, k) ==
  LET a == Ident("a")
      apart == BinaryApart(t, op, x, k)
  IN  {Case("integers", <<>>, Given("a", t, x) \o <<New("c", Binary(a, op, Numeral(k)))>>,
            ~apart /\ Wide(t)),
       Case("integers", <<>>,
            Given("a", t, x) \o <<NewConst("k", k), New("c", Binary(a, op, Ident("k")))>>, ~apart)}
  \cup (IF op \in Orderings \cup {"==", "!="}
        THEN {Case("integers", <<>>,
                   Given("a", t, x) \o <<Var("c", TypeName("bool")), Set(Ident("c"), Binary(a, op, Numeral(k)))>>,
                   ~apart /\ Wide(t))}
        ELSE {Case("integers", <<>>,
                   Given("a", t, x) \o <<Var("c", TypeName(t)), Set(Ident("c"), Binary(a, op, Numeral(k)))>>,
                   ~apart)})

\* k / a, with a number or a constant that has a name: a division by a large unsigned number
\* is signed if the number on the left is an int64
DivisionsOfConstant(t, k, x) ==
  LET a == Ident("a") signed == Unsigned(t) /\ TopBit(t, x) /\ 2 * Half(t) - x <= k IN
  {Case("integers", <<>>, Given("a", t, x) \o <<New("c", Binary(Numeral(k), "/", a))>>,
        Wide(t) /\ ~signed),
   Case("integers", <<>>,
        Given("a", t, x) \o <<NewConst("k", k), New("c", Binary(Ident("k"), "/", a))>>, TRUE),
   Case("integers", <<>>,
        Given("a", t, x) \o <<Var("c", TypeName(t)), Set(Ident("c"), Binary(Numeral(k), "/", a))>>, TRUE)}

\* Two constants with names: their sum has no type, and cannot be used with an int.
ConstantsOnly ==
  LET k == Ident("k")
      sum == <<NewConst("k", 2), New("c", Binary(k, "+", k))>>
  IN  {Case("integers", <<>>, sum, TRUE),
       Case("integers", <<>>, Given("a", "int", 1) \o sum \o <<New("d", Binary(Ident("a"), "+", Ident("c")))>>,
            FALSE)}

\* Widening is signed; there is no uint; a conversion to int16 or uint16 is parsed as a call.
NoConversions == {"int16", "uint16"}

ConversionCase(t, u, x) ==
  Case("integers", <<>>, Given("a", t, x) \o <<New("c", Conversion(u, Ident("a")))>>,
       /\ "uint" \notin {t, u} /\ u \notin NoConversions
       /\ ~(IntBits(u) > IntBits(t) /\ Unsigned(t) /\ TopBit(t, x)))

\* u(a) / b: the type of a conversion between types of one size stays what it was.
ConvertedDivision(t, u, x) ==
  Case("integers", <<>>,
       Given("a", t, x) \o Given("b", u, 2)
         \o <<New("c", Binary(Conversion(u, Ident("a")), "/", Ident("b")))>>,
       u \notin NoConversions /\ ~(Unsigned(t) # Unsigned(u) /\ TopBit(t, x)))

\* Steps and signs are as in Go; a declaration with a type and a value looks at the value
\* only; "!" needs a variable.
UnaryCases(t, x) ==
  LET a == Ident("a") IN
  {Case("integers", <<>>, Given("a", t, x) \o <<Step("a", op)>>, TRUE) : op \in {"++", "--"}}
    \cup {Case("integers", <<>>,
               Given("a", t, x) \o <<New("c", Operand(<<"-", "a">>, <<"Sub", a.tree>>, "prefix"))>>, TRUE),
          Case("integers", <<>>, <<VarTyped("a", t, Numeral(1))>>, Wide(t)),
          Case("integers", <<>>,
               Given("a", t, x) \o <<New("c", Binary(a, "==", a)), New("d", Negated(Ident("c")))>>, TRUE),
          Case("integers", <<>>,
               Given("a", t, x) \o <<New("d", Negated(InParens(Binary(a, "==", a))))>>, FALSE)}

-----------------------------------------------------------------------------
\* Storage: structs, pointers, and what outlives a function

Fields(names, types) == StructOf(names, [k \in DOMAIN types |-> TypeName(types[k])])
\* T has one field; in U, the second field is behind a gap, in V it is not.
TypesTUV == <<TypeDecl("T", Fields(<<"b">>, <<"int">>)),
              TypeDecl("U", Fields(<<"a", "b">>, <<"int8", "int">>)),
              TypeDecl("V", Fields(<<"b", "a">>, <<"int", "int8">>))>>

B4(t)     == Struct(t, << <<"b", Numeral(4)>> >>, FALSE)
FieldB(x) == FieldOf(Ident(x), "b")

\* Ways to make a variable that lives on: whether tre puts it on the heap, and with enough
\* room.  It does so for a literal in the last declaration of a variable that is returned, by
\* name or by address.
Makers(t) ==
  LET a == Ident("a") adr == AddressOf(a) IN
  {[body |-> <<New("a", B4(t)), Return(<<adr>>)>>, lives |-> t # "U"],
   [body |-> <<New("a", AddressOf(B4(t))), Return(<<a>>)>>, lives |-> t # "U"],
   [body |-> <<Var("a", TypeName(t)), Set(FieldB("a"), Numeral(4)), Return(<<adr>>)>>, lives |-> FALSE],
   [body |-> <<Return(<<AddressOf(B4(t))>>)>>, lives |-> FALSE],
   [body |-> <<New("a", B4(t)), New("p", adr), Return(<<Ident("p")>>)>>, lives |-> FALSE]}

MakerCases(t) ==
  UNION {LET f == Function("f", <<>>, <<Result(PointerTo(TypeName(t)))>>, m.body)
             p == <<New("p", Call(Ident("f"), <<>>))>>
             case(statements, asGo) == Case("storage", TypesTUV \o <<f>>, statements, asGo)
         IN  {case(p \o <<New("x", FieldB("p"))>>, m.lives),
              case(p \o <<Set(FieldB("p"), Numeral(5)), New("x", FieldB("p"))>>, m.lives),
              case(p \o <<New("q", Call(Ident("f"), <<>>)), Set(FieldB("p"), Numeral(5)), New("x", FieldB("q"))>>,
                   m.lives),
              \* what a pointer that is in a variable points to is not copied
              case(p \o <<New("t", Contents(Ident("p"))), New("x", FieldB("t"))>>, m.lives),
              case(p \o <<New("t", Contents(Ident("p"))), Set(FieldB("t"), Numeral(5)), New("x", FieldB("p"))>>,
                   FALSE)}
           : m \in Makers(t)}

\* Ways to make a struct and return it: on the heap, it is not copied when it is declared
\* with :=, but its field is there.
ReturnedCases(t) ==
  LET a == Ident("a")
      f(body) == Function("f", <<>>, <<Result(TypeName(t))>>, body)
      use == <<New("t", Call(Ident("f"), <<>>)), New("x", FieldB("t"))>>
      useVar == <<Var("t", TypeName(t)), Set(Ident("t"), Call(Ident("f"), <<>>)), New("x", FieldB("t"))>>
      escapes == <<New("a", B4(t)), Return(<<a>>)>>
      copies  == {<<Return(<<B4(t)>>)>>,
                  <<Var("a", TypeName(t)), Set(FieldB("a"), Numeral(4)), Return(<<a>>)>>}
      case(body, statements, asGo) == Case("storage", TypesTUV \o <<f(body)>>, statements, asGo)
  IN  {case(c, u, TRUE) : c \in copies, u \in {use, useVar}}
        \cup {case(escapes, use, FALSE), case(escapes, useVar, t # "U")}

\* Copies: a struct of a type that was on the heap in a function before is not copied.
CopyCases(t) ==
  LET maker == Function("f", <<>>, <<Result(PointerTo(TypeName(t)))>>,
                        <<New("a", B4(t)), Return(<<AddressOf(Ident("a"))>>)>>)
      g == Function("g", <<Param("t", TypeName(t))>>, <<Result(IntType)>>,
                    <<Set(FieldB("t"), Numeral(9)), Return(<<FieldB("t")>>)>>)
      h == Function("h", <<Param("t", PointerTo(TypeName(t)))>>, <<Result(IntType)>>,
                    <<Set(FieldB("t"), Numeral(9)), Return(<<FieldB("t")>>)>>)
      t1 == <<New("t", B4(t))>>
      x  == <<New("x", FieldB("t"))>>
      copy == t1 \o <<New("u", Ident("t")), Set(FieldB("u"), Numeral(2))>> \o x
      assigned == t1 \o <<Var("u", TypeName(t)), Set(Ident("u"), Ident("t")), Set(FieldB("u"), Numeral(2))>> \o x
      byValue  == t1 \o <<New("y", Call(Ident("g"), <<Ident("t")>>))>> \o x
      byAddress == t1 \o <<New("y", Call(Ident("h"), <<AddressOf(Ident("t"))>>))>> \o x
      case(decls, statements, asGo) == Case("storage", TypesTUV \o decls, statements, asGo)
  IN  {case(<<g, h>>, s, TRUE) : s \in {copy, assigned, byValue, byAddress}}
        \cup {case(<<maker, g, h>>, s, s # copy) : s \in {copy, assigned, byValue, byAddress}}

\* Pointers to locals: p := &a is no variable; a pointer that is one is loaded once.
PointerCases ==
  LET a == Ident("a") p == Ident("p") q == Ident("q")
      a3 == Given("a", "int", 3) \o Given("b", "int", 4)
      pa == <<New("p", AddressOf(a))>>
      x  == <<New("x", Contents(p))>>
      varP == <<Var("p", PointerTo(IntType)), Set(p, AddressOf(a))>>
      case(statements, asGo) == Case("storage", TypesTUV, statements, asGo)
  IN  {case(a3 \o pa \o x, TRUE),
       case(a3 \o pa \o <<Set(a, Numeral(5))>> \o x, TRUE),
       case(a3 \o pa \o <<Set(Contents(p), Numeral(5))>> \o x, TRUE),
       case(a3 \o pa \o <<New("q", p), Set(Contents(q), Numeral(5))>> \o x, TRUE),
       case(a3 \o pa \o <<Set(p, AddressOf(Ident("b")))>> \o x, FALSE),
       case(a3 \o varP, TRUE), case(a3 \o varP \o x, FALSE),
       case(a3 \o varP \o <<Set(Contents(p), Numeral(5))>>, FALSE)}

\* Literals: a field that is not given is zero; one that is given by a variable is a panic.
LiteralCases(t) ==
  LET lit(fields) == <<New("t", Struct(t, fields, FALSE)), New("x", FieldB("t"))>>
      case(statements, asGo) == Case("storage", TypesTUV, Given("a", "int", 3) \o statements, asGo)
  IN  {case(lit(<<>>), TRUE), case(lit(<< <<"b", Binary(Ident("a"), "+", Numeral(1))>> >>), TRUE),
       case(lit(<< <<"b", Ident("a")>> >>), FALSE),
       case(<<Var("t", TypeName(t)), New("x", FieldB("t"))>>, TRUE)}

\* The values of a literal are computed in any order: it shows if they have effects.
OrderCases ==
  LET t == FieldB("t")
      next == Function("next", <<Param("t", PointerTo(TypeName("T")))>>, <<Result(IntType)>>,
                       <<Set(t, Binary(t, "+", Numeral(1))), Return(<<t>>)>>)
      value(f) == Call(Ident(f), <<AddressOf(Ident("t"))>>)
      case(first, second, asGo) ==
        Case("storage", TypesTUV \o <<TypeDecl("W", Fields(<<"a", "b">>, <<"int", "int">>)), next>>,
             <<New("t", B4("T")), New("w", Struct("W", << <<"a", first>>, <<"b", second>> >>, FALSE)),
               New("x", FieldOf(Ident("w"), "a")), New("y", FieldB("w"))>>, asGo)
  IN  {case(value("next"), value("next"), FALSE), case(value("next"), Numeral(1), TRUE),
       case(Numeral(1), value("next"), TRUE)}

-----------------------------------------------------------------------------
\* Calls: parameters, results and methods

Results(types) == [k \in DOMAIN types |-> Result(TypeName(types[k]))]
CallF(args) == Call(Ident("f"), args)

\* f(a t, b t), called with (x, 2), returns a / b and u(a): each parameter has the type of the
\* result that is where it is, and with it its sign and its size.
ShiftedCases(t, u, x) ==
  LET a == Ident("a")
      f(results, vals) ==
        Function("f", <<Param("a", TypeName(t)), Param("b", TypeName(t))>>, results, <<Return(vals)>>)
      quotient == Binary(a, "/", Ident("b"))
      args == Given("c", t, x) \o Given("d", t, 2)
      call == CallF(<<Ident("c"), Ident("d")>>)
      widens == IntBits(u) > IntBits(t) /\ Unsigned(t) /\ TopBit(t, x)
  IN  {Case("calls", <<f(Results(<<t, u>>), <<quotient, Conversion(u, a)>>)>>,
            args \o <<NewTwo("x", "y", call)>>, ~widens),
       Case("calls", <<f(Results(<<u, t>>), <<Conversion(u, a), quotient>>)>>,
            args \o <<NewTwo("x", "y", call)>>,
            IntBits(t) = IntBits(u) /\ (Unsigned(t) # Unsigned(u) => ~TopBit(t, x))),
       Case("calls", <<f(Results(<<t>>), <<quotient>>)>>, args \o <<New("x", call)>>, TRUE)}

\* A parameter that is a struct, or a pointer to one, is a struct only if there is one result.
StructParameterCases ==
  LET f(t, results, vals) == Function("f", <<Param("t", t)>>, Results(results), <<Return(vals)>>)
      t4 == <<New("t", B4("T"))>>
      T == TypeName("T")
      two == <<"int", "int">>
      vals == <<FieldB("t"), Numeral(1)>>
  IN  {Case("calls", TypesTUV \o <<f(T, <<"int">>, <<FieldB("t")>>)>>,
            t4 \o <<New("x", CallF(<<Ident("t")>>))>>, TRUE),
       Case("calls", TypesTUV \o <<f(T, two, vals)>>,
            t4 \o <<NewTwo("x", "y", CallF(<<Ident("t")>>))>>, FALSE),
       Case("calls", TypesTUV \o <<f(PointerTo(T), two, vals)>>,
            t4 \o <<NewTwo("x", "y", CallF(<<AddressOf(Ident("t"))>>))>>, FALSE)}

\* Results with names: they are not zeroed, and each value of a return is stored before the
\* next is computed.
NamedResultCases ==
  LET a == Ident("a") r == Ident("r") s == Ident("s")
      f(results, body) ==
        NamedFunction("f", <<Param("a", IntType)>>, [k \in DOMAIN results |-> NamedResult(results[k], IntType)],
                      body)
      one(body, asGo) ==
        Case("calls", <<f(<<"r">>, body)>>, Given("c", "int", 3) \o <<New("x", CallF(<<Ident("c")>>))>>, asGo)
      two(body, asGo) ==
        Case("calls", <<f(<<"r", "s">>, body)>>,
             Given("c", "int", 3) \o <<NewTwo("x", "y", CallF(<<Ident("c")>>))>>, asGo)
      both == <<Set(r, a), Set(s, Numeral(2))>>
  IN  {one(<<Set(r, a), Return(<<>>)>>, TRUE), one(<<Return(<<a>>)>>, TRUE),
       one(<<Return(<<>>)>>, FALSE), one(<<Return(<<r>>)>>, FALSE),
       two(both \o <<Return(<<>>)>>, TRUE), two(<<Set(r, a), Return(<<>>)>>, FALSE),
       two(both \o <<Return(<<r, s>>)>>, TRUE), two(both \o <<Return(<<r, r>>)>>, TRUE),
       two(both \o <<Return(<<s, r>>)>>, FALSE), two(<<Set(r, a), Return(<<Numeral(2), r>>)>>, FALSE),
       two(<<Return(<<Numeral(2), a>>)>>, TRUE),
       \* of two returns the last one counts, and what is between them is executed
       one(<<Return(<<a>>), Return(<<Numeral(2)>>)>>, FALSE),
       one(<<Return(<<a>>), Set(r, Numeral(2)), Return(<<a>>)>>, TRUE),
       two(<<Return(<<a, Numeral(2)>>), Set(r, Numeral(4)), Return(<<>>)>>, FALSE)}

\* A parameter is no variable.  A number has the type of what is assigned to, in arguments,
\* too, and is an int64 in a return.
ParameterCases ==
  LET a == Ident("a") c == Ident("c")
      f(t, u, body) == <<Function("f", <<Param("a", TypeName(t))>>, Results(<<u>>), body)>>
      asA == <<Return(<<a>>)>>
      call(x) == CallF(<<x>>)
      case(decls, statements, asGo) == Case("calls", decls, statements, asGo)
      given == Given("c", "int", 3)
  IN  {case(f("int", "int", <<Set(a, Binary(a, "+", Numeral(1))), Return(<<a>>)>>), given \o <<New("x", call(c))>>,
            FALSE),
       case(f("int", "int", <<Step("a", "++"), Return(<<a>>)>>), given \o <<New("x", call(c))>>, FALSE),
       case(f("int", "int", <<New("b", a), Step("b", "++"), Return(<<Ident("b")>>)>>),
            given \o <<New("x", call(call(c)))>>, TRUE),
       case(f("int", "int", asA), <<New("x", call(Numeral(3)))>>, TRUE),
       case(f("int8", "int8", asA), <<New("x", call(Numeral(3)))>>, FALSE),
       case(f("int8", "int8", asA), <<Var("x", TypeName("int8")), Set(Ident("x"), call(Numeral(3)))>>, TRUE),
       case(f("int", "int8", <<Return(<<Conversion("int8", a)>>)>>),
            <<Var("x", TypeName("int8")), Set(Ident("x"), call(Numeral(3)))>>, FALSE),
       case(f("int", "int", <<Return(<<Numeral(3)>>)>>), given \o <<New("x", call(c))>>, TRUE),
       case(f("int", "int8", <<Return(<<Numeral(3)>>)>>), given \o <<New("x", call(c))>>, FALSE)}

\* Several values: an assignment with "_" stores nothing, one to "_" alone does not even
\* call, and the results of a call cannot be assigned.
AssignmentCases ==
  LET a == Ident("a") b == Ident("b") blank == Ident("_")
      given == Given("a", "int", 3) \o Given("b", "int", 4)
      two == Function("f", <<>>, Results(<<"int", "int">>), <<Return(<<Numeral(1), Numeral(2)>>)>>)
      one == Function("f", <<Param("p", PointerTo(TypeName("T")))>>, Results(<<"int">>),
                      <<Set(FieldB("p"), Numeral(9)), Return(<<Numeral(1)>>)>>)
      assigned == Part(<<"a", ",", "b", "=", "f", "(", ")">>,
                       <<"Assign", <<a.tree, b.tree>>, <<CallF(<<>>).tree>>>>)
      t4 == <<New("t", B4("T"))>>
      x  == <<New("x", FieldB("t"))>>
      call == CallF(<<AddressOf(Ident("t"))>>)
  IN  {Case("calls", <<>>, given \o <<SetTwo(a, b, b, a)>>, TRUE),
       Case("calls", <<>>, given \o <<SetTwo(a, blank, b, a)>>, FALSE),
       Case("calls", <<>>, given \o <<SetTwo(blank, b, b, a)>>, FALSE),
       Case("calls", <<two>>, given \o <<assigned>>, FALSE),
       Case("calls", TypesTUV \o <<one>>, t4 \o <<Set(blank, call)>> \o x, FALSE),
       Case("calls", TypesTUV \o <<one>>, t4 \o <<call>> \o x, TRUE),
       Case("calls", TypesTUV \o <<one>>, t4 \o Given("a", "int", 3) \o <<SetTwo(a, blank, call, a)>> \o x,
            FALSE)}

\* Methods: for variables and for p := &t; not for a pointer that is a variable.  Types that
\* are declared by the same basic type share their methods.
MethodCases ==
  LET t == Ident("t") p == Ident("p") T == TypeName("T")
      get(on, result) == MethodOf(on, "get", <<>>, Results(<<"int">>), <<Return(<<result>>)>>)
      put(on) == MethodOf(on, "put", <<Param("n", IntType)>>, Results(<<"int">>),
                          <<Set(FieldB("t"), Ident("n")), Return(<<FieldB("t")>>)>>)
      call(x, name, args) == Call(FieldOf(x, name), args)
      t4 == <<New("t", B4("T"))>>
      uses(x) == <<New("y", call(x, "put", <<Numeral(9)>>)), New("x", call(x, "get", <<>>)), New("z", FieldB("t"))>>
      decls(on) == TypesTUV \o <<get(T, FieldB("t")), put(on)>>
      I == TypeDecl("d", IntType) J == TypeDecl("e", IntType)
      i3 == <<Var("a", TypeName("d")), Set(Ident("a"), Numeral(3)), New("x", call(Ident("a"), "get", <<>>))>>
  IN  {Case("calls", decls(on), t4 \o uses(t), TRUE) : on \in {T, PointerTo(T)}}
        \cup {Case("calls", decls(on), t4 \o <<New("p", AddressOf(t))>> \o uses(p), TRUE) : on \in {T, PointerTo(T)}}
        \cup {Case("calls", decls(on), t4 \o <<Var("p", PointerTo(T)), Set(p, AddressOf(t))>> \o uses(p), FALSE)
                 : on \in {T, PointerTo(T)}}
        \cup {Case("calls", <<I, get(TypeName("d"), Numeral(1))>>, i3, TRUE),
              Case("calls", <<I, J, get(TypeName("d"), Numeral(1)), get(TypeName("e"), Numeral(2))>>, i3, FALSE)}

-----------------------------------------------------------------------------
\* Interfaces without methods: what they hold, and of which type

Asserted(x, t) == [Operand(x.words \o <<".", "(", t, ")">>,
                           <<"TypeCastInterface", x.tree, TypeName(t).tree>>, "open")
                     EXCEPT !.late = 1, !.peeks = {1}]
VarI(name) == Var(name, InterfaceOf(<<>>))

\* types declared by others: d is an int8, e an int
TypesDE == <<TypeDecl("d", TypeName("int8")), TypeDecl("e", IntType)>>

\* The number of a type is found by its name: all structs have one name, a declared type
\* that is no struct has the name it was declared by, and int is int64.
TypeNumber(t) ==
  CASE t \in {"T", "U", "V"} -> "struct"
    [] t = "d"              -> "int8"
    [] t \in {"e", "int"}   -> "int64"
    [] OTHER                -> t

\* Makes a variable a of type t.
Make(t) ==
  CASE t \in {"T", "U", "V"} -> <<New("a", B4(t))>>
    [] t = "bool"           -> <<Var("a", TypeName("bool"))>>
    [] OTHER                -> Given("a", t, 3)

\* var i interface{}; i = a; x, y := i.(u)
AssertionCase(t, u) ==
  LET field == IF u \in {"T", "U", "V"} THEN <<New("z", FieldB("x"))>> ELSE <<>> IN
  Case("assertions", TypesTUV \o TypesDE,
       Make(t) \o <<VarI("i"), Set(Ident("i"), Ident("a")), NewTwo("x", "y", Asserted(Ident("i"), u))>> \o field,
       (t = u) = (TypeNumber(t) = TypeNumber(u)))

\* An interface holds the address of the variable it was assigned: it changes with it, and
\* ends with it.  x := i.(T) is not supported, and a number is an int64.
HeldCases ==
  LET a == Ident("a") i == Ident("i")
      ai == Make("int") \o <<VarI("i"), Set(i, a)>>
      x  == <<NewTwo("x", "y", Asserted(i, "int"))>>
      f(args, results, body) == <<Function("f", args, results, body)>>
      hold(body, result) == f(<<Param("a", IntType)>>, <<Result(InterfaceOf(<<>>))>>, body \o <<Return(<<result>>)>>)
      toInt(results, vals) ==
        f(<<Param("i", InterfaceOf(<<>>))>>, Results(results), x \o <<Return(vals)>>)
      case(decls, statements, asGo) == Case("assertions", TypesTUV \o decls, statements, asGo)
      held == <<New("i", CallF(<<Numeral(3)>>))>>
  IN  {case(<<>>, ai \o x, TRUE), case(<<>>, ai \o <<Set(a, Numeral(5))>> \o x, FALSE),
       case(<<>>, ai \o <<Set(i, Binary(a, "+", Numeral(1))), Set(a, Numeral(5))>> \o x, TRUE),
       case(<<>>, ai \o <<VarI("j"), Set(Ident("j"), i), Set(i, Numeral(5)), NewTwo("x", "y", Asserted(Ident("j"), "int"))>>,
            TRUE),
       case(<<>>, ai \o <<New("x", Asserted(i, "int"))>>, FALSE),
       case(<<>>, <<VarI("i"), Set(i, Numeral(3))>> \o x, TRUE),
       case(hold(<<>>, a), held \o x, FALSE), case(hold(<<New("b", a)>>, Ident("b")), held \o x, FALSE),
       case(toInt(<<"int">>, <<Ident("x")>>), Make("int") \o <<New("z", CallF(<<a>>))>>, TRUE),
       case(toInt(<<"int">>, <<Ident("x")>>), <<New("z", CallF(<<Numeral(3)>>))>>, TRUE),
       case(toInt(<<"int", "bool">>, <<Ident("x"), Ident("y")>>), Make("int") \o <<NewTwo("z", "w", CallF(<<a>>))>>,
            FALSE)}
-----------------------------------------------------------------------------
\* Strings

Str(text)      == Operand(<<"\"" \o text \o "\"">>, <<"Constant", "STRING", text>>, "item")
At_(x, n)      == Operand(x.words \o <<"[">> \o n.words \o <<"]">>, <<"LoadArrayElement", x.tree, n.tree>>, "open")
From(x, n)     == Operand(x.words \o <<"[">> \o n.words \o <<":", "]">>,
                          <<"SliceArray", x.tree, n.tree, <<"nil">>>>, "open")
FromTo(x, n, m) == Operand(x.words \o <<"[">> \o n.words \o <<":">> \o m.words \o <<"]">>,
                           <<"SliceArray", x.tree, n.tree, m.tree>>, "open")
LenOf(x)       == Call(Ident("len"), <<x>>)
StringCase(decls, statements, asGo) == Case("strings", decls, statements, asGo)

\* s := text; i := from; j := to; t := s[i:j]; n := len(t), and the same with s[i:].  A start
\* below 0, and one behind the end, are not noticed if nothing is behind the length.
SubstringCases(text, from, to) ==
  LET s == Ident("s") i == Ident("i") j == Ident("j")
      given == <<New("s", Str(text)), New("i", SignedNumeral(from)), New("j", SignedNumeral(to))>>
      seen(t) == <<New("t", t), New("n", LenOf(Ident("t")))>>
      inside == from <= Len(text) /\ to <= Len(text)
  IN  {StringCase(<<>>, given \o seen(FromTo(s, i, j)), inside => 0 <= from /\ from <= to),
       StringCase(<<>>, given \o seen(From(s, i)), from >= 0)}

\* s := text; i := n; c := s[i]
IndexCase(text, n) ==
  StringCase(<<>>, <<New("s", Str(text)), New("i", SignedNumeral(n)), New("c", At_(Ident("s"), Ident("i")))>>, TRUE)

\* No joining, no comparing, no constants with names, and no index that is a number of the
\* type of the variable which the character is assigned to.
StringOperatorCases ==
  LET s == Ident("s") t == Ident("t") i == Ident("i") c == Ident("c")
      ab == <<New("s", Str("ab"))>>
      byte == ab \o <<Var("c", TypeName("uint8"))>>
  IN  {StringCase(<<>>, ab \o <<New("t", Binary(s, op, Str(text)))>>, FALSE)
         : op \in {"+", "==", "!="}, text \in {"", "b", "ab"}}
      \cup {StringCase(<<>>, <<New("s", Str("")), New("t", Binary(s, "+", s))>>, FALSE),
            StringCase(<<>>, <<[Part(<<"const", "k", "=", "\"ab\"">>,
                                    <<"Alloc", <<"k">>, <<Str("ab").tree>>, <<"nil">>, TRUE>>) EXCEPT !.late = 1],
                              New("t", Ident("k"))>>, FALSE),
            StringCase(<<>>, byte \o <<Set(c, At_(s, Numeral(1)))>>, FALSE),
            StringCase(<<>>, byte \o <<New("i", Numeral(1)), Set(c, At_(s, i))>>, TRUE),
            StringCase(<<>>, <<Var("s", TypeName("string")), New("t", s), New("n", LenOf(s))>>, TRUE),
            StringCase(<<>>, <<Var("s", TypeName("string")), New("c", At_(s, Numeral(0)))>>, TRUE),
            StringCase(<<>>, ab \o <<New("t", s), Set(s, From(s, Numeral(1)))>>, TRUE),
            StringCase(<<>>, ab \o <<New("t", Str("c")), SetTwo(s, t, t, s)>>, TRUE),
            StringCase(<<>>, ab \o <<New("n", Binary(LenOf(s), "-", Numeral(1))),
                                     New("t", From(s, Ident("n"))), New("c", At_(s, Ident("n")))>>, TRUE),
            StringCase(<<>>, <<New("s", Str("abc")), New("t", From(From(s, Numeral(1)), Numeral(1)))>>, TRUE),
            StringCase(<<>>, <<New("s", Str("abc")), New("c", At_(FromTo(s, Numeral(1), Numeral(2)), Numeral(1)))>>,
                       TRUE)}

\* s := text; s = s + more; n := len(s), as in testdata/string-concat.go.
JoinCases ==
  LET s == Ident("s") IN
  {StringCase(<<>>, <<New("s", Str(text)), Set(s, Binary(s, "+", Str(more))), New("n", LenOf(s))>>, FALSE)
     : text \in {"a", "abc"}, more \in {"b", "ab"}}

\* Strings as arguments, results and fields
StringCallCases ==
  LET s == Ident("s") x == Ident("x")
      string == TypeName("string")
      f(args, results, vals) == Function("f", args, Results(results), <<Return(vals)>>)
      S == TypeDecl("S", StructOf(<<"b", "n">>, <<string, IntType>>))
      new == New("x", Struct("S", << <<"b", Str("ab")>>, <<"n", Numeral(2)>> >>, FALSE))
  IN  {StringCase(<<f(<<Param("s", string)>>, <<"string">>, <<From(s, Numeral(1))>>)>>,
                  <<New("t", CallF(<<Str("abc")>>))>>, TRUE),
       StringCase(<<f(<<Param("s", string)>>, <<"string">>, <<Str("ab")>>)>>,
                  <<New("t", CallF(<<Str("ab")>>)), New("u", CallF(<<Ident("t")>>))>>, TRUE),
       StringCase(<<f(<<Param("s", string)>>, <<"int">>, <<LenOf(s)>>)>>,
                  <<New("n", CallF(<<Str("abc")>>))>>, TRUE),
       StringCase(<<f(<<Param("s", string)>>, <<"string", "int">>, <<From(s, Numeral(1)), LenOf(s)>>)>>,
                  <<NewTwo("t", "n", CallF(<<Str("abc")>>))>>, TRUE),
       StringCase(<<S>>, <<new, New("t", FieldOf(x, "b")), New("n", FieldOf(x, "n"))>>, TRUE),
       StringCase(<<S, f(<<>>, <<"S">>, <<Struct("S", << <<"n", Numeral(2)>>, <<"b", Str("ab")>> >>, FALSE)>>)>>,
                  <<New("x", CallF(<<>>)), New("t", FieldOf(x, "b")), New("n", FieldOf(x, "n"))>>, TRUE),
       StringCase(<<S, FuncDecl(<<>>, "f", <<>>, <<Result(PointerTo(TypeName("S")))>>, FALSE,
                               OnLines(<<new, Return(<<AddressOf(x)>>)>>))>>,
                  <<New("x", CallF(<<>>)), New("t", FieldOf(x, "b")), New("n", FieldOf(x, "n"))>>, TRUE)}
=============================================================================
