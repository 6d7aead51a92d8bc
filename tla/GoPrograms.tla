----------------------------- MODULE GoPrograms -----------------------------
(***************************************************************************)
(* GoPrograms: what Go's specification says a program does, for comparison *)
(* with Lowering: an evaluation of the same syntax trees, of straight-line *)
(* functions, with Go's types.                                             *)
(*                                                                         *)
(* A type is a name, or a pointer to a type.  A value is a record of its   *)
(* type, `v', which of a string is the sequence of its characters, and the *)
(* location it is in, if it is in a variable: a cell and the fields that   *)
(* lead to it.  Variables live for ever.                                   *)
(***************************************************************************)
EXTENDS Steps, Integers, Sequences, SequencesExt, Bitwise, TLC

CONSTANT Bits  \* as in LLVM: the number of bits of the integers, by LLVM's names

\* https://golang.org/ref/spec#Numeric_types
GoInts ==
  ("int8" :> "i8") @@ ("uint8" :> "i8") @@ ("int16" :> "i16") @@ ("uint16" :> "i16") @@
  ("int32" :> "i32") @@ ("uint32" :> "i32") @@ ("int64" :> "i64") @@ ("uint64" :> "i64") @@
  ("int" :> "i64") @@ ("uint" :> "i64") @@ ("uintptr" :> "i64")

GoUnsigned == {"uint8", "uint16", "uint32", "uint64", "uint", "uintptr"}

GoName(n)    == <<"name", n>>
GoPointer(t) == <<"pointer", t>>
GoUntyped    == <<"untyped">>
GoBool       == GoName("bool")
GoString     == GoName("string")
NoPlace      == <<0, <<>>>>

\* what a type is made of: an integer type, a struct, an interface or a pointer
Underlying(g, type) ==
  CASE type[1] # "name"            -> type
    [] type[1] = "name" /\ type[2] \in DOMAIN g.types -> g.types[type[2]]
    [] type[1] = "name" /\ type[2] \in DOMAIN GoInts \cup {"bool", "string"} -> <<"basic", type[2]>>

IsInterface(g, type) == Underlying(g, type)[1] = "interface"

GoWidth(name) == IF name = "bool" THEN 1 ELSE Bits[GoInts[name]]

\* the number of a type with the same bits
Wrap(g, type, n) ==
  IF type = GoUntyped THEN n
  ELSE LET name == Underlying(g, type)[2]
           bits == n % 2 ^ GoWidth(name)
       IN  IF name \in GoUnsigned \/ name = "bool" \/ bits < 2 ^ (GoWidth(name) - 1) THEN bits
           ELSE bits - 2 ^ GoWidth(name)

RECURSIVE GoZero(_, _), PartOf(_, _), With(_, _, _), Eval(_, _), EvalAll(_, _, _), GoBlock(_, _),
          GoType(_), GoFields(_, _, _)

GoZero(g, type) ==
  LET u == Underlying(g, type) IN
  CASE u[1] = "basic"     -> IF u[2] = "string" THEN <<>> ELSE 0
    [] u[1] = "pointer"   -> NoPlace
    [] u[1] = "interface" -> <<>>
    [] u[1] = "struct"    -> [n \in {u[2][k] : k \in DOMAIN u[2]} |->
                               GoZero(g, u[3][CHOOSE k \in DOMAIN u[2] : u[2][k] = n])]

\* the part of a value that fields lead to, and the value with that part replaced
PartOf(v, path)      == IF path = <<>> THEN v ELSE PartOf(v[Head(path)], Tail(path))
With(v, path, to) == IF path = <<>> THEN to ELSE [v EXCEPT ![Head(path)] = With(@, Tail(path), to)]

GoType(node) ==
  CASE node[1] = "Type"          -> GoName(node[3])
    [] node[1] = "PointerType"   -> GoPointer(GoType(node[2]))
    [] node[1] = "InterfaceType" -> <<"interface">>
    [] node[1] = "StructType"    -> <<"struct", node[2], [k \in DOMAIN node[3] |-> GoType(node[3][k])]>>

\* A declared type is made of what the type it is declared by is made of.
GoTypeDecl(g, name, node) == [g EXCEPT !.types = (name :> Underlying(g, GoType(node))) @@ @]

GoVal(type, v)            == [type |-> type, v |-> v, place |-> NoPlace]
GoVar(g, type, place)     == [type |-> type, v |-> PartOf(g.mem[place[1]], place[2]), place |-> place]
GoStore(g, place, v)      == [g EXCEPT !.mem[place[1]] = With(@, place[2], v)]

\* https://golang.org/ref/spec#Assignability: constants get the type, and interfaces keep the
\* type of what they hold
Assigned(g, val, type) ==
  IF IsInterface(g, type) /\ ~(val.type # GoUntyped /\ IsInterface(g, val.type))
  THEN <<IF val.type = GoUntyped THEN GoName("int") ELSE val.type, val.v>>
  ELSE val.v

\* the characters of a string, as numbers
GoChars(text) == [k \in 1..Len(text) |-> CHOOSE n \in 1..3 : <<"a", "b", "c">>[n] = SubSeq(text, k, k)]

DefaultType(type) == IF type = GoUntyped THEN GoName("int") ELSE type

NewVar(g, name, type, v) ==
  [g EXCEPT !.mem = Append(@, v), !.vars = (name :> <<type, <<Len(g.mem) + 1, <<>>>> >>) @@ @]

-----------------------------------------------------------------------------
GoQuotient(a, b) ==
  LET abs(n) == IF n < 0 THEN -n ELSE n
      q == abs(a) \div abs(b)
  IN  IF (a < 0) = (b < 0) THEN q ELSE -q

\* bits of a number, in a two's complement that is long enough
GoBits(n) == n % 2 ^ (Bits["i64"] + 1)

\* A shift by more bits than there are is one by all of them.
ShiftBy(n) == 2 ^ (IF n > Bits["i64"] THEN Bits["i64"] ELSE n)

\* https://golang.org/ref/spec#Arithmetic_operators
GoArithmetic(op, a, b) ==
  CASE op = "+"  -> a + b
    [] op = "-"  -> a - b
    [] op = "*"  -> a * b
    [] op = "/"  -> GoQuotient(a, b)
    [] op = "%"  -> a - b * GoQuotient(a, b)
    [] op = "&"  -> GoBits(a) & GoBits(b)
    [] op = "|"  -> GoBits(a) | GoBits(b)
    [] op = "^"  -> GoBits(a) ^^ GoBits(b)
    [] op = "&^" -> GoBits(a) & GoBits(-1 - b)
    [] op = "<<" -> a * ShiftBy(b)
    [] op = ">>" -> a \div ShiftBy(b)

GoCompares(op, a, b) ==
  CASE op = "==" -> a = b
    [] op = "!=" -> a # b
    [] op = "<"  -> a < b
    [] op = "<=" -> a <= b
    [] op = ">"  -> a > b
    [] op = ">=" -> a >= b

Comparisons == {"==", "!=", "<", "<=", ">", ">="}

EvalOperator(g, op, leftNode, rightNode) ==
  Then(Eval(g, leftNode), LAMBDA l :
  Then(Eval(l, rightNode), LAMBDA r :
    LET a == l.res b == r.res
        type == IF a.type = GoUntyped /\ op \notin {"<<", ">>"} THEN b.type ELSE a.type
    IN  CASE op \in Comparisons -> Ret(r, GoVal(GoBool, IF GoCompares(op, a.v, b.v) THEN 1 ELSE 0))
          [] a.type = GoString /\ op = "+" -> Ret(r, GoVal(GoString, a.v \o b.v))
          [] op \in {"/", "%"} /\ b.v = 0 -> Panic(r)
          [] op \in {"<<", ">>"} /\ b.v < 0 -> Panic(r)
          [] OTHER -> Ret(r, GoVal(type, Wrap(g, type, GoArithmetic(op, a.v, b.v))))))

\* x.f, for a struct or a pointer to one
EvalField(g, val, name) ==
  LET struct == IF val.type[1] = "pointer" THEN GoVar(g, val.type[2], val.v) ELSE val
      u      == Underlying(g, struct.type)
      type   == u[3][CHOOSE k \in DOMAIN u[2] : u[2][k] = name]
  IN  [type |-> type, v |-> struct.v[name],
       place |-> IF struct.place = NoPlace THEN NoPlace ELSE <<struct.place[1], Append(struct.place[2], name)>>]

\* a composite literal; the fields that are not given are zero
GoFields(g, struct, fields) ==
  IF fields = <<>> THEN g
  ELSE LET u == Underlying(g, GoName(struct))
           type(n) == u[3][CHOOSE k \in DOMAIN u[2] : u[2][k] = n]
       IN  Then(Eval(g, Head(fields)[2]), LAMBDA v :
             GoFields(Ret(v, [g.res EXCEPT ![Head(fields)[1]] = Assigned(v, v.res, type(Head(fields)[1]))]),
                      struct, Tail(fields)))

\* https://golang.org/ref/spec#Index_expressions and #Slice_expressions, of strings
EvalIndex(g, chars, n) ==
  IF n \in 0..Len(chars) - 1 THEN Ret(g, GoVal(GoName("uint8"), chars[n + 1])) ELSE Panic(g)
EvalSlice(g, chars, from, to) ==
  IF 0 <= from /\ from <= to /\ to <= Len(chars) THEN Ret(g, GoVal(GoString, SubSeq(chars, from + 1, to)))
  ELSE Panic(g)

\* &x, and &T{..}, which makes a variable
EvalAddress(g, val) ==
  IF val.place # NoPlace THEN Ret(g, GoVal(GoPointer(val.type), val.place))
  ELSE Ret([g EXCEPT !.mem = Append(@, val.v)],
           GoVal(GoPointer(val.type), <<Len(g.mem) + 1, <<>>>>))

\* x.(T): a value of type T and whether it is x's
EvalAssertion(g, val, type) ==
  LET held == val.v # <<>> /\ val.v[1] = type IN
  Ret(g, [multi |-> <<GoVal(type, IF held THEN val.v[2] ELSE GoZero(g, type)),
                      GoVal(GoBool, IF held THEN 1 ELSE 0)>>])

-----------------------------------------------------------------------------
\* https://golang.org/ref/spec#Calls: the arguments are copied, named results are zero
GoBind(g, names, types, vals) ==
  FoldLeft(LAMBDA h, k : IF names[k] = "" THEN h ELSE NewVar(h, names[k], types[k], vals[k]),
           g, [k \in DOMAIN names |-> k])

GoCall(g, f, args) ==
  LET given == [k \in DOMAIN f.params |-> Assigned(g, args[k], f.params[k])]
      zeros == [k \in DOMAIN f.results |-> GoZero(g, f.results[k])]
      enter == GoBind([g EXCEPT !.vars = <<>>, !.ret = <<>>, !.func = f],
                      f.args \o f.resultNames, f.params \o f.results, given \o zeros)
  IN  Then(GoBlock(enter, f.body), LAMBDA b :
        Ret([g EXCEPT !.mem = b.mem],
            CASE Len(b.ret) = 1 -> b.ret[1]
              [] OTHER -> [multi |-> b.ret]))

\* a method's receiver: its address if the method wants a pointer, and its value if not
Receiver(g, val, f) ==
  CASE f.pointerReceiver /\ val.type[1] # "pointer" -> GoVal(GoPointer(val.type), val.place)
    [] ~f.pointerReceiver /\ val.type[1] = "pointer" -> GoVar(g, val.type[2], val.v)
    [] OTHER -> val

EvalCall(g, callee, argNodes) ==
  IF callee = <<"Name", "", "len">>
  THEN Then(Eval(g, argNodes[1]), LAMBDA s : Ret(s, GoVal(GoName("int"), Len(s.res.v))))
  ELSE IF callee[1] = "Name"
  THEN Then(EvalAll(g, argNodes, <<>>), LAMBDA a : GoCall(a, g.funcs[callee[3]], a.res))
  ELSE Then(Eval(g, callee[2]), LAMBDA r :
         LET type == IF r.res.type[1] = "pointer" THEN r.res.type[2] ELSE r.res.type
             f == g.methods[<<type[2], callee[3]>>]
         IN  Then(EvalAll(r, argNodes, <<Receiver(r, r.res, f)>>), LAMBDA a : GoCall(a, f, a.res)))

EvalAll(g, nodes, vals) ==
  IF nodes = <<>> THEN Ret(g, vals)
  ELSE Then(Eval(g, Head(nodes)), LAMBDA v : EvalAll(v, Tail(nodes), Append(vals, v.res)))

Eval(g, node) ==
  CASE node[1] = "Constant" ->
         Ret(g, IF node[2] = "STRING" THEN GoVal(GoString, GoChars(node[3]))
                ELSE GoVal(GoUntyped, CHOOSE n \in 0..99 : ToString(n) = node[3]))
    [] node[1] = "Bool"     -> Ret(g, GoVal(GoBool, IF node[2] = "true" THEN 1 ELSE 0))
    [] node[1] = "Name"     ->
         IF node[3] \in DOMAIN g.consts THEN Ret(g, g.consts[node[3]])
         ELSE Ret(g, GoVar(g, g.vars[node[3]][1], g.vars[node[3]][2]))
    [] node[1] = "Operator" -> EvalOperator(g, node[2], node[3], node[4])
    [] node[1] = "Sub"      -> Then(Eval(g, node[2]), LAMBDA v :
                                 Ret(v, GoVal(v.res.type, Wrap(v, v.res.type, -v.res.v))))
    [] node[1] = "Negate"   -> Then(Eval(g, node[2]), LAMBDA v : Ret(v, GoVal(v.res.type, 1 - v.res.v)))
    [] node[1] = "Group"    -> Eval(g, node[2])
    [] node[1] = "TypeCast" -> Then(Eval(g, node[3]), LAMBDA v :
                                 Ret(v, GoVal(GoName(node[2]), Wrap(v, GoName(node[2]), v.res.v))))
    [] node[1] = "GetReference" -> Then(Eval(g, node[2]), LAMBDA v : EvalAddress(v, v.res))
    [] node[1] = "Dereference"  -> Then(Eval(g, node[2]), LAMBDA v :
                                     IF v.res.v = NoPlace THEN Panic(v)
                                     ELSE Ret(v, GoVar(v, v.res.type[2], v.res.v)))
    [] node[1] = "StructLoadElement" -> Then(Eval(g, node[2]), LAMBDA v : Ret(v, EvalField(v, v.res, node[3])))
    [] node[1] = "LoadArrayElement" ->
         Then(EvalAll(g, <<node[2], node[3]>>, <<>>), LAMBDA v : EvalIndex(v, v.res[1].v, v.res[2].v))
    [] node[1] = "SliceArray" ->
         Then(EvalAll(g, <<node[2], node[3]>> \o IF node[4] = <<"nil">> THEN <<>> ELSE <<node[4]>>, <<>>),
           LAMBDA v : EvalSlice(v, v.res[1].v, v.res[2].v,
                                IF Len(v.res) = 2 THEN Len(v.res[1].v) ELSE v.res[3].v))
    [] node[1] = "InitializeStruct" ->
         Then(GoFields(Ret(g, GoZero(g, GoName(node[2]))), node[2], node[3]), LAMBDA f :
           Ret(f, GoVal(GoName(node[2]), f.res)))
    [] node[1] = "TypeCastInterface" ->
         Then(Eval(g, node[2]), LAMBDA v : EvalAssertion(v, v.res, GoType(node[3])))
    [] node[1] = "Call" -> EvalCall(g, node[2], node[3])
    [] node[1] \in {"Increment", "Decrement"} ->
         Then(Eval(g, node[2]), LAMBDA v :
           GoStore(v, v.res.place,
                   Wrap(v, v.res.type, v.res.v + IF node[1] = "Increment" THEN 1 ELSE -1)))

-----------------------------------------------------------------------------
\* the values on the right of an assignment; a call or an assertion may give several
Operands(vals) == IF Len(vals) = 1 /\ "multi" \in DOMAIN vals[1] THEN vals[1].multi ELSE vals

Declare(g, names, vals, typeNode) ==
  FoldLeft(LAMBDA h, k :
             LET type == IF typeNode = <<"nil">> THEN DefaultType(vals[k].type) ELSE GoType(typeNode) IN
             NewVar(h, names[k], type, Assigned(h, vals[k], type)),
           g, [k \in DOMAIN names |-> k])

GoAlloc(g, node) ==
  CASE node[5] -> [g EXCEPT !.consts = [n \in {node[2][k] : k \in DOMAIN node[2]} |->
                     Eval(g, node[3][CHOOSE k \in DOMAIN node[2] : node[2][k] = n]).res] @@ @]
    [] ~node[5] /\ node[3] = <<>> ->
         FoldLeft(LAMBDA h, name : NewVar(h, name, GoType(node[4]), GoZero(h, GoType(node[4]))), g, node[2])
    [] OTHER -> Then(EvalAll(g, node[3], <<>>), LAMBDA v : Declare(v, node[2], Operands(v.res), node[4]))

\* All operands first, then the assignments from left to right.
GoAssign(g, targets, nodes) ==
  LET to == SelectSeq([k \in DOMAIN targets |-> k], LAMBDA k : targets[k] # <<"Name", "", "_">>) IN
  Then(EvalAll(g, [k \in DOMAIN to |-> targets[to[k]]], <<>>), LAMBDA t :
  Then(EvalAll(t, nodes, <<>>), LAMBDA v :
    FoldLeft(LAMBDA h, k : GoStore(h, t.res[k].place, Assigned(h, Operands(v.res)[to[k]], t.res[k].type)),
             v, [k \in DOMAIN to |-> k])))

\* the values get the types of the results; without values, the named results are returned
GoReturn(g, nodes) ==
  LET results == g.func.results
      named(k) == GoVar(g, g.vars[g.func.resultNames[k]][1], g.vars[g.func.resultNames[k]][2])
  IN  IF nodes = <<>> THEN [g EXCEPT !.ret = [k \in DOMAIN results |-> named(k)]]
      ELSE Then(EvalAll(g, nodes, <<>>), LAMBDA v :
             [v EXCEPT !.ret = [k \in DOMAIN results |->
                GoVal(results[k], Assigned(v, Operands(v.res)[k], results[k]))]])

GoFunc(g, node) ==
  LET isMethod == node[2] # <<>>
      params == IF isMethod THEN node[2] \o node[4] ELSE node[4]
      typesOf(parts) == [k \in DOMAIN parts |-> GoType(parts[k][3])]
      f == [args |-> [k \in DOMAIN params |-> params[k][2]], params |-> typesOf(params),
            results |-> typesOf(node[5]), body |-> node[6],
            resultNames |-> [k \in DOMAIN node[5] |-> IF node[5][k][2] = <<"nil">> THEN "" ELSE node[5][k][2][3]],
            pointerReceiver |-> isMethod /\ node[2][1][3][1] = "PointerType"]
      on == IF f.pointerReceiver THEN f.params[1][2][2] ELSE f.params[1][2]
  IN  IF isMethod THEN [g EXCEPT !.methods = (<<on, node[3]>> :> f) @@ @]
      ELSE [g EXCEPT !.funcs = (node[3] :> f) @@ @]

GoStatement(g, node) ==
  CASE node[1] = "DefineFunc" -> GoFunc(g, node)
    [] node[1] = "DefineType" -> GoTypeDecl(g, node[2], node[3])
    [] node[1] = "Return"     -> GoReturn(g, node[2])
    [] node[1] = "Alloc"      -> GoAlloc(g, node)
    [] node[1] = "AllocGroup" -> FoldLeft(GoAlloc, g, node[2])
    [] node[1] = "Assign"     -> GoAssign(g, node[2], node[3])
    [] OTHER                  -> Eval(g, node)

GoBlock(g, nodes) ==
  IF nodes = <<>> \/ g.end # "" \/ g.ret # <<>> THEN g
  ELSE GoBlock(GoStatement(g, Head(nodes)), Tail(nodes))

-----------------------------------------------------------------------------
\* The bits of the variables of the function that is run last
GoSeen(g) ==
  LET name(n) == Underlying(g, g.vars[n][1])
      value(n) == GoVar(g, g.vars[n][1], g.vars[n][2]).v
      seen(n) == CASE name(n)[2] = "string" -> [lt |-> <<"string">>, words |-> value(n)]
                   [] name(n)[2] = "bool"   -> [lt |-> <<"i1">>, words |-> <<value(n)>>]
                   [] OTHER -> [lt |-> <<GoInts[name(n)[2]]>>, words |-> <<value(n) % 2 ^ GoWidth(name(n)[2])>>]
  IN  IF g.end # "" THEN [end |-> g.end, seen |-> <<>>]
      ELSE [end |-> "", seen |-> [n \in {m \in DOMAIN g.vars : name(m)[1] = "basic"} |-> seen(n)]]

GoMain(g) == GoBlock([g EXCEPT !.func = g.funcs["main"]], g.funcs["main"].body)

NewGo == [types |-> <<>>, funcs |-> <<>>, methods |-> <<>>, vars |-> <<>>, mem |-> <<>>,
          consts |-> <<>>, ret |-> <<>>, func |-> <<>>, res |-> <<>>, end |-> ""]

\* The run of a program: how it ends, and the bits of the variables of main.
GoRun(instrs) == GoSeen(GoMain(GoBlock(NewGo, instrs)))
=============================================================================
