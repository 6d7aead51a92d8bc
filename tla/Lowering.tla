------------------------------ MODULE Lowering ------------------------------
(***************************************************************************)
(* Lowering: what the compiler makes of the statements and expressions of  *)
(* straight-line functions, executed as it makes it: one operator per      *)
(* method, with the method's name, on a state c of the compiler and of the *)
(* memory of the running program.                                          *)
(*                                                                         *)
(* A call runs the callee in the state the compiler was in when it         *)
(* compiled the callee: `heap', the struct types that were heap-allocated  *)
(* by then, is kept with each function.  A type of the compiler is a       *)
(* tuple; a value.Value is a record with the LLVM value in it.             *)
(***************************************************************************)
EXTENDS LLVM, FiniteSetsExt, TLC

\* the numbers in programs, of two digits at most
NumberOf(digits) == CHOOSE n \in 0..99 : ToString(n) = digits

intTypes ==
  ("int8" :> "i8") @@ ("uint8" :> "i8") @@ ("int16" :> "i16") @@ ("uint16" :> "i16") @@
  ("int32" :> "i32") @@ ("uint32" :> "i32") @@ ("int64" :> "i64") @@ ("uint64" :> "i64") @@
  ("uintptr" :> "i64")

Int64 == <<"int", "int64">>
Bool  == <<"bool">>

\* the types of package global; there is no uint
globalTypes == [n \in DOMAIN intTypes |-> <<"int", n>>] @@ ("int" :> Int64) @@ ("bool" :> Bool)
                 @@ ("string" :> StringType)

\* A wrong variant: every integer is divided as a signed one.
IsSignedAlways(type) == type[1] = "int"

IsSigned(type) == type[1] = "int" /\ type[2] \in {"int8", "int16", "int32", "int64"}

HasLLVM(type) == type[1] \in {"int", "bool", "pointer", "struct", "iface", "string"}

RECURSIVE LLVMType(_), NameOf(_), Size(_, _), Zero(_, _), HeapLiterals(_),
          parserTypeToType(_, _), parserTypes(_, _, _), compileValue(_, _),
          compileValues(_, _, _), compileBlock(_, _), initFields(_, _, _, _), storeResults(_, _, _)

LLVMType(type) ==
  CASE type[1] = "int"     -> <<intTypes[type[2]]>>
    [] type[1] = "bool"    -> <<"i1">>
    [] type[1] = "pointer" -> PtrTo(LLVMType(type[2]))
    [] OTHER               -> type

\* Name() of a type.  SourceName of a struct is never set: SetName has a copy for receiver
\* (node_types.go:69).
NameOf(type) ==
  CASE type[1] = "int"     -> type[2]
    [] type[1] = "bool"    -> "bool"
    [] type[1] = "string"  -> "string"
    [] type[1] = "func"    -> "func"
    [] type[1] = "pointer" -> "pointer(" \o NameOf(type[2]) \o ")"
    [] type[1] = "struct"  -> "struct()"

\* Size() of the members of a struct, summed
Size(c, type) ==
  CASE type[1] = "struct" -> FoldFunction(+, 0, [k \in DOMAIN c.structs[type[2]].types |->
                                                   Size(c, c.structs[type[2]].types[k])])
    [] OTHER -> Bytes(LLVMType(type))

\* the address of a NUL that is there from the beginning
EmptyStringConstant == 1

\* Zero(): what it leaves in the words of a variable.  Nothing is written for a pointer.
Zero(c, type) ==
  CASE type[1] = "struct"  -> FlattenSeq([k \in DOMAIN c.structs[type[2]].types |->
                                            Zero(c, c.structs[type[2]].types[k])])
    [] type[1] = "pointer" -> <<Garbage>>
    [] type[1] = "iface"   -> <<Garbage, Garbage>>
    [] type[1] = "string"  -> <<0, EmptyStringConstant>>
    [] OTHER               -> <<0>>

\* value.Value: its Type, its Value, IsVariable, and its MultiValues
Val(type, v, isVariable) ==
  [type |-> type, lt |-> v.lt, words |-> v.words, isVariable |-> isVariable, multi |-> <<>>]
MultiVal(vals) ==
  [type |-> <<"multi">>, lt |-> <<"none">>, words |-> <<>>, isVariable |-> FALSE, multi |-> vals]

LoadIfVariable(c, v) == IF v.isVariable THEN NewLoad(c, v) ELSE Ret(c, V(v.lt, v.words))

setVar(c, name, v) == [c EXCEPT !.vars = (name :> v) @@ @]

\* An alloca that becomes a variable of a type, zeroed
ZeroedVar(c, type) ==
  Then(NewAlloca(c, LLVMType(type)), LAMBDA a :
  Then(NewStore(a, V(LLVMType(type), Zero(a, type)), a.res), LAMBDA s :
    Ret(s, Val(type, a.res, TRUE))))

\* a value, stored in an alloca of its own
Spilled(c, v, lt) ==
  Then(NewAlloca(c, lt), LAMBDA a :
  Then(NewStore(a, V(v.lt, v.words), a.res), LAMBDA s : Ret(s, a.res)))

-----------------------------------------------------------------------------
\* Types

parserTypeToType(c, node) ==
  CASE node[1] = "Type" ->
         IF node[3] \in DOMAIN c.types THEN Ret(c, c.types[node[3]]) ELSE Panic(c)
    [] node[1] = "PointerType" ->
         Then(parserTypeToType(c, node[2]), LAMBDA t : Ret(t, <<"pointer", t.res, FALSE>>))
    [] node[1] = "InterfaceType" /\ node[2] = <<>> -> Ret(c, <<"iface">>)
    [] OTHER -> Panic(c)

parserTypes(c, nodes, types) ==
  IF nodes = <<>> THEN Ret(c, types)
  ELSE Then(parserTypeToType(c, Head(nodes)), LAMBDA t :
         parserTypes(t, Tail(nodes), Append(types, t.res)))

Named(name) == <<"Type", "", name, FALSE>>

\* A new name of a type that is not a struct is one more name for the same type.
defineType(c, name, node) ==
  IF node[1] = "StructType"
  THEN Then(parserTypes(c, node[3], <<>>), LAMBDA t :
         [t EXCEPT !.types = (name :> <<"struct", name>>) @@ @,
                   !.structs = (name :> [names |-> node[2], types |-> t.res]) @@ @,
                   !.layout = (name :> [k \in DOMAIN t.res |-> LLVMType(t.res[k])]) @@ @])
  ELSE Then(parserTypeToType(c, node), LAMBDA t : [t EXCEPT !.types = (name :> t.res) @@ @])

\* A wrong variant: types are not told apart by their names, but by their LLVM types.
getTypeIDByLayout(c, type) ==
  LET lt == LLVMType(type) IN
  IF \E k \in DOMAIN c.typeIDs : c.typeIDs[k] = lt
  THEN Ret(c, CHOOSE k \in DOMAIN c.typeIDs : c.typeIDs[k] = lt)
  ELSE Ret([c EXCEPT !.typeIDs = Append(@, lt)], Len(c.typeIDs) + 1)

\* the number of a type name, given at the first use
getTypeID(c, type) ==
  LET name == NameOf(type) IN
  IF \E k \in DOMAIN c.typeIDs : c.typeIDs[k] = name
  THEN Ret(c, CHOOSE k \in DOMAIN c.typeIDs : c.typeIDs[k] = name)
  ELSE Ret([c EXCEPT !.typeIDs = Append(@, name)], Len(c.typeIDs) + 1)

-----------------------------------------------------------------------------
\* Expressions

\* A number gets the type of the variable that is assigned to, or int64.
compileNumber(c, digits) ==
  LET dest == IF c.assignDest = <<>> THEN Bool ELSE Last(c.assignDest)
      type == IF dest[1] = "int" THEN dest ELSE Int64
  IN  Ret(c, Val(type, IntV(LLVMType(type), NumberOf(digits)), FALSE))

\* The characters of each string are in memory once, from the first time it is compiled.
CharsOf(text) == [k \in 1..Len(text) |-> CHOOSE n \in 1..3 : <<"a", "b", "c">>[n] = SubSeq(text, k, k)]

stringConstant(c, text) ==
  IF text \in DOMAIN c.strings THEN c
  ELSE [OnHeap(c, Append(CharsOf(text), NUL)) EXCEPT !.strings = (text :> Len(c.mem) + 1) @@ @]

StringVal(length, at) == Val(StringType, V(StringType, <<length, at>>), FALSE)

compileString(c, text) ==
  Then(stringConstant(c, text), LAMBDA s : Ret(s, StringVal(Len(text), s.strings[text])))

compileConstant(c, node) ==
  IF node[2] = "STRING" THEN compileString(c, node[3]) ELSE compileNumber(c, node[3])

\* Locals, which hide functions
compileName(c, name) ==
  CASE name \in DOMAIN c.vars -> Ret(c, c.vars[name])
    [] name \notin DOMAIN c.vars /\ name \in DOMAIN c.funcs ->
         Ret(c, Val(<<"func", name>>, V(<<"none">>, <<>>), FALSE))
    [] OTHER -> Panic(c)

\* The type of a constant without a type, and of what is computed from two of them
UntypedConstant == <<"untyped", TRUE>>
UntypedResult   == <<"untyped", FALSE>>

\* Only a constant itself has a value, and only as an integer.
UntypedConstAs(c, v, context) ==
  IF context.type[1] # "int" \/ v.type # UntypedConstant \/ v.isVariable THEN Panic(c)
  ELSE Ret(c, Val(context.type, IntV(LLVMType(context.type), v.words[1]), FALSE))

instructions ==
  ("+" :> "add") @@ ("-" :> "sub") @@ ("*" :> "mul") @@ ("&" :> "and") @@ ("|" :> "or") @@
  ("^" :> "xor") @@ ("<<" :> "shl") @@ (">>" :> "lshr")
getConditionLLVMpred ==
  (">" :> "sgt") @@ (">=" :> "sge") @@ ("<" :> "slt") @@ ("<=" :> "sle") @@ ("==" :> "eq") @@
  ("!=" :> "ne")

\* Strings are joined in an array that has no place for the NUL.
concatenation(c, a, b) ==
  LET left  == CharsAt(c, a.words[2], Len(c.mem))
      right == CharsAt(c, b.words[2], Len(c.mem))
      to    == Len(c.mem) + 1
      space == [c EXCEPT !.mem = @ \o [k \in 1..a.words[1] + b.words[1] |-> Garbage]]
  IN  Then(Strcpy(space, to, left), LAMBDA l :
      Then(Strcpy(l, to + Len(left), right), LAMBDA r :
        Ret(r, StringVal(a.words[1] + b.words[1], to))))

operation(c, op, left, a, b) ==
  LET type == IF left[1] = "untyped" THEN UntypedResult ELSE left
      typed(d) == Then(d, LAMBDA e : Ret(e, Val(type, e.res, FALSE)))
  IN
  CASE a.lt = StringType -> IF b.lt = a.lt /\ op = "+" THEN concatenation(c, a, b) ELSE Panic(c)
    [] a.lt # StringType /\ op \in DOMAIN instructions -> typed(NewBinary(c, instructions[op], a, b))
    [] op = "/" -> typed(NewBinary(c, IF IsSigned(left) THEN "sdiv" ELSE "udiv", a, b))
    [] op = "&^" ->
         IF ~IsInt(b.lt) THEN Panic(c)
         ELSE Then(NewBinary(c, "xor", b, IntV(b.lt, -1)), LAMBDA n :
                typed(NewBinary(n, "and", a, n.res)))
    [] op \in DOMAIN getConditionLLVMpred ->
         Then(NewICmp(c, getConditionLLVMpred[op], a, b), LAMBDA d : Ret(d, Val(Bool, d.res, FALSE)))
    [] OTHER -> Panic(c)

compileOperator(c, op, leftNode, rightNode) ==
  Then(compileValue(c, leftNode), LAMBDA l :
  Then(compileValue(l, rightNode), LAMBDA r :
    LET untyped(v) == v.type[1] = "untyped"
        left == l.res right == r.res
        one  == untyped(left) # untyped(right)
    IN  Then(IF one /\ untyped(right) THEN UntypedConstAs(r, right, left) ELSE Ret(r, right), LAMBDA s :
        Then(IF one /\ untyped(left) THEN UntypedConstAs(s, left, right) ELSE Ret(s, left), LAMBDA t :
        Then(LoadIfVariable(t, t.res), LAMBDA a :
        Then(LoadIfVariable(a, s.res), LAMBDA b :
          operation(b, op, t.res.type, a.res, b.res)))))))

compileSub(c, node) ==
  Then(compileValue(c, node), LAMBDA v :
  Then(LoadIfVariable(v, v.res), LAMBDA a :
    IF ~IsInt(a.res.lt) THEN Panic(a)
    ELSE Then(NewBinary(a, "sub", IntV(a.res.lt, 0), a.res), LAMBDA d :
           Ret(d, Val(v.res.type, d.res, FALSE)))))

\* The operand is loaded whether or not it is a variable.
compileNegateBool(c, node) ==
  Then(compileValue(c, node), LAMBDA v :
  Then(NewLoad(v, v.res), LAMBDA a :
  Then(NewBinary(a, "xor", a.res, IntV(<<"i1">>, 1)), LAMBDA d : Ret(d, Val(Bool, d.res, FALSE)))))

\* Nothing happens if the sizes are equal: the type stays, too.
compileTypeCast(c, name, node) ==
  Then(compileValue(c, node), LAMBDA v :
    IF ~HasLLVM(v.res.type) \/ ~IsInt(LLVMType(v.res.type)) THEN Panic(v)
    ELSE Then(parserTypeToType(v, Named(name)), LAMBDA t :
           LET target == LLVMType(t.res) IN
           IF ~IsInt(target) THEN Panic(t)
           ELSE Then(LoadIfVariable(t, v.res), LAMBDA a :
                  IF Bits[LLVMType(v.res.type)[1]] = Bits[target[1]] THEN Ret(a, v.res)
                  ELSE Then(NewResize(a, a.res, target), LAMBDA n :
                       Then(Spilled(n, n.res, target), LAMBDA s :
                         Ret(s, Val(t.res, s.res, TRUE)))))))

\* The address of a variable is a pointer that is no variable itself, its Value the address;
\* unless the variable is a pointer.  Anything else is stored in a variable of its own.
compileGetReference(c, node) ==
  Then(compileValue(c, node), LAMBDA v :
    LET val == v.res IN
    IF val.isVariable /\ val.type[1] # "pointer"
    THEN Ret(v, Val(<<"pointer", val.type, TRUE>>, val, FALSE))
    ELSE IF ~HasLLVM(val.type) THEN Panic(v)
    ELSE Then(Spilled(v, val, LLVMType(val.type)), LAMBDA s :
           Ret(s, Val(<<"pointer", val.type, FALSE>>, s.res, TRUE))))

\* One load, whether the pointer is in a variable or not.
compileDereference(c, node) ==
  Then(compileValue(c, node), LAMBDA v :
    LET val == v.res IN
    CASE val.type[1] # "pointer" -> Panic(v)
      [] val.type[1] = "pointer" /\ val.type[3] -> Ret(v, Val(val.type[2], val, TRUE))
      [] OTHER -> Then(NewLoad(v, val), LAMBDA a : Ret(a, Val(val.type[2], a.res, FALSE))))

\* A field or a method, of a struct or through a pointer
compileStructLoadElement(c, node, name) ==
  Then(compileValue(c, node), LAMBDA v :
    LET val       == v.res
        isPointer == val.type[1] = "pointer"
        target    == IF isPointer THEN val.type[2] ELSE val.type
        field     == IF target[1] = "struct"
                     THEN {k \in DOMAIN c.structs[target[2]].names : c.structs[target[2]].names[k] = name}
                     ELSE {}
    IN  Then(IF val.isVariable \/ isPointer THEN Ret(v, V(val.lt, val.words))
             ELSE IF ~HasLLVM(val.type) THEN Panic(v)
             ELSE Spilled(v, val, LLVMType(val.type)), LAMBDA src :
        CASE field # {} ->
               Then(IF isPointer /\ ~val.type[3] /\ val.isVariable THEN NewLoad(src, src.res) ELSE src,
                 LAMBDA p :
                   LET n == Max(field) IN
                   Then(NewGetElementPtr(p, p.res, n), LAMBDA e :
                     Ret(e, Val(c.structs[target[2]].types[n], e.res, TRUE))))
          [] field = {} /\ <<target, name>> \in DOMAIN c.methods ->
               Ret(src, Val(<<"method", c.methods[<<target, name>>]>>, src.res, FALSE))
          [] OTHER -> Panic(src)))

-----------------------------------------------------------------------------
\* Parts of strings

SameAsLength(v) == v.lt = <<"i64">>
Signed64(v)     == SignedOf(v.words[1], Bits["i64"])

\* Both ends are compared with the length and with nothing else.
substring(c, src, start, end) ==
  LET size == SignedOf(src.words[1], Bits["i64"])
      n    == IntV(<<"i64">>, end.words[1] - start.words[1]).words[1]
  IN  CASE ~SameAsLength(start) \/ ~SameAsLength(end) -> Panic(c)
        [] SameAsLength(start) /\ SameAsLength(end) /\ (Signed64(start) > size \/ Signed64(end) > size) ->
             Exits(c)
        [] SameAsLength(start) /\ SameAsLength(end) /\ Signed64(start) < 0 -> Undefined(c)
        [] OTHER -> Then(Strndup(c, src.words[2] + start.words[1], n), LAMBDA d :
                      Ret(d, StringVal(n, d.res)))

\* s[i:j]; without j, the end is the length
compileSubstring(c, node, startNode, endNode) ==
  Then(compileValue(c, node), LAMBDA v :
  Then(LoadIfVariable(v, v.res), LAMBDA src :
    IF v.res.type # StringType THEN Panic(src)
    ELSE Then(compileValue(src, startNode), LAMBDA s :
         Then(LoadIfVariable(s, s.res), LAMBDA start :
         Then(IF endNode = <<"nil">> THEN Ret(start, Val(Int64, V(<<"i64">>, <<src.res.words[1]>>), FALSE))
              ELSE compileValue(start, endNode), LAMBDA e :
         Then(LoadIfVariable(e, e.res), LAMBDA end :
           substring(end, src.res, start.res, end.res)))))))

\* A wrong variant: the index just behind the end is let through.
outOfRangeBehind(index, length) == index < 0 \/ index > length

\* the check before the load, one comparison at each end
outOfRange(index, length) == index < 0 \/ index >= length

\* s[i]: the character is a variable of type int8
compileLoadArrayElement(c, node, indexNode) ==
  Then(compileValue(c, node), LAMBDA v :
  Then(compileValue(v, indexNode), LAMBDA i :
  Then(LoadIfVariable(i, i.res), LAMBDA index :
  Then(LoadIfVariable(index, v.res), LAMBDA s :
    CASE v.res.type # StringType \/ ~SameAsLength(index.res) -> Panic(s)
      [] v.res.type = StringType /\ SameAsLength(index.res)
           /\ outOfRange(Signed64(index.res), SignedOf(s.res.words[1], Bits["i64"])) -> Exits(s)
      [] OTHER -> Ret(s, Val(<<"int", "int8">>, V(PtrTo(<<"i8">>), <<s.res.words[2] + index.res.words[1]>>),
                             TRUE))))))

\* len(s): the type is that of the function that is called
lenFuncCall(c, node) ==
  Then(compileValue(c, node), LAMBDA v :
  Then(LoadIfVariable(v, v.res), LAMBDA s :
    IF v.res.type # StringType THEN Panic(s)
    ELSE Ret(s, Val(<<"func", "len_string">>, V(<<"i64">>, <<s.res.words[1]>>), FALSE))))

-----------------------------------------------------------------------------
\* Literals of structs

\* The fields of a literal are kept in a Go map, which is read in any order: as they stand,
\* or backwards.
ordered(c, fields) == IF c.backwards THEN Reverse(fields) ELSE fields

\* What compileValue returns is stored in a field as it is, a variable is not loaded.
initFields(c, struct, at, fields) ==
  IF fields = <<>> THEN c
  ELSE LET def   == c.structs[struct]
           field == {k \in DOMAIN def.names : def.names[k] = Head(fields)[1]}
       IN  IF field = {} THEN Panic(c)
           ELSE Then(NewGetElementPtr(c, at, Max(field)), LAMBDA p :
                Then(compileValue(p, Head(fields)[2]), LAMBDA v :
                Then(NewStore(v, V(v.res.lt, v.res.words), p.res), LAMBDA s :
                  initFields(s, struct, at, Tail(fields)))))

\* On the heap if it is part of an allocation that escapes; that marks the type, for ever.
compileInitStruct(c, name, fields) ==
  Then(parserTypeToType(c, Named(name)), LAMBDA t :
    IF t.res[1] # "struct" THEN Panic(t)
    ELSE LET type   == t.res
             onHeap == c.allocs # <<>> /\ Last(c.allocs)
             space  == IF onHeap THEN NewMalloc([t EXCEPT !.heap = @ \cup {type}], type, Size(c, type))
                       ELSE NewAlloca(t, type)
         IN  Then(NewStore(space, V(type, Zero(c, type)), space.res), LAMBDA z :
             Then(initFields(z, type[2], space.res, ordered(z, fields)), LAMBDA f :
               Ret(f, Val(type, space.res, TRUE)))))

\* i++ and i--, of a variable
compileStep(c, node, by) ==
  Then(compileValue(c, node), LAMBDA v :
    IF ~v.res.isVariable THEN Panic(v)
    ELSE Then(NewLoad(v, v.res), LAMBDA l :
         IF ~IsInt(l.res.lt) THEN Panic(l)
         ELSE Then(NewBinary(l, "add", l.res, IntV(l.res.lt, by)), LAMBDA d :
              Then(NewStore(d, d.res, v.res), LAMBDA s : Ret(s, v.res)))))

-----------------------------------------------------------------------------
\* Interfaces without methods: the address of the value, and the number of its type

\* The address is that of the variable itself, if the value is in one.
valueToInterfaceValue(c, v, target) ==
  IF target[1] # "iface" \/ v.type[1] = "iface" THEN Ret(c, v)
  ELSE IF ~HasLLVM(v.type) THEN Panic(c)
  ELSE Then(IF v.isVariable THEN Ret(c, V(v.lt, v.words)) ELSE Spilled(c, v, LLVMType(v.type)), LAMBDA p :
       Then(getTypeID(p, v.type), LAMBDA id :
       Then(Spilled(id, V(<<"iface">>, <<p.res.words[1], id.res>>), <<"iface">>), LAMBDA s :
         Ret(s, Val(target, s.res, TRUE)))))

\* value, ok := x.(T), whether or not the program looks at ok
compileTypeCastInterface(c, node, typeNode) ==
  Then(parserTypeToType(c, typeNode), LAMBDA t :
  Then(ZeroedVar(t, Bool), LAMBDA ok :
  Then(ZeroedVar(ok, t.res), LAMBDA casted :
  Then(compileValue(casted, node), LAMBDA v :
    IF v.res.lt # PtrTo(<<"iface">>) THEN Panic(v)
    ELSE Then(NewLoad(v, v.res), LAMBDA i :
         Then(getTypeID(i, t.res), LAMBDA id :
           LET both(e) == Ret(e, MultiVal(<<casted.res, ok.res>>))
               data == V(PtrTo(LLVMType(t.res)), <<i.res.words[1]>>)
           IN  IF i.res.words[2] # id.res THEN both(id)
               ELSE Then(NewStore(id, IntV(<<"i1">>, 1), ok.res), LAMBDA s :
                    Then(NewLoad(s, data), LAMBDA d :
                    Then(NewStore(d, d.res, casted.res), LAMBDA e : both(e))))))))))

-----------------------------------------------------------------------------
\* Functions

\* the struct types that a body allocates on the heap
HeapLiterals(node) ==
  CASE node[1] = "InitializeStruct" ->
         {<<"struct", node[2]>>} \cup UNION {HeapLiterals(node[3][k][2]) : k \in DOMAIN node[3]}
    [] node[1] \in {"GetReference", "Group", "StructLoadElement"} -> HeapLiterals(node[2])
    [] node[1] = "Call" -> UNION {HeapLiterals(node[3][k]) : k \in DOMAIN node[3]}
    [] OTHER -> {}

Escaping(body) == {k \in DOMAIN body : body[k][1] = "Alloc" /\ Len(body[k]) = 6}
HeapTypes(body) ==
  UNION {UNION {HeapLiterals(body[k][3][n]) : n \in DOMAIN body[k][3]} : k \in Escaping(body)}

\* results that are returned through pointers, the first parameters of the LLVM function
ViaPointers(f) == IF Len(f.results) > 1 THEN f.results ELSE <<>>
ArgumentTypes(f) == ViaPointers(f) \o f.params
LlvmReturnType(f) == IF Len(f.results) = 1 THEN f.results[1] ELSE <<"void">>

LlvmParams(f) ==
  LET pointers == ViaPointers(f) IN
  [k \in DOMAIN pointers |-> PtrTo(LLVMType(pointers[k]))]
    \o [k \in DOMAIN f.params |-> LLVMType(f.params[k])]

\* The type of parameter k is looked up among all parameters of the LLVM function.
ParameterType(f, k) == ArgumentTypes(f)[k]

\* A parameter is no variable, unless it is a struct, an interface or a string.
bindParameter(c, f, k, arg) ==
  LET type == ParameterType(f, k) IN
  IF arg.lt[1] \notin {"struct", "iface", "string"} THEN setVar(c, f.args[k], Val(type, arg, FALSE))
  ELSE Then(Spilled(c, arg, LLVMType(type)), LAMBDA s : setVar(s, f.args[k], Val(type, s.res, TRUE)))

\* The names of the function: results returned through pointers, parameters, and a single
\* result, which is not zeroed.
enter(c, f, args) ==
  LET count  == Len(ViaPointers(f))
      result(k) == Val(f.results[k], args[k], TRUE)
      names  == FoldLeft(LAMBDA d, k : setVar(d, f.resultNames[k], result(k)),
                         [c EXCEPT !.retVals = [k \in 1..count |-> result(k)]],
                         [k \in 1..count |-> k])
      params == FoldLeft(LAMBDA d, k : Then(d, LAMBDA e : bindParameter(e, f, k, args[count + k])),
                         names, [k \in DOMAIN f.params |-> k])
      single(a) == LET v == Val(f.results[1], a.res, TRUE) IN
                   [setVar(a, f.resultNames[1], v) EXCEPT !.retVals = <<v>>]
  IN  Then(params, LAMBDA p :
        IF Len(f.results) # 1 THEN p ELSE Then(NewAlloca(p, LLVMType(f.results[1])), single))

\* An LLVM call: the callee runs, in a frame and with contexts of its own.
NewCall(c, f, args) ==
  IF [k \in DOMAIN args |-> args[k].lt] # LlvmParams(f) THEN Panic(c)
  ELSE LET fresh == [c EXCEPT !.vars = <<>>, !.retVals = <<>>, !.ret = <<>>, !.assignDest = <<>>,
                              !.allocs = <<>>, !.heap = f.heap, !.func = f]
       IN  Then(enter(fresh, f, args), LAMBDA e :
           Then(compileBlock(e, f.body), LAMBDA b :
             LET back(v) == Ret([c EXCEPT !.mem = LeaveFrame(b, Len(c.mem)).mem,
                                          !.malloced = b.malloced, !.strings = b.strings,
                                          !.typeIDs = b.typeIDs], v)
             IN  CASE b.ret # <<>> -> back(b.ret[1])
                   [] b.ret = <<>> /\ f.results = <<>> -> back(V(<<"void">>, <<>>))
                   [] OTHER -> Panic(c)))

compileValues(c, nodes, vals) ==
  IF nodes = <<>> THEN Ret(c, vals)
  ELSE Then(compileValue(c, Head(nodes)), LAMBDA v : compileValues(v, Tail(nodes), Append(vals, v.res)))

\* Arguments become interfaces by the list that has the results first.
loadArguments(c, f, args) ==
  FoldLeft(LAMBDA d, k :
             Then(d, LAMBDA e :
             Then(IF k > Len(ArgumentTypes(f)) THEN Ret(e, args[k])
                  ELSE valueToInterfaceValue(e, args[k], ArgumentTypes(f)[k]), LAMBDA i :
             Then(LoadIfVariable(i, i.res), LAMBDA l : Ret(l, Append(e.res, l.res))))),
           Ret(c, <<>>), [k \in DOMAIN args |-> k])

\* several results: an alloca for each
allocaResults(c, types) ==
  FoldLeft(LAMBDA d, type :
             Then(NewAlloca(d, LLVMType(type)), LAMBDA a : Ret(a, Append(d.res, Val(type, a.res, TRUE)))),
           Ret(c, <<>>), types)

compileCall(c, node, argNodes) ==
  IF node = <<"Name", "", "len">> THEN lenFuncCall(c, argNodes[1])
  ELSE Then(compileValue(c, node), LAMBDA v :
    IF v.res.type[1] \notin {"func", "method"} THEN Panic(v)
    ELSE LET f == c.funcs[v.res.type[2]]
             receiver == IF v.res.type[1] = "func" THEN <<>>
                         ELSE <<[v.res EXCEPT !.isVariable = ~f.pointerReceiver]>>
         IN  Then(compileValues(v, argNodes, receiver), LAMBDA a :
             Then(loadArguments(a, f, a.res), LAMBDA l :
             Then(allocaResults(l, ViaPointers(f)), LAMBDA r :
             Then(NewCall(r, f, [k \in DOMAIN r.res |-> V(r.res[k].lt, r.res[k].words)] \o l.res), LAMBDA d :
               Ret(d, IF Len(f.results) > 1 THEN MultiVal(r.res)
                      ELSE Val(LlvmReturnType(f), d.res, FALSE)))))))

\* All of the recursion goes through here: the instructions of a file, too, are compiled as
\* one node, a "Block".
compileValue(c, node) ==
  CASE node[1] = "Constant"            -> compileConstant(c, node)
    [] node[1] = "Bool"                ->
         Ret(c, Val(Bool, IntV(<<"i1">>, IF node[2] = "true" THEN 1 ELSE 0), FALSE))
    [] node[1] = "Operator"            -> compileOperator(c, node[2], node[3], node[4])
    [] node[1] = "Sub"                 -> compileSub(c, node[2])
    [] node[1] = "Name"                -> compileName(c, node[3])
    [] node[1] = "Call"                -> compileCall(c, node[2], node[3])
    [] node[1] = "TypeCast"            -> compileTypeCast(c, node[2], node[3])
    [] node[1] = "StructLoadElement"   -> compileStructLoadElement(c, node[2], node[3])
    [] node[1] = "SliceArray"          -> compileSubstring(c, node[2], node[3], node[4])
    [] node[1] = "LoadArrayElement"    -> compileLoadArrayElement(c, node[2], node[3])
    [] node[1] = "GetReference"        -> compileGetReference(c, node[2])
    [] node[1] = "Dereference"         -> compileDereference(c, node[2])
    [] node[1] = "Negate"              -> compileNegateBool(c, node[2])
    [] node[1] = "InitializeStruct"    -> compileInitStruct(c, node[2], node[3])
    [] node[1] = "TypeCastInterface"   -> compileTypeCastInterface(c, node[2], node[3])
    [] node[1] = "Group"               -> compileValue(c, node[2])
    [] node[1] = "Block"               -> compileBlock(c, node[2])
    [] node[1] = "Increment"           -> compileStep(c, node[2], 1)
    [] node[1] = "Decrement"           -> compileStep(c, node[2], -1)
    [] OTHER                           -> Panic(c)

-----------------------------------------------------------------------------
\* Statements

\* The Value of a node is a number, 0 for a string.
compileAllocConst(c, names, nodes) ==
  LET Value(node) == CASE node[1] = "Bool"    -> IF node[2] = "true" THEN 1 ELSE 0
                       [] node[2] = "NUMBER" -> NumberOf(node[3])
                       [] OTHER              -> 0
  IN  FoldLeft(LAMBDA d, k :
                 IF nodes[k][1] \notin {"Constant", "Bool"} THEN Panic(d)
                 ELSE setVar(d, names[k], Val(UntypedConstant, IntV(<<"i64">>, Value(nodes[k])), FALSE)),
               c, [k \in DOMAIN names |-> k])

\* One value: a pointer that needs no variable, and a struct of a type that was ever on the
\* heap, keep their address; others are copied to an alloca.
allocValue(c, name, val) ==
  CASE val.type[1] = "pointer" /\ val.type[3] -> setVar(c, name, [val EXCEPT !.isVariable = FALSE])
    [] val.type \in c.heap -> setVar(c, name, [val EXCEPT !.isVariable = TRUE])
    [] OTHER -> Then(LoadIfVariable(c, val), LAMBDA v :
                IF v.res.lt[1] \in {"none", "void"} THEN Panic(v)
                ELSE Then(Spilled(v, v.res, v.res.lt), LAMBDA s : setVar(s, name, Val(val.type, s.res, TRUE))))

\* The type of a declaration with a value is not looked at.  A pointer or a struct that is
\* not copied, and the results of a call, end the declaration.
allocValues(c, names, nodes) ==
  FoldLeft(LAMBDA d, k :
             IF d.end # "" \/ d.res = "ended" THEN d
             ELSE Then(compileValue(d, nodes[k]), LAMBDA v :
                  CASE v.res.type[1] = "multi" /\ Len(v.res.multi) # Len(names) -> Panic(v)
                    [] v.res.type[1] = "multi" /\ Len(v.res.multi) = Len(names) ->
                         Ret(FoldLeft(LAMBDA e, n : setVar(e, names[n], v.res.multi[n]), v,
                                      [n \in DOMAIN names |-> n]), "ended")
                    [] OTHER ->
                         LET type == v.res.type IN
                         Then(allocValue(v, names[k], v.res), LAMBDA a :
                           Ret(a, IF (type[1] = "pointer" /\ type[3]) \/ type \in v.heap
                                  THEN "ended" ELSE ""))),
           Ret(c, ""), [k \in DOMAIN nodes |-> k])

compileAlloc(c, node) ==
  LET pushed == [c EXCEPT !.allocs = Append(@, Len(node) = 6)]
      typeNode == node[4]
      done ==
        CASE node[5] -> compileAllocConst(pushed, node[2], node[3])
          [] ~node[5] /\ node[3] = <<>> ->
               Then(parserTypeToType(pushed, typeNode), LAMBDA t :
               Then(ZeroedVar(t, t.res), LAMBDA z : setVar(z, node[2][1], z.res)))
          [] OTHER -> allocValues(pushed, node[2], node[3])
  IN  Then(done, LAMBDA d : [d EXCEPT !.allocs = Front(@)])

\* The value, with its destination on the stack; an interface if that is one
compileSingleAssign(c, dst, node) ==
  Then(compileValue([c EXCEPT !.assignDest = Append(@, dst.type)], node), LAMBDA v :
  Then(valueToInterfaceValue(v, v.res, dst.type), LAMBDA i :
  Then(LoadIfVariable(i, i.res), LAMBDA l : [l EXCEPT !.assignDest = Front(@)])))

IsBlank(node) == node[1] = "Name" /\ node[3] = "_"

assignOne(c, target, node) ==
  Then(compileValue(c, target), LAMBDA dst :
    IF ~dst.res.isVariable THEN Panic(dst)
    ELSE Then(compileSingleAssign(dst, dst.res, node), LAMBDA v : NewStore(v, v.res, dst.res)))

\* The values first, to temporary variables of the types of the targets; then all stores.  A
\* target "_" ends the statement: nothing is stored.
assignMany(c, targets, nodes) ==
  LET prepare(d, k) ==
        Then(d, LAMBDA e :
        Then(compileValue(e, targets[k]), LAMBDA dst :
          IF k > Len(nodes) THEN Panic(dst)
          ELSE Then(compileSingleAssign(dst, dst.res, nodes[k]), LAMBDA v :
                 LET to == dst.res
                     lt == IF to.isVariable /\ IsPointer(to.lt) THEN to.lt[2] ELSE to.lt
                 IN  IF v.res.lt # lt THEN Panic(v) ELSE Ret(v, Append(e.res, <<v.res, to>>)))))
      named    == {k \in 0..Len(targets) : \A n \in 1..k : ~IsBlank(targets[n])}
      prepared == FoldLeft(prepare, Ret(c, <<>>), [k \in 1..Max(named) |-> k])
  IN  Then(prepared, LAMBDA p :
        IF Max(named) < Len(targets) THEN p
        ELSE FoldLeft(LAMBDA d, pair : Then(d, LAMBDA e : NewStore(e, pair[1], pair[2])), p, p.res))

compileAssign(c, targets, nodes) ==
  CASE Len(targets) = 1 /\ IsBlank(targets[1]) -> c
    [] Len(targets) = 1 /\ ~IsBlank(targets[1]) -> assignOne(c, targets[1], nodes[1])
    [] OTHER -> assignMany(c, targets, nodes)

\* LLVM's ret: the value has the result type of the function.  It becomes the terminator of
\* the block, behind everything that is compiled to the block later; the last one stays.
NewRet(c, v) ==
  LET type == LlvmReturnType(c.func) IN
  IF v.lt # (IF type = <<"void">> THEN type ELSE LLVMType(type)) THEN Panic(c)
  ELSE [c EXCEPT !.ret = <<v>>]

Void == V(<<"void">>, <<>>)

\* A wrong variant: every value is computed before the first is stored.
storeResultsAtOnce(c, nodes, k) ==
  Then(compileValues(c, nodes, <<>>), LAMBDA vs :
  Then(FoldLeft(LAMBDA d, v : Then(d, LAMBDA e : Then(LoadIfVariable(e, v), LAMBDA l :
                                Ret(l, Append(e.res, l.res)))), Ret(vs, <<>>), vs.res), LAMBDA ls :
    FoldLeft(LAMBDA d, n : Then(d, LAMBDA e :
               IF n > Len(c.retVals) THEN Panic(e) ELSE NewStore(e, ls.res[n], c.retVals[n])),
             ls, [n \in DOMAIN nodes |-> n])))

\* Each value is stored before the next one is computed.
storeResults(c, nodes, k) ==
  IF k > Len(nodes) THEN c
  ELSE Then(compileValue(c, nodes[k]), LAMBDA v :
       Then(LoadIfVariable(v, v.res), LAMBDA l :
         IF k > Len(c.retVals) THEN Panic(l)
         ELSE Then(NewStore(l, l.res, c.retVals[k]), LAMBDA s : storeResults(s, nodes, k + 1))))

compileReturn(c, nodes) ==
  CASE Len(nodes) = 1 ->
         Then(compileValue(c, nodes[1]), LAMBDA v :
         Then(valueToInterfaceValue(v, v.res, LlvmReturnType(c.func)), LAMBDA i :
         Then(LoadIfVariable(i, i.res), LAMBDA l : NewRet(l, l.res))))
    [] Len(nodes) > 1 -> Then(storeResults(c, nodes, 1), LAMBDA s : NewRet(s, Void))
    [] nodes = <<>> /\ c.retVals = <<>> -> Panic(c)
    [] nodes = <<>> /\ Len(c.retVals) = 1 ->
         Then(LoadIfVariable(c, c.retVals[1]), LAMBDA l : NewRet(l, l.res))
    [] nodes = <<>> /\ Len(c.retVals) > 1 -> NewRet(c, Void)

\* The function is compiled here, and run where it is called; main is run at once.
defineFunc(c, node) ==
  LET isMethod == node[2] # <<>>
      params   == IF isMethod THEN node[2] \o node[4] ELSE node[4]
      pointerReceiver == isMethod /\ node[2][1][3][1] = "PointerType"
      typesOf(parts) == [k \in DOMAIN parts |-> parts[k][3]]
      resultNames == [k \in DOMAIN node[5] |-> IF node[5][k][2] = <<"nil">> THEN "" ELSE node[5][k][2][3]]
  IN  Then(parserTypes(c, typesOf(params), <<>>), LAMBDA ps :
      Then(parserTypes(ps, typesOf(node[5]), <<>>), LAMBDA rs :
        LET f == [args |-> [k \in DOMAIN params |-> params[k][2]], params |-> ps.res,
                  results |-> rs.res, resultNames |-> resultNames, body |-> node[6],
                  heap |-> c.heap, pointerReceiver |-> pointerReceiver]
            receiver == IF pointerReceiver THEN ps.res[1][2] ELSE ps.res[1]
            onNode   == IF pointerReceiver THEN node[2][1][3][2] ELSE node[2][1][3]
            name == IF isMethod THEN "method_" \o onNode[3] \o "_" \o node[3] ELSE node[3]
            compiled == [rs EXCEPT !.funcs = (name :> f) @@ @, !.heap = @ \cup HeapTypes(node[6])]
        IN  CASE ~isMethod /\ name = "main" -> compileBlock([rs EXCEPT !.func = f], node[6])
              [] isMethod -> [compiled EXCEPT !.methods = (<<receiver, node[3]>> :> name) @@ @]
              [] OTHER -> compiled))

compileNode(c, node) ==
  CASE node[1] = "DefineFunc" -> defineFunc(c, node)
    [] node[1] = "DefineType" -> defineType(c, node[2], node[3])
    [] node[1] = "Return"     -> compileReturn(c, node[2])
    [] node[1] = "Alloc"      -> compileAlloc(c, node)
    [] node[1] = "AllocGroup" ->
         FoldLeft(LAMBDA d, n : Then(d, LAMBDA e : compileAlloc(e, n)), c, node[2])
    [] node[1] = "Assign"     -> compileAssign(c, node[2], node[3])
    [] node[1] \in {"DeclarePackage", "Import"} -> c
    [] OTHER                  -> compileValue(c, node)

\* What follows a return is compiled to the same block.
compileBlock(c, nodes) ==
  IF nodes = <<>> THEN c
  ELSE Then(compileNode(c, Head(nodes)), LAMBDA d : compileBlock(d, Tail(nodes)))

-----------------------------------------------------------------------------
NewCompiler(backwards) ==
  [backwards |-> backwards, types |-> globalTypes, structs |-> <<>>, layout |-> <<>>, funcs |-> <<>>, methods |-> <<>>,
   heap |-> {}, typeIDs |-> <<>>, vars |-> <<>>, retVals |-> <<>>, assignDest |-> <<>>,
   allocs |-> <<>>, func |-> <<>>, ret |-> <<>>, strings |-> <<>>, mem |-> <<NUL>>,
   malloced |-> {EmptyStringConstant},
   res |-> <<>>, end |-> ""]

\* what is seen of a value: bits, or the characters of a string
Seen(c, v) ==
  LET from == v.words[2] length == SignedOf(v.words[1], Bits["i64"]) IN
  IF v.lt # StringType THEN Ret(c, v)
  ELSE IF length > 0 /\ ~Alive(c, from, length) THEN Undefined(c)
  ELSE Ret(c, V(v.lt, SubSeq(c.mem, from, from + length - 1)))

\* how a run ends, and the types and bits of the variables of the function that was run last
Outcome(c) ==
  LET seen(name) == Then(LoadIfVariable(c, c.vars[name]), LAMBDA l : Seen(l, l.res))
      names == {n \in DOMAIN c.vars : c.vars[n].type[1] \in {"int", "bool", "string", "func"}
                                      \/ c.vars[n].type = UntypedResult}
  IN  IF c.end # "" THEN [end |-> c.end, seen |-> <<>>]
      ELSE [end |-> IF \E n \in names : seen(n).end # "" THEN "undefined" ELSE "",
            seen |-> [n \in names |-> [lt |-> seen(n).res.lt, words |-> seen(n).res.words]]]

\* Compile, and the run of main in the program it makes
Run(instrs, backwards) == Outcome(compileValue(NewCompiler(backwards), <<"Block", instrs>>))
=============================================================================
