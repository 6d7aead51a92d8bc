------------------------------- MODULE Parser -------------------------------
(***************************************************************************)
(* Parser: the recursive descent of compiler/parser, one operator per      *)
(* method, or per case of a long one, with the method's name.              *)
(*                                                                         *)
(* A method takes the state p of the parser and returns the state it       *)
(* leaves, with what it returns in `res': a node is a tuple that begins    *)
(* with its kind, nil is NoNode, a list of nodes is a sequence of them.    *)
(***************************************************************************)
EXTENDS Steps, Integers, Sequences, TLC

predeclared ==
  {"int", "uint", "int8", "uint8", "int32", "uint32", "int64", "uint64", "uintptr", "string"}

opsCharToOp ==
  {"+", "-", "/", "*", "%", "&", "|", "^", "&^", "<<", ">>", ">", ">=", "<", "<=", "==",
   "!="}

arithOperators == {"+", "-", "/", "*"}

infixPrio(op) ==
  CASE op \in {"*", "/", "%", "<<", ">>", "&", "&^"} -> 5
    [] op \in {"+", "-", "|", "^"} -> 4
    [] op \in {"==", "!=", "<", "<=", ">", ">="} -> 3

NoNode == <<"nil">>
Kind(node) == node[1]

Skip(p, n) == [p EXCEPT !.i = @ + n]

\* `reset' is p.inAllocRightHand of an earlier state
InRightHand(p, reset) == [p EXCEPT !.inAllocRightHand = reset]

\* Beyond the last item there is nothing that any method accepts.
lookAhead(p, steps) ==
  IF p.i + steps \in DOMAIN p.items THEN p.items[p.i + steps] ELSE [Type |-> "", Val |-> ""]

Is(item, type, val) == item.Type = type /\ item.Val = val
At(p, steps, type)  == lookAhead(p, steps).Type = type
Op(p, steps, val)   == Is(lookAhead(p, steps), "OPERATOR", val)
Keyword(p, val)        == Is(lookAhead(p, 0), "KEYWORD", val)

\* p.expect, followed by p.i++
Past(p, val) == IF Op(p, 0, val) THEN Skip(p, 1) ELSE Panic(p)

\* A wrong variant: operators of one precedence are grouped from the right.
sortInfixRight(op, left, right) ==
  IF Kind(left) = "Operator" /\ infixPrio(op) >= infixPrio(left[2])
  THEN <<"Operator", left[2], left[3], <<"Operator", op, left[4], right>>>>
  ELSE <<"Operator", op, left, right>>

\* The rotation that puts an operator under the one before it if it binds tighter.
sortInfix(op, left, right) ==
  IF Kind(left) = "Operator" /\ infixPrio(op) > infixPrio(left[2])
  THEN <<"Operator", left[2], left[3], <<"Operator", op, left[4], right>>>>
  ELSE <<"Operator", op, left, right>>

RECURSIVE parseOneWithOptions(_, _, _, _), aheadParseWithOptions(_, _, _),
          parseUntilEither(_, _, _), parseOneType(_), expressionList(_, _),
          parseFunctionArguments(_, _), returnTypes(_, _, _), parseElse(_), returnValues(_, _),
          allocGroup(_, _, _), parseCases(_, _, _), caseConditions(_, _), structItems(_, _, _),
          identifierList(_, _), importPaths(_, _), structFields(_, _, _), typeList(_, _),
          interfaceMethods(_, _), methodArguments(_, _), methodReturns(_, _)

parseOne(p, ahead) == parseOneWithOptions(p, ahead, ahead, ahead)
aheadParse(p)      == aheadParseWithOptions(p, TRUE, TRUE)
AheadIf(p, ahead)  == IF ahead THEN aheadParse(p) ELSE p

parseUntil(p, type, val) == parseUntilEither(p, {<<type, val>>}, <<>>)
Block(p) == parseUntil(p, "OPERATOR", "}")

\* Stops at, not behind, the item it was looking for.
parseUntilEither(p, untils, nodes) ==
  LET current == lookAhead(p, 0) IN
  IF <<current.Type, current.Val>> \in untils THEN Ret(p, nodes)
  ELSE IF Op(p, 0, ",") THEN parseUntilEither(Skip(p, 1), untils, nodes)
  ELSE Then(parseOne(p, TRUE), LAMBDA q :
         parseUntilEither(Skip(q, 1), untils,
                          IF q.res = NoNode THEN nodes ELSE Append(nodes, q.res)))

\* parseUntil, where the code wants exactly one node
OneUntil(p, type, val) ==
  Then(parseUntil(p, type, val), LAMBDA q :
    IF Len(q.res) = 1 THEN Ret(q, q.res[1]) ELSE Panic(q))

\* the items of a slice or array literal
literalItems(p) ==
  Then(Block(InRightHand(p, FALSE)), LAMBDA q : InRightHand(q, p.inAllocRightHand))

parseLiteral(p, ahead) ==
  IF Op(p, 1, "]")
  THEN Then(parseOneType(Skip(p, 2)), LAMBDA t :
       Then(Past(Skip(t, 1), "{"), LAMBDA q :
       Then(literalItems(q), LAMBDA r :
         AheadIf(Ret(r, <<"InitializeSlice", t.res, r.res>>), ahead))))
  ELSE IF ~At(p, 1, "NUMBER") THEN Panic(p)
  ELSE Then(Past(Skip(p, 2), "]"), LAMBDA s :
       Then(parseOneType(s), LAMBDA t :
       Then(Past(Skip(t, 1), "{"), LAMBDA q :
       Then(literalItems(q), LAMBDA r :
         AheadIf(Ret(r, <<"InitializeArray", t.res, lookAhead(p, 1).Val, r.res>>), ahead)))))

\* The operand of "&" and of "-" is whatever can be parsed, that of "*" and "!" one item.
parsePrefix(p, ahead) ==
  CASE Op(p, 0, "&") ->
         Then(parseOne(Skip(p, 1), TRUE), LAMBDA q :
           AheadIf(Ret(q, <<"GetReference", q.res>>), ahead))
    [] Op(p, 0, "*") ->
         Then(parseOne(Skip(p, 1), FALSE), LAMBDA q :
           AheadIf(Ret(q, <<"Dereference", q.res>>), ahead))
    [] Op(p, 0, "!") ->
         Then(parseOne(Skip(p, 1), FALSE), LAMBDA q : Ret(q, <<"Negate", q.res>>))
    [] Op(p, 0, "-") ->
         Then(parseOne(Skip(p, 1), TRUE), LAMBDA q : aheadParse(Ret(q, <<"Sub", q.res>>)))
    [] Op(p, 0, "[") -> parseLiteral(p, ahead)
    [] Op(p, 0, "(") ->
         Then(OneUntil(Skip(p, 1), "OPERATOR", ")"), LAMBDA q :
           aheadParseWithOptions(Ret(q, <<"Group", q.res>>), TRUE, FALSE))
    [] OTHER -> Panic(p)

-----------------------------------------------------------------------------
\* if and else: a condition that is not an operator is compared with true
getCondition(p) ==
  Then(OneUntil(Skip(p, 1), "OPERATOR", "{"), LAMBDA q :
    Ret(Skip(q, 1), IF Kind(q.res) = "Operator" THEN q.res
                    ELSE <<"Operator", "==", q.res, <<"Bool", "true">>>>))

parseIf(p) ==
  Then(getCondition(p), LAMBDA c :
  Then(Block(c), LAMBDA b :
  Then(parseElse(Skip(b, 1)), LAMBDA e : Ret(e, <<"Condition", c.res, b.res, e.res>>))))

\* What follows the "}" of a branch: leaves the parser behind that "}" if it is no else, and
\* at the "}" of the else otherwise.
parseElse(p) ==
  IF ~Keyword(p, "else") THEN Ret(p, <<>>)
  ELSE IF Keyword(Skip(p, 1), "if") THEN Then(parseIf(Skip(p, 1)), LAMBDA q : Ret(q, <<q.res>>))
  ELSE Then(Past(Skip(p, 1), "{"), Block)

parseFunctionArguments(p, args) ==
  IF Op(p, 0, ")") THEN Ret(Skip(p, 1), args)
  ELSE IF args # <<>> /\ ~At(p, 0, "OPERATOR") /\ lookAhead(p, 0).Val # "," THEN Panic(p)
  ELSE LET q == IF args = <<>> THEN p ELSE Skip(p, 1) IN
       IF ~At(q, 0, "IDENTIFIER") THEN Panic(q)
       ELSE Then(parseOneType(Skip(q, 1)), LAMBDA t :
              parseFunctionArguments(Skip(t, 1),
                                     Append(args, <<"Param", lookAhead(q, 0).Val, t.res>>)))

returnTypes(p, multi, types) ==
  Then(parseOneType(p), LAMBDA t :
    LET named == At(t, 1, "IDENTIFIER") IN
    Then(IF named THEN parseOneType(Skip(t, 1)) ELSE t, LAMBDA u :
      LET q   == Skip(u, 1)
          all == Append(types, <<"Result", IF named THEN t.res ELSE NoNode, u.res>>)
      IN  CASE ~multi                   -> Ret(q, all)
            [] multi /\ Op(q, 0, ",")   -> returnTypes(Skip(q, 1), multi, all)
            [] multi /\ Op(q, 0, ")")   -> Ret(Skip(q, 1), all)
            [] OTHER                    -> Panic(q)))

\* "func" (receiver) name (arguments) returns { body }; without a name, what stands in the
\* first parentheses are the arguments
parseFunc(p) ==
  LET first == IF Op(p, 1, "(") THEN parseFunctionArguments(Skip(p, 2), <<>>) ELSE Skip(p, 1)
      named(q)  == At(q, 0, "IDENTIFIER") /\ Op(q, 1, "(")
      method(q) == Op(p, 1, "(") /\ named(q)
      receiver(q) == LET t == q.res[1][3] IN IF Kind(t) = "PointerType" THEN t[2] ELSE t
      arguments(q) == IF named(q) THEN parseFunctionArguments(Skip(q, 2), <<>>)
                      ELSE IF Op(p, 1, "(") THEN q ELSE Ret(q, <<>>)
      returns(q) == IF Op(q, 0, "{") THEN Ret(q, <<>>)
                    ELSE IF Op(q, 0, "(") THEN returnTypes(Skip(q, 1), TRUE, <<>>)
                    ELSE returnTypes(q, FALSE, <<>>)
  IN  Then(first, LAMBDA q :
        IF method(q) /\ (Len(q.res) # 1 \/ Kind(receiver(q)) # "Type") THEN Panic(q)
        ELSE Then(arguments(q), LAMBDA a :
             Then(returns(a), LAMBDA r :
             Then(Past(r, "{"), LAMBDA s :
             Then(Block(s), LAMBDA b :
               aheadParse(Ret(b, <<"DefineFunc", IF method(q) THEN q.res ELSE <<>>,
                                   IF named(q) THEN lookAhead(q, 0).Val ELSE "",
                                   a.res, r.res, b.res>>)))))))

\* A wrong variant: a second value is parsed from behind its first item.
returnValuesSkipping(p, vals) ==
  IF At(p, 0, "EOL") THEN Ret(p, vals)
  ELSE Then(parseOne(p, TRUE), LAMBDA q :
         LET all == Append(vals, q.res) IN
         IF Op(q, 1, ",") THEN returnValues(Skip(q, 3), all) ELSE Ret(Skip(q, 1), all))

\* Ends behind the last value.
returnValues(p, vals) ==
  IF At(p, 0, "EOL") THEN Ret(p, vals)
  ELSE Then(parseOne(p, TRUE), LAMBDA q :
         LET all == Append(vals, q.res) IN
         IF Op(q, 1, ",") THEN returnValues(Skip(q, 2), all) ELSE Ret(Skip(q, 1), all))

parseReturn(p, ahead) ==
  Then(returnValues(Skip(p, 1), <<>>), LAMBDA q : AheadIf(Ret(q, <<"Return", q.res>>), ahead))

parseType(p, ahead) ==
  IF ~At(p, 1, "IDENTIFIER") THEN Panic(p)
  ELSE Then(parseOneType(Skip(p, 2)), LAMBDA t :
       Then(AheadIf(Ret(t, <<"DefineType", lookAhead(p, 1).Val, t.res>>), ahead), LAMBDA q :
         [q EXCEPT !.types = @ \cup {lookAhead(p, 1).Val}]))

-----------------------------------------------------------------------------
identifierList(p, names) ==
  IF ~At(p, 0, "IDENTIFIER") THEN Panic(p)
  ELSE LET all == Append(names, lookAhead(p, 0).Val) IN
       IF Op(p, 1, ",") THEN identifierList(Skip(p, 2), all) ELSE Ret(Skip(p, 1), all)

expressionList(p, vals) ==
  Then(parseOne(p, TRUE), LAMBDA q :
    LET all == Append(vals, q.res) IN
    IF Op(q, 1, ",") THEN expressionList(Skip(q, 2), all) ELSE Ret(Skip(q, 1), all))

\* Ends behind the declaration.
parseVarDecl(p, isConst) ==
  Then(identifierList(p, <<>>), LAMBDA n :
  Then(IF Op(n, 0, "=") \/ At(n, 0, "EOL") THEN Ret(n, NoNode)
       ELSE Then(parseOneType(n), LAMBDA t : Skip(t, 1)), LAMBDA t :
  Then(IF Op(t, 0, "=") THEN expressionList(Skip(t, 1), <<>>) ELSE Ret(t, <<>>), LAMBDA v :
    Ret(v, <<"Alloc", n.res, v.res, t.res, isConst>>))))

allocGroup(p, isConst, allocs) ==
  IF lookAhead(p, 0).Val = ")" THEN Ret(p, <<"AllocGroup", allocs>>)
  ELSE IF At(p, 0, "EOL") THEN allocGroup(Skip(p, 1), isConst, allocs)
  ELSE Then(parseVarDecl(p, isConst), LAMBDA q :
         allocGroup(q, isConst, Append(allocs, q.res)))

parseVar(p, isConst) ==
  IF lookAhead(p, 1).Val = "(" THEN allocGroup(Skip(p, 2), isConst, <<>>)
  ELSE parseVarDecl(Skip(p, 1), isConst)

parsePackage(p) ==
  IF At(p, 1, "IDENTIFIER") THEN Ret(Skip(p, 1), <<"DeclarePackage", lookAhead(p, 1).Val>>)
  ELSE Panic(p)

importPaths(p, paths) ==
  CASE Op(p, 0, ")")     -> Ret(p, paths)
    [] At(p, 0, "EOL")    -> importPaths(Skip(p, 1), paths)
    [] At(p, 0, "STRING") -> importPaths(Skip(p, 1), Append(paths, lookAhead(p, 0).Val))
    [] OTHER              -> Panic(p)

parseImport(p) ==
  Then(IF At(p, 1, "STRING") THEN Ret(Skip(p, 1), <<lookAhead(p, 1).Val>>)
       ELSE Then(Past(Skip(p, 1), "("), LAMBDA q : importPaths(q, <<>>)), LAMBDA q :
    Ret([q EXCEPT !.packages = @ \cup {q.res[k] : k \in DOMAIN q.res}], <<"Import", q.res>>))

\* for init; condition; after { }, or for init { }, where init is a range
parseFor(p) ==
  LET clause(q, val) == OneUntil(q, "OPERATOR", val)
      body(q, init, cond, after) ==
        Then(Block(Skip(q, 1)), LAMBDA b : Ret(b, <<"For", init, cond, after, b.res>>))
  IN  Then(parseUntilEither(Skip(p, 1), {<<"OPERATOR", ";">>, <<"OPERATOR", "{">>}, <<>>),
        LAMBDA q :
          IF Len(q.res) # 1 THEN Panic(q)
          ELSE IF Op(q, 0, "{") THEN body(q, q.res[1], NoNode, NoNode)
          ELSE Then(clause(Skip(q, 1), ";"), LAMBDA c :
                 IF Kind(c.res) # "Operator" THEN Panic(c)
                 ELSE Then(clause(Skip(c, 1), "{"), LAMBDA a :
                        body(a, q.res[1], c.res, a.res))))

-----------------------------------------------------------------------------
caseConditions(p, conds) ==
  Then(parseOne(p, TRUE), LAMBDA q :
    LET all == Append(conds, q.res) IN
    CASE Op(q, 1, ":") -> Ret(Skip(q, 2), all)
      [] Op(q, 1, ",") -> caseConditions(Skip(q, 2), all)
      [] OTHER         -> Panic(q))

\* The loop of parseSwitch goes round without moving at anything but a new line, a case and
\* a default.
parseCases(p, cases, default) ==
  LET next(q, cs, body) == IF Op(q, 0, "}") THEN Ret(q, <<cs, body>>)
                           ELSE parseCases(IF Keyword(q, "fallthrough") THEN Skip(q, 1) ELSE q, cs, body)
      stops == {<<"OPERATOR", "}">>, <<"KEYWORD", "case">>}
      inCase == stops \cup {<<"KEYWORD", "default">>, <<"KEYWORD", "fallthrough">>}
  IN  CASE At(p, 0, "EOL") -> parseCases(Skip(p, 1), cases, default)
        [] Keyword(p, "case") ->
             Then(caseConditions(Skip(p, 1), <<>>), LAMBDA c :
             Then(parseUntilEither(c, inCase, <<>>), LAMBDA b :
               next(b, Append(cases, <<"SwitchCase", c.res, b.res, Keyword(b, "fallthrough")>>), default)))
        [] Keyword(p, "default") ->
             Then(Past(Skip(p, 1), ":"), LAMBDA q :
             Then(parseUntilEither(q, stops, <<>>), LAMBDA b : next(b, cases, b.res)))
        [] p.i > Len(p.items) -> Panic(p)
        [] OTHER -> Hang(p)

parseSwitch(p) ==
  Then(parseOne(Skip(p, 1), TRUE), LAMBDA s :
  Then(Past(Skip(s, 1), "{"), LAMBDA q :
  Then(parseCases(q, <<>>, <<>>), LAMBDA c :
    Ret(c, <<"Switch", s.res, c.res[1], c.res[2]>>))))

parseKeyword(p, ahead) ==
  LET word == lookAhead(p, 0).Val IN
  CASE word = "if"       -> parseIf(p)
    [] word = "func"     -> parseFunc(p)
    [] word = "return"   -> parseReturn(p, ahead)
    [] word = "type"     -> parseType(p, ahead)
    [] word \in {"var", "const"} -> parseVar(p, word = "const")
    [] word = "package"  -> parsePackage(p)
    [] word = "for"      -> parseFor(p)
    [] word = "break"    -> Ret(p, <<"Break">>)
    [] word = "continue" -> Ret(p, <<"Continue">>)
    [] word = "import"   -> parseImport(p)
    [] word \in {"true", "false"} -> Ret(p, <<"Bool", word>>)
    [] word = "range"    -> Then(parseOne(Skip(p, 1), TRUE), LAMBDA q : Ret(q, <<"Range", q.res>>))
    [] word = "switch"   -> parseSwitch(p)
    [] OTHER             -> Panic(p)

parseOneWithOptions(p, ahead, arithAhead, identifierAhead) ==
  LET current == lookAhead(p, 0) IN
  CASE current.Type = "EOL" -> Ret(p, NoNode)
    [] current.Type = "IDENTIFIER" ->
         LET name == Ret(p, <<"Name", "", current.Val>>) IN
         IF identifierAhead THEN aheadParseWithOptions(name, arithAhead, identifierAhead)
         ELSE name
    [] current.Type \in {"NUMBER", "STRING"} ->
         AheadIf(Ret(p, <<"Constant", current.Type, current.Val>>), ahead)
    [] current.Type = "OPERATOR" -> parsePrefix(p, ahead)
    [] current.Type = "KEYWORD"  -> parseKeyword(p, ahead)
    [] OTHER -> Panic(p)

-----------------------------------------------------------------------------
\* aheadParse: what may follow the node in p.res, whose last item the parser is at

\* a.b, pkg.b and a.(T); the last leaves the parser behind its ")"
selector(p, arithAhead, identifierAhead) ==
  LET node  == p.res
      isPkg == Kind(node) = "Name" /\ node[3] \in p.packages
      name  == lookAhead(p, 2).Val
  IN  CASE At(p, 2, "IDENTIFIER") ->
             aheadParseWithOptions(Ret(Skip(p, 2), IF isPkg THEN <<"Name", node[3], name>>
                                                   ELSE <<"StructLoadElement", node, name>>),
                                   arithAhead, identifierAhead)
        [] Op(p, 2, "(") ->
             Then(parseOneType(Skip(p, 3)), LAMBDA t :
             Then(Past(Skip(t, 1), ")"), LAMBDA q :
               aheadParse(Ret(q, <<"TypeCastInterface", node, t.res>>))))
        [] OTHER -> Panic(p)

assignment(p) ==
  LET op == lookAhead(p, 1).Val
      node == p.res
  IN  Then(parseOne(Skip(p, 2), TRUE), LAMBDA v :
        LET q == InRightHand(v, p.inAllocRightHand) IN
        CASE op = "=" -> Ret(q, <<"Assign", <<node>>, <<v.res>>>>)
          [] op = ":=" /\ Kind(node) = "Name" ->
               Ret(q, <<"Alloc", <<node[3]>>, <<v.res>>, NoNode, FALSE>>)
          [] OTHER -> Panic(q))

opAssignments == ("+=" :> "+") @@ ("-=" :> "-") @@ ("*=" :> "*") @@ ("/=" :> "/")

opAssignment(p) ==
  Then(parseOne(Skip(p, 2), TRUE), LAMBDA v :
    Ret(v, <<"Assign", <<p.res>>,
             <<<<"Operator", opAssignments[lookAhead(p, 1).Val], p.res, v.res>>>>>>))

\* a[i], a[i:] and a[i:j]
indexOrSlice(p) ==
  Then(parseOne(Skip(p, 2), TRUE), LAMBDA start :
    LET open == Op(start, 1, ":") /\ Op(start, 2, "]")
        q == CASE open -> Ret(Skip(start, 1), <<"SliceArray", p.res, start.res, NoNode>>)
               [] Op(start, 1, ":") /\ ~open ->
                    Then(parseOne(Skip(start, 2), TRUE), LAMBDA e :
                      Ret(e, <<"SliceArray", p.res, start.res, e.res>>))
               [] OTHER -> Ret(start, <<"LoadArrayElement", p.res, start.res>>)
    IN  Then(q, LAMBDA r :
          IF Op(r, 1, "]") THEN aheadParse(Skip(r, 1)) ELSE Panic(r)))

\* The right operand of + - * / is one item, or a name and what follows it but + - * /;
\* that of the other operators is everything that can be parsed.
operator(p, arithAhead) ==
  LET op == lookAhead(p, 1).Val
      isArith == op \in arithOperators
  IN  IF isArith /\ ~arithAhead THEN p
      ELSE Then(parseOneWithOptions(Skip(p, 2), ~isArith, ~isArith, TRUE), LAMBDA right :
             aheadParse(Ret(right, IF isArith THEN sortInfix(op, p.res, right.res)
                                   ELSE <<"Operator", op, p.res, right.res>>)))

callOrCast(p) ==
  IF lookAhead(p, 0).Val \in p.types
  THEN Then(OneUntil(Skip(p, 2), "OPERATOR", ")"), LAMBDA q :
         aheadParse(Ret(q, <<"TypeCast", lookAhead(p, 0).Val, q.res>>)))
  ELSE Then(parseUntil(InRightHand(Skip(p, 2), FALSE), "OPERATOR", ")"), LAMBDA q :
       Then(aheadParse(Ret(q, <<"Call", p.res, q.res>>)), LAMBDA r :
         InRightHand(r, p.inAllocRightHand)))

\* The fields of a struct literal.  Ends at the "}" that follows a field, and behind the
\* "}" that follows a comma, a new line or nothing.
structItems(p, type, fields) ==
  LET q == IF At(p, 0, "EOL") THEN Skip(p, 1) ELSE p IN
  IF Op(q, 0, "}") THEN Ret(Skip(q, 1), <<"InitializeStruct", type, fields>>)
  ELSE IF ~At(q, 0, "IDENTIFIER") \/ ~Op(q, 1, ":") THEN Panic(q)
  ELSE Then(parseOne(InRightHand(Skip(q, 2), FALSE), TRUE), LAMBDA v :
         LET all == Append(fields, <<lookAhead(q, 0).Val, v.res>>)
             r   == InRightHand(Skip(v, 1), q.inAllocRightHand)
         IN  CASE Op(r, 0, ",") -> structItems(Skip(r, 1), type, all)
               [] Op(r, 0, "}") -> Ret(r, <<"InitializeStruct", type, all>>)
               [] OTHER         -> structItems(r, type, all))

\* one more value of the assignment or declaration `node' in whose right side p is
commaValue(p, node) ==
  CASE ~p.inAllocRightHand -> Ret(p, node)
    [] p.inAllocRightHand /\ Kind(node) \in {"Alloc", "Assign"} ->
         Then(parseOne(Skip(p, 2), FALSE), LAMBDA v :
           aheadParse(Ret(v, [node EXCEPT ![3] = Append(@, v.res)])))
    [] OTHER -> Panic(p)

\* "a, b := ..": the rest is parsed as if it were an assignment, and read again if it is
\* not.
comma(p) ==
  IF Kind(p.res) # "Name" THEN commaValue(p, p.res)
  ELSE Then(parseOne(Skip(p, 2), TRUE), LAMBDA rest :
         LET name   == IF Kind(rest.res) = "Alloc" THEN p.res[3] ELSE p.res
             joined == [rest.res EXCEPT ![2] = <<name>> \o @]
         IN  IF Kind(rest.res) \notin {"Alloc", "Assign"} THEN commaValue([rest EXCEPT !.i = p.i], p.res)
             ELSE Then(aheadParse(InRightHand(Ret(rest, joined), TRUE)), LAMBDA q :
                    InRightHand(q, rest.inAllocRightHand)))

aheadParseWithOptions(p, arithAhead, identifierAhead) ==
  LET val == lookAhead(p, 1).Val IN
  IF ~At(p, 1, "OPERATOR") THEN p
  ELSE CASE val = "."                     -> selector(p, arithAhead, identifierAhead)
         [] val \in {":=", "="}           -> assignment(p)
         [] val \in DOMAIN opAssignments  -> opAssignment(p)
         [] val = "..."                   -> Ret(Skip(p, 1), <<"DeVariadicSlice", p.res>>)
         [] val = "["                     -> indexOrSlice(p)
         [] val \in opsCharToOp           -> operator(p, arithAhead)
         [] val = "--"                    -> Ret(Skip(p, 1), <<"Decrement", p.res>>)
         [] val = "++"                    -> Ret(Skip(p, 1), <<"Increment", p.res>>)
         [] val = "("                     -> callOrCast(p)
         [] val = "{" /\ Kind(p.res) = "Name" /\ p.res[3] \in p.types ->
              Then(structItems(Skip(p, 2), p.res[3], <<>>), aheadParse)
         [] val = ","                     -> comma(p)
         [] OTHER                         -> p

-----------------------------------------------------------------------------
\* Types.  These methods end at the last item of the type.
structFields(p, names, types) ==
  CASE At(p, 0, "EOL") -> structFields(Skip(p, 1), names, types)
    [] Op(p, 0, "}")   -> Ret(p, <<"StructType", names, types>>)
    [] At(p, 0, "IDENTIFIER") ->
         Then(parseOneType(Skip(p, 1)), LAMBDA t :
           structFields(Skip(t, 1), Append(names, lookAhead(p, 0).Val), Append(types, t.res)))
    [] OTHER -> Panic(p)

\* the arguments in parentheses of a method of an interface, from the "(" or "," before one
methodArguments(p, types) ==
  CASE Op(p, 1, ")") -> Ret(Skip(p, 2), types)
    [] Op(p, 1, ",") -> methodArguments(Skip(p, 1), types)
    [] OTHER -> Then(parseOneType(Skip(p, 1)), LAMBDA t : methodArguments(t, Append(types, t.res)))

\* A method ends with the line.
methodReturns(p, types) ==
  IF At(p, 0, "EOL") THEN Ret(Skip(p, 1), types)
  ELSE Then(parseOneType(p), LAMBDA t : methodReturns(Skip(t, 1), Append(types, t.res)))

interfaceMethods(p, methods) ==
  CASE At(p, 0, "EOL") -> interfaceMethods(Skip(p, 1), methods)
    [] Op(p, 0, "}")   -> Ret(p, <<"InterfaceType", methods>>)
    [] At(p, 0, "IDENTIFIER") /\ Op(p, 1, "(") ->
         Then(methodArguments(Skip(p, 1), <<>>), LAMBDA a :
         Then(methodReturns(a, <<>>), LAMBDA r :
           interfaceMethods(r, Append(methods, <<lookAhead(p, 0).Val, a.res, r.res>>))))
    [] OTHER -> Panic(p)

\* multiTypeParse: ends at the ")"
typeList(p, types) ==
  IF Op(p, 0, ")") THEN Ret(p, types)
  ELSE Then(parseOneType(p), LAMBDA t :
         LET all == Append(types, t.res) IN
         CASE Op(t, 1, ",") -> typeList(Skip(t, 2), all)
           [] Op(t, 1, ")") -> typeList(Skip(t, 1), all)
           [] OTHER         -> Panic(t))

funcType(p) ==
  IF ~At(p, 1, "OPERATOR") /\ lookAhead(p, 1).Val # "(" THEN Panic(p) ELSE
  Then(typeList(Skip(p, 2), <<>>), LAMBDA a :
    LET many == Op(a, 1, "(")
        one  == At(a, 1, "IDENTIFIER")
    IN  Then(CASE many -> typeList(Skip(a, 2), <<>>)
               [] one  -> Then(parseOneType(Skip(a, 1)), LAMBDA t : Ret(t, <<t.res>>))
               [] OTHER -> Ret(a, <<>>), LAMBDA r :
          Ret(r, <<"FuncType", a.res, r.res>>)))

\* Only names, structs, arrays, slices, interfaces and pointers can be variadic.
parseOneType(start) ==
  LET variadic == Op(start, 0, "...")
      p == IF variadic THEN Skip(start, 1) ELSE start
      name == lookAhead(p, 0).Val
      Variadic(q) == Ret(q, Append(q.res, variadic))
  IN  CASE Op(p, 0, "*") ->
             Then(parseOneType(Skip(p, 1)), LAMBDA t : Variadic(Ret(t, <<"PointerType", t.res>>)))
        [] Keyword(p, "struct") ->
             IF Op(p, 1, "{") THEN Then(structFields(Skip(p, 2), <<>>, <<>>), Variadic)
             ELSE Panic(p)
        [] Keyword(p, "interface") ->
             IF Op(p, 1, "{") THEN Then(interfaceMethods(Skip(p, 2), <<>>), Variadic)
             ELSE Panic(p)
        [] At(p, 0, "IDENTIFIER") ->
             IF ~Op(p, 1, ".") THEN Variadic(Ret(p, <<"Type", "", name>>))
             ELSE IF At(p, 2, "IDENTIFIER")
             THEN Variadic(Ret(Skip(p, 2), <<"Type", name, lookAhead(p, 2).Val>>))
             ELSE Panic(p)
        [] Op(p, 0, "[") /\ Op(p, 1, "]") ->
             Then(parseOneType(Skip(p, 2)), LAMBDA t : Variadic(Ret(t, <<"SliceType", t.res>>)))
        [] Op(p, 0, "[") /\ At(p, 1, "NUMBER") /\ Op(p, 2, "]") ->
             Then(parseOneType(Skip(p, 3)), LAMBDA t :
               Variadic(Ret(t, <<"ArrayType", t.res, lookAhead(p, 1).Val>>)))
        [] Keyword(p, "func") -> funcType(p)
        [] OTHER -> Panic(p)

-----------------------------------------------------------------------------
\* parser.Parse: the state in which it ends, with the instructions of the file in `res'
Parse(items) ==
  parseUntil([items |-> items, i |-> 1, inAllocRightHand |-> FALSE, types |-> predeclared,
              packages |-> {}, res |-> NoNode, end |-> ""], "EOF", "")
=============================================================================
