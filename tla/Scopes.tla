------------------------------- MODULE Scopes -------------------------------
(***************************************************************************)
(* Scopes: which variable a name stands for when compiler.go looks it up,  *)
(* in nested ifs, loops, switches and function literals, and whether LLVM  *)
(* accepts the use of that variable where it is.                           *)
(*                                                                         *)
(* The compiler finds variables in a stack of maps, and keeps the block it *)
(* writes to apart from it.  A variable is an alloca in the block in which *)
(* it was declared, and only blocks which that block dominates may use it: *)
(* `idom' is the dominator tree of the blocks that were made.              *)
(***************************************************************************)
EXTENDS Integers, Sequences, FiniteSets, FiniteSetsExt, SequencesExt, TLC

\* Constants, functions and variables of packages are in no block: every block may use them.
NoBlock == 0

NewCompiler ==
  [scopes  |-> << <<>> >>,  \* contextBlockVariables, from names to variables
   pkgVars |-> <<>>,        \* those of the package
   block   |-> NoBlock,     \* contextBlock
   idom    |-> <<>>,        \* of each block: its dominator, NoBlock at the entry of a function
   names   |-> 0,           \* how many names were made up
   bound   |-> {},          \* <<node, name, node of the declaration>>, for every name found
   end     |-> ""]

RECURSIVE Dominators(_, _)
Dominators(c, block) ==
  IF block = NoBlock THEN {NoBlock} ELSE {block} \cup Dominators(c, c.idom[block])

Usable(c, var) == var.block \in Dominators(c, c.block)

\* Clang refuses the module, unless the compiler panicked already.
Refuse(c) == [c EXCEPT !.end = IF @ = "" THEN "refused" ELSE @]

pushVariablesStack(c) == [c EXCEPT !.scopes = Append(@, <<>>)]

\* A wrong variant: what was declared since is not forgotten.
popIntoOuter(c) ==
  LET n == Len(c.scopes) IN
  [c EXCEPT !.scopes = [k \in 1..n - 1 |-> IF k = n - 1 THEN c.scopes[n] @@ @[k] ELSE @[k]]]

popVariablesStack(c) == [c EXCEPT !.scopes = Front(@)]

setVar(c, name, var) == [c EXCEPT !.scopes[Len(c.scopes)] = (name :> var) @@ @]

\* A variable is in the block where it was declared; constants and parameters cannot be
\* assigned to.
Var(node, block, isVariable) == [node |-> node, block |-> block, isVariable |-> isVariable]

\* setVar or, while there is no block, DefinePkgVar
declare(c, node, name) ==
  LET var == Var(node, c.block, TRUE) IN
  IF c.block = NoBlock THEN [c EXCEPT !.pkgVars = (name :> var) @@ @] ELSE setVar(c, name, var)

\* The scopes in which a name is: the innermost of them has what it stands for.
Having(c, name) == {k \in DOMAIN c.scopes : name \in DOMAIN c.scopes[k]}
IsDeclared(c, name) == Having(c, name) # {} \/ name \in DOMAIN c.pkgVars
Lookup(c, name) ==
  IF Having(c, name) # {} THEN c.scopes[Max(Having(c, name))][name] ELSE c.pkgVars[name]

compileNameNode(c, node, name) ==
  IF ~IsDeclared(c, name) THEN [c EXCEPT !.end = "panic"]
  ELSE LET var   == Lookup(c, name)
           found == [c EXCEPT !.bound = @ \cup {<<node, name, var.node>>}]
       IN  IF Usable(c, var) THEN found ELSE Refuse(found)

\* The nodes that compileForRange makes up end with the node they stand for.
MadeUp(name, val, origin) == <<"Alloc", <<name>>, <<val>>, <<"nil">>, FALSE, origin>>
OriginOf(alloc) == IF Len(alloc) = 6 THEN alloc[6] ELSE alloc

\* All of the recursion goes through compileValue: a block is compiled as one node.
RECURSIVE compileValue(_, _, _)
compile(c, instructions) == compileValue(c, <<"nil">>, <<"Block", instructions>>)

compileValues(c, node, vals) == FoldLeft(LAMBDA d, val : compileValue(d, node, val), c, vals)

compileAllocNode(c, v) ==
  LET node == OriginOf(v) IN
  CASE v[5] -> FoldLeft(LAMBDA d, name : setVar(d, name, Var(node, NoBlock, FALSE)), c, v[2])
    [] ~v[5] /\ v[3] = <<>> -> declare(c, node, v[2][1])
    [] OTHER -> FoldLeftDomain(LAMBDA d, k : declare(compileValue(d, node, v[3][k]), node, v[2][k]),
                               c, v[3])

\* Blocks are made in order; the last argument has their dominators.
NewBlocks(c, dominators) == [c EXCEPT !.idom = @ \o dominators]
At(c, block) == [c EXCEPT !.block = block]

compileConditionNode(c, v) ==
  LET cond  == compileValue(pushVariablesStack(c), v[2], v[2])
      after == Len(cond.idom) + 1
      true  == after + 1
      false == after + 2
      made  == NewBlocks(cond, <<cond.block, cond.block, cond.block>>)
      both  == compile(At(compile(At(made, true), v[3]), false), v[4])
  IN  popVariablesStack(At(both, after))

\* The block after the body is dominated by the one in which the body ends.
compileForThreeType(c, v) ==
  LET before    == compile(c, <<v[2]>>)
      checkCond == Len(before.idom) + 1
      loopBody  == checkCond + 1
      afterBody == checkCond + 2
      afterLoop == checkCond + 3
      made  == NewBlocks(before, <<before.block, checkCond, loopBody, checkCond>>)
      cond  == compileValue(At(made, checkCond), v[3], v[3])
      body  == compile(At(cond, loopBody), v[5])
      after == compile(At([body EXCEPT !.idom[afterBody] = body.block], afterBody), <<v[4]>>)
  IN  At(after, afterLoop)

\* for k, v := range a is for key := 0; key < len(a); key = key + 1 { k := key; v := a[key] },
\* with names that no program has; nothing is declared by for range a.  What follows the check
\* of an index is dominated by what is before it, so that no block is made for it.
compileForRange(c, v) ==
  LET made(prefix) == prefix \o "-" \o ToString(c.names)
      name(word)   == <<"Name", "", word>>
      range  == v[2]
      item   == made("range-item")
      length == made("range-item-len")
      key    == made("for-key")
      number(n) == <<"Constant", "NUMBER", n>>
      names  == IF range[1] = "Range" THEN <<>> ELSE range[2]
      values == <<name(key), <<"LoadArrayElement", name(item), name(key)>>>>
      heads  == [k \in DOMAIN names |-> MadeUp(names[k], values[k], range)]
      alloc  == compileAllocNode([c EXCEPT !.names = @ + 1],
                  MadeUp(item, IF range[1] = "Range" THEN range[2] ELSE range[3][1][2], range))
      len    == compileAllocNode(alloc,
                  MadeUp(length, <<"Call", name("len"), <<name(item)>>>>, range))
  IN  compileForThreeType(len,
        <<"For", MadeUp(key, number("0"), range),
                 <<"Operator", "<", <<"TypeCast", "int32", name(key)>>, name(length)>>,
                 <<"Assign", <<name(key)>>, << <<"Operator", "+", name(key), number("1")>> >>>>,
                 heads \o v[5]>>)

compileForNode(c, v) ==
  IF v[3] = <<"nil">> THEN compileForRange(c, v) ELSE compileForThreeType(c, v)

\* The default clause is compiled first, then every other one, and its conditions behind it.
compileSwitchNode(c, v) ==
  LET item  == compileValue(c, v, v[2])
      after == Len(item.idom) + 1
      made  == NewBlocks(item, [k \in 1..2 + Len(v[3]) |-> item.block])
      clause(d, block, body) == At(compile(At(d, block), body), item.block)
      cases == FoldLeftDomain(LAMBDA d, k :
                 compileValues(clause(d, after + 1 + k, v[3][k][3]), v, v[3][k][2]),
                 clause(made, after + 1, v[4]), v[3])
  IN  At(cases, after)

compileDefineFuncNode(c, v) ==
  LET named == IF v[3] = "" THEN c
               ELSE [c EXCEPT !.pkgVars = (v[3] :> Var(v, NoBlock, FALSE)) @@ @]
      entry == Len(c.idom) + 1
      open  == pushVariablesStack(At(NewBlocks(named, <<NoBlock>>), entry))
      names(list) == [k \in DOMAIN list |-> list[k][2]]
      params == FoldLeft(LAMBDA d, name : setVar(d, name, Var(v, entry, FALSE)),
                         open, names(v[2] \o v[4]))
      results == FoldLeft(LAMBDA d, r : IF r[2] = <<"nil">> THEN d ELSE declare(d, v, r[2][3]),
                          params, v[5])
  IN  popVariablesStack(At(compile(results, v[6]), c.block))

\* Every target is a name.
compileAssignNode(c, v) ==
  LET assign(d, k) ==
        LET target == compileNameNode(d, v, v[2][k][3]) IN
        IF IsDeclared(d, v[2][k][3]) /\ ~Lookup(d, v[2][k][3]).isVariable
        THEN [target EXCEPT !.end = "panic"]
        ELSE compileValue(target, v, v[3][k])
  IN  FoldLeftDomain(assign, c, v[2])

compileBlock(c, instructions) ==
  FoldLeft(LAMBDA d, v :
             CASE v[1] = "Condition"  -> compileConditionNode(d, v)
               [] v[1] = "DefineFunc" -> compileDefineFuncNode(d, v)
               [] v[1] = "Alloc"      -> compileAllocNode(d, v)
               [] v[1] = "Assign"     -> compileAssignNode(d, v)
               [] v[1] = "For"        -> compileForNode(d, v)
               [] v[1] = "Switch"     -> compileSwitchNode(d, v)
               [] v[1] = "DeclarePackage" -> d
               [] OTHER               -> compileValue(d, v, v),
           c, instructions)

\* The values that contain names.  Nothing is looked up for len.
compileValue(c, node, v) ==
  CASE v[1] = "Name"             -> compileNameNode(c, node, v[3])
    [] v[1] = "Operator"         -> compileValues(c, node, <<v[3], v[4]>>)
    [] v[1] = "Call" /\ v[2][3] = "len" -> compileValues(c, node, v[3])
    [] v[1] = "Call" /\ v[2][3] # "len" -> compileValues(c, node, <<v[2]>> \o v[3])
    [] v[1] = "TypeCast"         -> compileValue(c, node, v[3])
    [] v[1] = "LoadArrayElement" -> compileValues(c, node, <<v[2], v[3]>>)
    [] v[1] = "InitializeSlice"  -> compileValues(c, node, v[3])
    [] v[1] = "DefineFunc"       -> compileDefineFuncNode(c, v)
    [] v[1] = "Constant"         -> c
    [] v[1] = "Block"            -> compileBlock(c, v[2])

Bindings(instructions) ==
  LET c == compile(NewCompiler, instructions) IN [end |-> c.end, bound |-> c.bound]
=============================================================================
