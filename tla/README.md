# A TLA+ model of the tre compiler

tre (`src/`) compiles a subset of Go to LLVM IR and hands the IR to clang.  It is a
single-threaded program: what is hard about it is not concurrency but *state that
recursive calls share*.  `Compiler` (compiler/compiler/compiler.go:23-68) keeps one
current block and half a dozen stacks; every `compileXxx` method pushes, compiles its
children, and pops, and any expression in the middle of a statement may move the current
block.  The tests of the repository compile 83 small programs and compare their output;
they hardly ever nest one construct in another.  The models do: TLC compiles *every*
program up to a bound, and the proofs cover programs of any length and nesting.

Two views of the compiler complete each other.  `Codegen`, `Slices` and `Packages` take
one aspect each (blocks, slices, packages) and leave values out; the proofs are about
them.  `Frontend` composes the rest: it takes texts and programs through the lexer, the
parser, the passes and a compiler of straight-line code, runs the result on a memory of
words, and compares what comes out with Go's specification, bit by bit; of programs with
branches, loops and function literals it compares what each name stands for.

## The system

```
 cmd/tre/main.go -> cmd/tre/build   package search, import order
   -> compiler/lexer                source text -> items
   -> compiler/parser               items -> AST, operator precedence
   -> compiler/passes/const_iota    iota -> constants      (rewrites the AST)
   -> compiler/passes/escape        marks AllocNodes that escape
   -> compiler/compiler             AST -> llir module
   -> clang                         external
```

| part | state | operations | what can go wrong |
|---|---|---|---|
| code generation, control flow: `condition.go`, `for.go`, `switch.go`, `func.go`, the block-making parts of `array.go`, `slice.go`, `types.go`, and `compiler.go` | `contextBlock`, `contextFunc`, `contextFuncRetVals`, `contextBlockVariables`, `contextLoopBreak`, `contextLoopContinue`, `contextCondAfter`, the blocks of the module | one method per statement | a push without its pop; a jump to a block of another loop or another function; a terminator set on the wrong block, set twice or never |
| run-time representation: `slice.go`, `array.go`, `func_len.go`, `func_cap.go`, `types/type.go` | a slice is {len, cap, offset, backing}, a string {len, bytes} | make, index, slice, append, len, cap, substring | aliasing of backing arrays, bounds, growth from capacity 0, offsets |
| packages and initialisation: `build.go`, `package.go`, `alloc.go`, `func.go:127-130` | `packages`, `currentPackage`, `initGlobalsFunc`, `contextBlock == nil` at package level | import, compile a package, allocate a package variable, define `init` | import cycles and diamonds, order of initialisation, `contextBlock` left behind by an early return |
| names: `compiler.go:266-304` | `contextBlockVariables`, package variables | push, pop, set, look up | shadowing, names leaking from one scope, function or package into another |
| storage: `passes/escape`, `alloc.go`, `struct.go` | `AllocNode.Escapes`, `contextAlloc`, `Struct.IsHeapAllocated` | mark, allocate | a returned pointer to a stack slot |
| constants: `passes/const_iota` | `count` of the group | visit | values of a group with mixed entries |
| interfaces: `types.go`, `interface.go`, `types/interface.go` | type ids, method tables | convert, assert, call | two types with one id, method order |
| integers: `condition.go:20-156`, `types.go`, `constants.go`, `value.go` | - | operators, casts, untyped constants | width, signedness |
| parser: `compiler/parser` | position in the items | parseOne, aheadParse, sortInfix | precedence and associativity |
| lexer: `compiler/lexer` | position in the line | Lex | boundaries of items, end of line |
| `cmd/tre/main.go`, `external_funcs.go`, `syscall/*`, `strings/*`, `name/*`, `io.go`, `bool.go`, `pkg/fmt` | - | flags, libc declarations, constants, fresh names | pure I/O or declarations |

The parts interact by calls only: `build.compilePackage` calls the lexer, the parser and
the passes on each file of a package, calls itself on each import, and then calls
`Compiler.Compile` on the package; all packages share one `Compiler`.  Inside it, the
methods call each other through `compile` and `compileValue` and share its fields.
`PROJECT.json` lists every part with its status, and every hazard with the line where it
bites.

## Modules

| module | models |
|---|---|
| `Codegen` | the control-flow part of `compiler/compiler`: every statement and every expression that makes basic blocks |
| `CodegenFlow` | the meaning of the program and of the emitted blocks, compared |
| `MCCodegen` | the instances of both for TLC |
| `CodegenProofs` | theorems about `Codegen`, checked by TLAPS: types and who owns which block |
| `CodegenStacks` | theorems about its context stacks |
| `CodegenTerms` | theorems about its terminators: returns, and that the compiler does not panic |
| `CodegenBlocks` | theorems about the blocks of a completed function |
| `CodegenPlaces` | what is known of the blocks of an unfinished program, and the lemmas `CodegenFaithful` rests on |
| `CodegenFaithful` | the theorem about `CodegenFlow`: the blocks do what the program says |
| `Slices` | what the code emitted for arrays and slices does with headers and backing arrays |
| `GoSlices` | what slices promise: variables that are views of arrays; `Slices` implements it |
| `MCSlices` | the instances of `Slices` for TLC |
| `SlicesProofs` | theorems about `Slices`, the refinement of `GoSlices` among them |
| `Packages` | `compilePackage` and what `Compiler.Compile` does with a package: imports, package tables, lookup, package-level declarations, `global-init` |
| `MCPackages` | the instances of `Packages` for TLC |
| `PackagesProofs` | theorems about `Packages`: the order in which packages are compiled, its tables, `global-init`, what names are bound to, and that symbols differ |
| `Lexer` | `Lex`, one action for each way through its loop |
| `Parser` | `compiler/parser` except `Walk`: functions of the same names on the parser's state |
| `Iota` | the pass `const_iota`, and `Walk`, which takes it through the tree |
| `Escape` | the pass `escape` |
| `Lowering` | `compiler/compiler` for functions without branches: integers, bools, strings, structs, pointers, calls, methods, interfaces without methods |
| `LLVM` | the instructions `Lowering` builds, run as they are built, on a memory of words (external) |
| `Steps` | results of functions that can fail, used by the last three |
| `GoGrammar` | reference: Go's tokens; program parts as their words together with the tree they mean |
| `GoPrograms` | reference: what a straight-line Go program computes |
| `Scopes` | name lookup in nested ifs, loops, switches and function literals, and which uses of a variable LLVM accepts |
| `GoNames` | reference: what names stand for in Go, and where tre departs from it |
| `GoCases` | families of programs to run, each with whether tre does what Go does |
| `Frontend` | the composition: `parseFile` and `Compile`, and the properties |
| `MCFrontend` | the instances of `Frontend` for TLC |

`Codegen` is one function body after another, `Packages` the level above: the two share
`contextBlock`, which is a block inside a function for the first and `nil`, or should be,
for the second.  `Slices` is the program that comes out.

### Codegen

The recursion of the compiler is made explicit.  `frames` is the Go call stack of the
`compileXxx` methods, and each method is cut where it calls `c.compile` or
`c.compileValue` on a child: `BeginIf` is `compileConditionNode` up to
`c.compile(v.True)`, `BeginElse` the part between the two branches, `EndIf` the rest.  A
frame holds the Go local variables that live across the call (`trueBlock`, `afterBlock`,
`prevContextBlock`, ...).

| actions | code |
|---|---|
| `Stmt`, `Index`, `Substring`, `TypeAssertion` | alloc.go:169-238, array.go:62-199, slice.go:20-91, types.go:181-231 |
| `BeginAppend`, `NestedAppend`, `EndAppend` | slice.go:141-336, cut at the compilation of the item (slice.go:321) |
| `BeginIf`, `BeginElse`, `EndIf` | condition.go:158-206 |
| `BeginFor`, `EndFor`, `Break`, `Continue` | for.go:18-157 |
| `BeginSwitch`, `EndDefault`, `BeginCase`, `EndCase`, `EndSwitch` | switch.go:12-60 |
| `BeginMain`, `BeginFunc`, `EndFunc`, `ReturnValues`, `NakedReturn` | func.go:78-359 |
| `Init`, `Finish` | compiler.go:76-211, 133-159 |

The program is not fixed in advance: each action picks the next token, so the behaviours
of `Spec` are the compilations of all programs over `Statements`.  `src` records the
tokens for the properties; no guard reads it except those that say which programs exist
(section "Which programs are compiled" of the module).  Data is abstracted to identities:
an instruction is the token it was emitted for and a tag, a variable map is the token
that opened it, return-value variables are their owner and their number.

The terminators of the blocks are kept as llir keeps them: `NewBr`, `NewCondBr` and
`NewRet` *replace* the terminator a block has.  The compiler relies on it (the
placeholder `unreachable` of the append blocks, `afterBlock.NewBr` of a nested if) and
stumbles over it (finding 2).

**Supported subset and `Extra`.**  With `Extra = {}` the programs are those in which the
compiler keeps what it promises; `Extra` adds forms of legal Go one by one.  What happens
with each, so far as it was observed with TLC:

| form | effect |
|---|---|
| `openBranchEnd` | an if-branch that ends in a block of its own making (a for, a switch, an append or an index check last): the block gets no jump to `afterBlock` (finding 1) |
| `jumpEndsLoop` | a jump as the last statement of a loop body is replaced by the jump to the next iteration (finding 2) |
| `voidReturn` | `return` in a function without results indexes an empty stack, or, inside a function literal, loads the enclosing function's result |
| `codeAfterJump` | the code after a jump is emitted into the same block, which is then terminated again: the later terminator wins |
| `flowInCase`, `breakInSwitch` | the terminator of a case block is set by `compileSwitchNode` on the block the case *began* in (switch.go:49, 52); a break resolves to the enclosing loop |
| `fallIntoDefault` | `caseBlocks[caseIndex+1]` is out of range (switch.go:49): the compiler panics |
| `blocksInItem` | the value of an append's item is computed in a block that nothing leads to, the store stays in `addToSliceBlock`; if the item is itself an append, the compiler panics (slice.go:159) |
| `armsReturn` | a function that ends in an if/else whose branches return leaves `afterBlock` without a terminator |
| `otherMain` | a function of another package, or a method, that is called main ends with `ret i32 0` whatever its result; with one result it returns 0 instead of what its last statement says |

The stack discipline (`Balanced`, `OwnEntries`, `ContextInFunction`) holds in all of them.

### Slices

`Slices` is the run-time side: not the compiler but the program it emits, one action per
statement of that program.  `mem` is the sequence of arrays (the program's array variable
`a`, then every block malloc returned, as a sequence of items in which unwritten cells
are `Garbage`), and `slices` the {len, cap, offset, backing} header in each place that
has been assigned.

| actions | code |
|---|---|
| `MakeSlice` | slice.go:338-398, alloc.go:62-65, `SliceZero` (types/type.go:286-311) |
| `MakeWindow` | `compileSliceArray` (slice.go:93-139) |
| `Assign` | alloc.go:124-148, 169-184: the header is copied |
| `AppendTo`, `AppendToWindow` | slice.go:141-336: in place, or to a copy of twice the capacity |
| `Store` | array.go:86-123, 164-198 |
| `StoreInArray`, `StoreAtConstant` | array.go:76-84, 146-198: index known at run time, at compile time |

Three kinds of places are told apart, because the compiler does.  A *variable* has a
pointer of its own name.  A *field* (of a struct; an element of an array or slice of
slices is the same) is reached through a `getelementptr` without a name, and in llir all
values without a name have one identifier while the module is being built; that matters
to `append`, which compares identifiers (`SameIdent`).  A *window*, `w := a[i:j]`, holds
a pointer to a header, because `compileSliceArray` returns a value that is not a
variable; it can be indexed and copied, while `append(w, ...)`, `cap(w)` and storing it
in a place of type slice do not get past llir.  `a[i:j]` itself can be the argument of
append.  i and j are constants: `compileSliceArray` does not load variables.

A step that would leave the arrays makes `status` "undefined".  A load computes its
address as a store does and changes nothing, so it has no action.

Sizes are parameters: `ItemSize` and `SliceSize` are the compiler's `Size()`, `Stride` is
LLVM's; a new slice is allocated by the first and grown by the second, 20 bytes an item
whatever it is (slice.go:257).  Nothing is assumed of how they compare, and an item that
does not fit its block is stored outside: `[]interface{}` (24 bytes), `[][]T` (24, counted
as 20), and structs of more than 20 bytes or with gaps (finding 5).  `ArrayForms` says how
`a` is made: a literal `[N]T{}` and a variable of a package are zero, a local `var a [N]T`
is not written at all, because its type has no `Len` (types.go:59-64).

`GoSlices` knows views {array, offset, len}, no capacities and no addresses.  An append
of a variable to itself extends its array or copies, any other append copies.

**Supported subset.**  `GoView` compares a program with Go up to the step that leaves its
memory; which steps can is what `Overruns` says.  `SlicesProofs` names the programs it
holds for: the array is set to zero (`Zeroed`), appends to windows start at the start of
the array or are to empty ones, at most one slice is kept out of variables, and indexes
fit 32 bits and, into windows, are not negative (`Supported`).  Without each the code
departs from Go: local arrays, findings 3 and 4, and `w[-1]`, which passes the check when
w starts later than a.

### Packages

`stack` is the Go call stack of `compilePackage`, one frame per call with what is left of
its loops; everything else is a field of the one `Compiler` all packages share, or the
program text.  The import statements of every directory are fixed in the initial state.
The declarations of a directory are chosen when it is first compiled and read again when
it is compiled again, which happens whenever two import statements lead to it.

| actions | code |
|---|---|
| `Import`, `Load` | build.go:107-159: the next import statement, the recursive call |
| `StartCompile`, `EndCompile` | build.go:161-165, compiler.go:150-158 |
| `Declare`: `DefineType` | compiler.go:244-254 |
| `AllocConst`, `AllocZero`, `AllocValue` | alloc.go:159-167, 29-71, 73-157 |
| `DefineFunc` | func.go:78-264, for what it does to packages, scopes and `global-init` |
| `Unresolved` | a panic of `compileNameNode` or `parserTypeToType`, recovered at compiler.go:134 |
| `Assemble` | build.go:30-75: what clang refuses of the result |

`defs` lists everything that was defined, in order; tables, scopes, types and the
instructions of `global-init` refer to it by position.  A definition records the names it
uses with what `Lookup` (compiler.go:266-292) bound them to, and what is read when it
runs.  Declarations have a *form* for each way through `compileAllocNode`: `value`
allocates, `multi`, `pointer` and heap-allocated `struct` return early, `index` makes
blocks in `global-init`.  A function that returns a pointer to a variable of a struct type
makes that type `IsHeapAllocated` (escape.go, struct.go:117), for every package that uses
it.  Left out: which file of a package a declaration is in (the files are compiled in
order, as one sequence), methods, values of several expressions on one line, the package
"global" of built-in names, which programs cannot refer to by name.

The symbol of a function is package, underscore and name (func.go:97-101), and names may
have underscores: `B_P` of package `A` and `P` of package `A_B` are one symbol, and clang
refuses the program.  `OneSymbolEach` says that nothing else makes two symbols equal
(`Ambiguous`), and the instance has these two functions.  A method `f` of `T` is
`A_method_T_f`, which a function can be called too; methods are not in the model.

Programs are Go programs (`Legal`): a package declares a name once, and refers to packages
it imports.  One that uses a name before its declaration is legal Go too, but fails here as
it does in the code, which knows a name from its declaration on.

### Lexer, Parser, Iota, Escape

| actions of `Frontend` | code |
|---|---|
| `LexFile`: the actions of `Lexer` | lexer.go:102-224 |
| `ParseFile` | build.go:177, parser.go:28-51 |
| `PassIota`, `PassEscape` | build.go:180-187 |
| `CompileAndRun` | build.go:160-164, compiler.go:150-158, and the run of the program |

A behaviour starts with a text and is lexed and no more, or starts with a program.  A
program comes as words together with the tree that Go's grammar gives them; some are
spelled out and lexed, and most start as the items `Lex` makes of the words, because the
property of the lexer says that it does.

`Lexer` is a state machine, as `Lex` is a loop: `source`, `line` and `i` are its
variables, and `items` is `res`.  `Parser` is a recursive descent without other state than
the position and two flags; a parser is a record with those, the last node as `res`, and
`end`, which is "" as long as it goes on.  Its operators have the names of the functions
of parser.go, or of the part of `parseOneWithOptions` they are.  Nodes are tuples
headed by the name of their type.  What the code leaves to chance is kept: an index
behind the items is a panic, and a loop that does not move is `Hang`.

The properties are *equivalences*.  `GoGrammar` says for each program whether tre gives it
Go's tree (`plain`), by rules on the program and not on the parser; TLC compares that with
what the parser does, so the list of departures below is both correct and complete within
the bounds.

| departure of lexer and parser | where |
|---|---|
| a `/` as the last character of a line, or a backslash as the last of a string that has no end: index out of range | lexer.go:117, 158 |
| numbers with a point are several items; of the escape sequences only `\n` and `\"` are known; two points are one item | lexer.go:150-165, 199-209, escape.go |
| behind an operator that is none of `+ - * /`, or if the next operand is a call, an index or has a prefix, the rest of the expression is one operand, and one rotation has to put right what binds tighter: `a+b==c` is `a+(b==c)`, `a%2==0` is `a%(2==0)`, `a*f(x)+b` is `a*(f(x)+b)` | parser.go:840-864, infix_sorter.go:51-75 |
| the operand of a unary `-` or `&` is the whole rest of the expression, that of `!` a single item: `-a+b` is `-(a+b)`, `!f(x)` is not parsed | parser.go:108-137 |
| `&&` and `\|\|` are items and no operators | node.go:70-103 |
| a return, a var, an if without else, `x.(T)`, `T{..,}` and `return T{}` end one or more items late: with no line ends behind them to lose, they swallow what follows | parser.go:271, 466-495, 617-641, 711-727 |
| a switch without clauses is never parsed to its end | switch.go:53 |
| `a[:2]`, `f(a, b int)`, an operator at the end of a line, interface methods with several results, and named results of types that are no names are not parsed as in Go | parser.go:796-838, 1078-1117, 1244-1259 |
| the name of an import is its whole path, `q/p`, where Go has `p` | import.go |
| `*s.b` is `(*s).b` | parser.go:108-137 |
| an entry without expression is its number, whatever there is to repeat, in groups of variables, too; an iota inside a conversion stays a name | iota.go:27-48, walk.go |

### Lowering and LLVM

`Lowering` is the compiler and the processor in one: an operator with the name of the
`compileXxx` method takes the state and a node, builds the instructions in the order of
the code, and each instruction of `LLVM` takes effect at once.  That is sound for code
without branches, which is executed in the order in which it is built; a function is
compiled (to a record of its types and what is marked as escaping) where it is declared,
and its body is built and run at each call.  Only functions that are called are built.

The state has the compiler's tables (`types`, `funcs`, `methods`, `typeIDs`, `strings`,
`vars`, `retVals`, `assignDest`) and the memory of the program: `mem`, a sequence of words
that only grows, in which words of a frame that was left are `Dead` and words nobody wrote
`Garbage`; `malloced` are the words that no frame ends.  `end` says how it went: "" (to
the end of main), "panic" (of the compiler, in llir, or clang refuses the module), "exits"
(a run-time panic of the program), "undefined" (LLVM leaves open what happens: no outcome
is guaranteed).

Go reads the fields of a literal from a map, in any order; the model compiles all of a
program's literals forwards, or all backwards, and `ran` is the set of what can happen.

`GoCases` lists families of programs with the flag `asGo`, and `IntegersAsGo`,
`StorageAsGo`, `CallsAsGo`, `AssertionsAsGo` and `StringsAsGo` say that a program has the
outcome and the values it has in Go *if and only if* the flag is set:

| departure of the compiler | where |
|---|---|
| comparisons are signed, `>>` brings in zeros, a shift by the width or more and the least number divided by -1 are undefined, `%` panics | condition.go:20-35, 98-140 |
| widening is signed whatever the type; a conversion between types of one size keeps the old type; `uint` does not exist; `int16(x)` and `uint16(x)` are parsed as calls | types.go:138-179, parser.go:34-45 |
| a number is an int64, unless an integer is assigned to, and then it has that type, in arguments and indexes inside the assignment, too; `var a int8 = 1` makes an int64; the sum of two named constants has no type | constants.go:17-36, alloc.go:102-153 |
| `!` needs a variable | bool.go:12-21 |
| only the last declaration of a returned name is put on the heap, and only if it is a literal; the address of any other variable dangles, `&T{}` in a return and a `p := &a` that is returned included | escape.go:8-61, struct.go:113-118 |
| malloc gets the sizes of the fields without the gaps between them | types/type.go:91-97 |
| a struct of a type that is on the heap in some function is not copied by `:=` in later ones | struct.go:103-143, alloc.go:102-153 |
| `*p` of a pointer that is a variable is not loaded; `p := &a` is no variable and cannot be assigned | pointers.go:13-76 |
| a field of a literal that is given by a variable panics; calls in a literal happen in any order | struct.go:124-136 |
| in functions with several results parameters have the types of the results they are next to; a result with a name is not zeroed; the values of a return are stored one by one; of two returns the last counts; parameters cannot be assigned | func.go:194-202, 228-238, 309-359 |
| an assignment with `_` stores nothing; `_ = f()` does not call f; the results of a call cannot be assigned to variables that exist | alloc.go:169-219 |
| methods cannot be called on a pointer that is a variable; types declared by one basic type share their methods and the number that tells types in interfaces apart, and all structs share one | struct.go:17-101, types.go:23-35 |
| an interface holds the address of the variable it was assigned; `x := i.(T)` is not supported | interface.go:14-84 |
| a substring whose start is negative, or behind its end, is not noticed; joining strings writes a NUL behind the array made for them; strings cannot be compared; a string constant with a name is the number 0 | slice.go:40-60, condition.go:59-93, alloc.go:159-167 |

Joined strings are finding 7: a test expects them to run as in Go, and `StringsAsGo`
alone, which lists them as a departure, would hide that.  For the others no line of the
tests, comments or documents was found that says otherwise, beyond being "Go".

### Names

`Scopes` compiles the statements with blocks in the order of the code, and keeps of the
compiler what decides on a name: the stack of maps `scopes`, the variables of the package
`pkgVars`, and `block`, the current block.  Of LLVM it keeps `idom`, which block dominates
which, because an alloca may be used only in blocks that its own dominates: where that is
violated, `end` is "refused", by clang.  `bound` collects what each name was found to be.
A loop over a range is rewritten as in for.go:64-149, with the made-up names left out of
the comparison.  Jumps and terminators are those of `Codegen`; the programs have no loop
or switch inside an if and only literals inside a switch, for those do not compile
(finding 1, and `flowInCase` above).

`GoNames` turns the program into a sequence of declarations and uses, each with the path
of the Go blocks around it.  A name stands for the last declaration before it in a block
around it; tre is wrong, by `NamesPlain`, exactly in three cases.

| departure | where |
|---|---|
| `Hidden`: a declaration in a loop or its head, in a switch, or in the other branch of an if is still found.  Behind `for i := 0; ...` an outer `i` is the loop's; `for i := 0; i < n; i++ { i := i }` counts the inner `i`; an else, a later case, and whatever follows see declarations whose block does not dominate them, and clang refuses the module.  A default clause is compiled before the cases, wherever it stands | for.go:19, switch.go:22-38, condition.go:160-205 |
| `Captured`: a function literal uses a variable around it: it is found, and belongs to another function, so clang refuses it | compiler.go:279-284, func.go:171 |
| `SetsParameter`: parameters are values and cannot be assigned | func.go:219-223, alloc.go:181 |

A range loop whose body redeclares its key counts right: it counts a name of its own.
for.go:19 knows of the missing scope ("TODO: create a new context-block").

## Runs

| run | instance | shows |
|---|---|---|
| `codegen_core` | all statements, `Extra = {}`, 5 tokens | types; breaks and continues resolve to the innermost loop of the function; every block of a compiled function is terminated, jumps within its function, returns what its signature says; the compiler does not panic; the blocks do what the program means |
| `codegen_all_forms` | all statements, all of `Extra`, 5 tokens | the context stacks are balanced, every open call finds its own entries, and the current block belongs to the current function |
| `codegen_branch_end` | `openBranchEnd`, 4 tokens | finding 1: `Terminated` is violated |
| `codegen_loop_end` | `jumpEndsLoop`, 4 tokens | finding 2: `Faithful` is violated |
| `slices_core` | interfaces as items, appends to the whole array and to an empty window, constant indexes up to the length; an array of two, a variable, a field, a window, two further arrays | headers show what is in their arrays and was stored there, the arrays have the bytes counted for the capacity, memory outside is reached in three ways only (`Overruns`), and until then `Slices` implements `GoSlices` (`GoView`) |
| `slices_window_append` | `append(a[1:2], x)` | finding 3: `AppendShows` is violated |
| `slices_field_append` | two fields | finding 4: `CopiedBeforeAltered` is violated |
| `slices_large_items` | interfaces as items, no windows | finding 5: `InBounds` is violated |
| `packages_core` | four directories, four import graphs, three declarations | whatever is compiled, the packages it imports have been; no two functions of one symbol while no package is reached twice, but for names that read alike; names that nothing shadows mean what Go says; `contextBlock` is left set only by the early returns; nothing is read before it is initialised; without an import cycle every compilation ends |
| `packages_private` | one import, two declarations | finding 6: `PrivateStaysPrivate` is violated |
| `frontend_core` | 10400 texts; 15700 programs to parse, 640 groups of constants, 2600 programs with names, 5800 programs to run | `Lex` cuts Go's tokens, and expressions, statements, declarations, groups and programs mean what they mean in Go, except exactly where the two tables above say; only a switch without clauses keeps the parser from ending; names stand for what they do in Go, except as section "Names" says |
| `frontend_string_joins` | four programs that join two strings | finding 7: `JoinsAsTested` is violated |

`GoView` implies `AppendShows` and `CopiedBeforeAltered`: those are stated on their own
because they are what the comments of slice.go say.

**Bounds.**  `MaxTokens` bounds the opening and plain tokens; closing tokens always remain
possible, so every program of that length is compiled to its end.  Five tokens are three
nested constructs with something in them, or two with a statement before and after, which
is what it takes to confuse two entries of a stack, two loops, a literal and its
enclosing function, or the two arms of an if with a construct inside.  A single run with
seven tokens over {stmt, check, if, for, break, continue, return} found nothing new.

For `Slices`, `MaxArrays = 3` and `MaxCap = 4` let a slice be made, filled to its
capacity, shared between the variable and the field, and grown or copied by either; after
a copy both arrays keep being appended to and stored into.  Two places are what it takes
to share, one window what it takes for `a` to be seen through an offset.  Sizes are in
units of four bytes: strings take 4 and a header is counted as 5, so that a copied block has
room for one item more than its capacity, as in the code; interfaces take 6, so that it
has room for one less.  The indexes are one before the
start, the first, and the first outside an array or slice of two.

For `Packages`, the directories are the program, two packages of the Go root, and a
vendored copy of one of them; their imports form a chain (with the package "external"), a
diamond in which one directory is compiled three times and the vendored copy once, a
cycle, or lead nowhere.  `MaxDecls = 3` is shared by all directories: one declaration in each of
three packages, or three in one, enough for a function that reads a variable whose
initialiser calls another package's function, and for an allocation that returns early,
one after it, and a use of that.  The declarations use two names that are found in every
package, one exported and one not, a third for a second result, and a fourth that reads
like a name of another package.  `MaxDepth = 4`, the
number of directories, stands for the size of the Go stack: `status = "overflow"` is the
crash of an import cycle, and `AcyclicEnds` shows that nothing else reaches it.

For `Frontend`: texts of up to four characters (the longest operators have three, an
escape sequence with its quotes four), in alphabets with one letter, digit and blank, all
signs, and the letters of the keyword `if`; pairs of lines of two.  Expressions have up to
four operands, because a rotation of the tree involves three operators at most, with
every kind of operand up to two and the interesting ones beyond; statements nest three
deep and come in pairs with one or two line ends between them, which is as many as a
construct swallows; types nest three deep.  Groups have up to four entries.  Integers have
3 to 6 bits (`MCBits`) instead of 8 to 64: each type is wider than the one before, which
is all that sign, overflow and conversion depend on, and lets int8 and uint8 be gone
through completely.  The programs with names have one construct with up to two statements
in each block, under a local, a package and a constant "a", or two constructs nested: an
outer declaration, one that could hide it and a use is all that a wrong lookup takes.
Strings have up to three characters, and ends from -1 to 4.
`Lowering` runs whole programs without a bound of their own: they end because calls do not
recurse.

**Deadlock** is not checked: a compilation stops after `Finish`, at a panic, and where the
bound is reached in a place that needs one more token (a function with results that has
no return yet); a program of `Slices` may end after any statement, and ends at a panic; a
run of `Packages` ends when it is built, fails or overflows the stack; one of `Frontend`
when there is nothing left to do with the file.

**Liveness.**  `AcyclicEnds`, under `WF_vars(Next)`: a single thread that is not stopped
goes on.  The recursion of `compilePackage` follows the imports, not a tree, so its end is
worth stating; import cycles are where it does not.  `Codegen` is a terminating recursion
over a finite tree and `Slices` the steps of any program; neither waits for anything.
`ParseFile` is one step, in which a parser that does not end is `Hang`; which programs
make it so is part of the invariant `StatementsAsWritten`.

## Proofs

Eight modules hold theorems.  They state every property of the passing runs of `Codegen`
and of `Slices`, and every safety property of that of `Packages`, for all values of the
constants that the hypotheses named below admit.

### `Codegen`

`CodegenProofs`, for every `MaxTokens`, every `Statements` and every `Extra`, programs of
any length and nesting:

* `TypeCorrect`: `Spec => []TypeOK`
* `ContextCorrect`: `Spec => []ContextInFunction`, the current block always belongs to the
  function whose signature returns are compiled for, whatever was nested in between.

Neither is inductive.  When a call ends, the current block becomes one that the call
saved when it began (`after`, `add`, `pre`, `prevBlock`), so the invariant must say whose
those are.  `OwnedNow` does: every open call's blocks belong to the function that was
compiled when the call was made, `contextFunc` is the owner of the innermost call, the
current block is one of that function's, and blocks never move to another function
(`Grows`).  `NextOwned` shows with one lemma per action that `TypeOK /\ OwnedNow` is
inductive; the actions share the lemmas `KeepStep`, `PushStep`, `PopStep` and `TopStep`
(no call, a call opened, closed, changed), and `Added` counts the blocks made.

`CodegenStacks`, for every `Extra` too:

* `StacksBalanced`, `EntriesOwned`: `Spec => []Balanced` and `[]OwnEntries`; the invariant
  is `StacksRight`, the two together.  They need each other and one fact besides: heights
  only grow from an open call to the calls inside it (`HeightsGrow`), so a call that
  pushes or pops at its own height cannot reach the entries of the calls around it
  (`KeptTo`, `EntriesStay`).
* `JumpsInnermost`: `Spec => []InnermostLoop`.  `contextLoopBreak` outlives the function
  that pushed to it, so the last entry must be shown to be that of the innermost loop of
  *this* function: no call between that loop and the top pushes a loop (`LoopsBetween`).

`CodegenTerms` sums up every action by what it does to the blocks: those it adds, the
older ones whose terminator it writes (`Builds`), and where those lead (`Local`).

* `ReturnsMatch`: `Spec => []RetMatches`, if `voidReturn` and `otherMain` are not in
  `Extra`.  The invariant `RetRight` says it of incomplete functions too.
* `NeverPanics`: `Spec => []NoPanic`, if `breakInSwitch`, `fallIntoDefault`,
  `blocksInItem` and `voidReturn` are not in `Extra`.  A break, a continue and a naked
  return index the last entry of a stack that outlives functions; the stack invariants
  say that it has one (`JumpsFind`, `NakedReturns`).

`CodegenBlocks`:

* `TargetsOwned`: `Spec => []OwnTargets`, if `flowInCase` and `armsReturn` are not in
  `Extra`;
* `BlocksTerminated`: `Spec => []Terminated`, if `openBranchEnd`, `flowInCase`,
  `blocksInItem` and `armsReturn` are not.

Neither is inductive.  While a function is compiled, it has blocks without a terminator,
and even branches into *another* function: `contextCondAfter` survives into function
literals, so an if in a literal inside an if ends with a jump to the block behind the
outer one, which the end of the literal or loop then overwrites.  `OwnRight` says that
such a branch stands only in a block in which a loop or function goes on; `TermRight`,
that every block without a terminator is held by an open call, which is going to write
it.  `CallsRight` gives the facts about nesting that both use.

No hypothesis on `Extra` can be dropped; TLC has a program for each form.  `OwnTargets` is
violated with `flowInCase` alone (5 tokens) and with `armsReturn` alone (8 tokens: the
after block of an if/else that returns, at the end of a literal inside an if, keeps its
jump into the function around it), `Terminated` with each of its four, `RetMatches` with
each of its two, and `NoPanic` with each of its four, `breakInSwitch` together with
`flowInCase`, for without that no break stands in a case.  The proofs use no other
assumption on the constants than the three `ASSUME`s of `Codegen`.

`CodegenFaithful`:

* `FlowFaithful`: `Spec => []Faithful`, if `Extra` is empty.

`Faithful` compares two finished things: the blocks of a complete function, and the whole
program.  Blocks are written when most of the program is still to come, so nothing like it
holds on the way, and the invariant has to say what a block means relative to the rest.
`CodegenPlaces` does it in four steps.

1. *Places and solutions.*  A place is a token and a part of its construct: where it
   stands, behind it, its else, condition, post statement, safe side and so on.  A solution
   is an assignment `A` of first items to places, with a relation `T` of places control
   passes through, that agrees with what every token read so far says (`Says`): the else
   of an if without an else is the place behind it, an endfor goes to the post statement
   of its loop.  A longer program has fewer solutions (`Extends`), so what holds for every
   solution keeps holding while tokens are added (`GoodStays`).
2. *The program is a solution.*  `FirstSolves`: `Arrive`, `After`, `Else` and the other
   operators of `CodegenFlow` satisfy `Says` for every token, in unfinished programs too.
   So what holds for every solution holds of the source (`FlowIs`).
3. *The blocks.*  `Traced(L, S)` gives every block a label, the place whose code it holds,
   and a state: *new*, nothing is written yet; *open*, it goes on to a place that is not
   compiled yet; *switch*, it holds a switch and gets its cases at the end; or *ended*,
   its terminator leads, outcome by outcome, to blocks whose labels are what the source
   does.  Each open call knows the states of the blocks it is going to write, the current
   block waits for the next token, and a block that is not ended is held by a call.  The
   existence of such labels (`Labelled`) is inductive, together with the invariants of
   the earlier modules (`Known`) and with what is known of the tokens (`TokensKnown`:
   each refers to the construct it belongs to, and constructs are nested).  There is a
   lemma for each action, `IndexTraced` to `EndFuncTraced`, on top of lemmas for steps
   that leave the calls alone, open, close or change one.
4. *Running them.*  In a complete function every block is ended (`BodyFinished`; this is
   where `BlocksTerminated` and `TargetsOwned` come in).  What is left is `FirstFrom`,
   which searches `Steps` blocks deep: blocks without items pass through `T`, every pass
   takes control forward in the program, and the number of passes from a place is bounded
   by `Depth`, so the search is deep enough (`FirstFromIs`, `FirstRight`), and no blocks
   without items lead in a circle.

The hypothesis leaves out all forms outside the supported subset.  With `openBranchEnd`,
`jumpEndsLoop`, `codeAfterJump`, `flowInCase`, `blocksInItem` or `voidReturn` alone, TLC
violates `Faithful` in programs of 3 tokens.  With `fallIntoDefault`, `breakInSwitch`,
`armsReturn` or `otherMain` alone it finds nothing up to 5 tokens: the first makes the
compiler panic, the second occurs only together with `flowInCase`, the third ends an
unreachable block wrongly, and the fourth changes what is returned and not the flow.  The
proof leaves the first three out all the same, because it rests on `NeverPanics`,
`TargetsOwned` and `BlocksTerminated`, which need it, and the fourth with them.

### `Slices`

`SlicesProofs` proves, for any number of places, items, arrays and appends, and for any
sizes:

* `TypeCorrect`, `HeadersFit`: `Spec => []TypeOK` and `[]WellFormed`, without a hypothesis.
  What a header shows is in its array, even where an item before it was too large for its
  block, because the program is then outside its memory and the header was not changed;
* `OnlyOverruns`: `Spec => Overruns`, without a hypothesis: the three ways out of memory;
* `ShowsStored`: `Spec => []Initialised`, if `Zeroed`;
* `MemorySafe`: `Spec => []InBounds` (nothing leaves the arrays), if `ItemsFit`,
  `NonemptyAppends` and `IndexesInside`;
* `ImplementsGo`: `Spec => GoView`, if `Zeroed` and `Supported`.

No hypothesis of `ShowsStored` and `MemorySafe` can be dropped: TLC finds `Initialised`
violated with `ArrayForms = {"local"}`, and `InBounds` with interfaces
(`slices_large_items`), with `append(a[1:1], x)`, and with `ConstIndexes = {1, 2}`.

The invariant `IInv` says of every header that it fits (`Fits`): what it shows is in its
array and was stored, and the array has the bytes that were counted for its capacity
(`Holds`; room for as many items only if they are not larger than counted); that only
windows have an offset or no capacity; and that the array variable holds values only, if
it is set to zero, for windows show it.  It is inductive as a whole: that what a slice
shows was stored needs that appends in place write right behind it, which needs that its
offset is 0.  `Grows` says that a step keeps arrays, lengths and values in place, so
headers the step does not touch still fit (`StillFits`).  `Room` is the arithmetic of
malloc, a whole number of strides.  `Overruns` and the refinement have one lemma per kind
of action on top of the same facts; a step that leaves the arrays is a stutter of
`GoSlices`.

### `Packages`

`PackagesProofs` proves `ImportsAreFirst`, `Spec => []ImportsFirst`, for any directories,
any function `Found` from import statements to directories, cycles and directories that
are reached many times included, and packages of any size; it uses `PackagesAssumption`,
which gives the constants their types.  `ImportsFirst` says what has been compiled, and
says nothing of a package that is still being loaded; the invariant adds what the Go stack
owes.  `Owed`: every import of a package on the stack is done, is waiting in its frame, or
is the next frame.  `Started`: only the last call compiles, and only when nothing waits in
its frame, so `Owed` gives it all of its imports (`DepsDone`).  `InProgress` and
`DoneDefined`: the declarations compiled so far, and all those of the packages that are
done, have their definitions; this needs that the text of a package that is done does not
change, and that definitions are only added (`Grows`).

The second part says what the tables hold, for the same constants:

* `TablesTyped`: `Spec => []TypeOK`.  The invariant `TypesRight` has the tables as
  functions into the definitions made so far, and says that the current package is that
  of the innermost call.  All ways of compiling a declaration are summed up once (`Adds`),
  and the other two theorems use the summary.
* `LeaksEarly`: `Spec => []OnlyEarlyReturnsLeak`.
* `InitialisedFirst`: `Spec => []InitBeforeUse`.  The invariant `InitOrder` says that
  definitions read only variables defined before them, that every variable has its
  instruction in `global-init`, and that the instructions are in the order of the
  definitions; the last two hold while `global-init` is one block.

The third part is about names:

* `NamesMean`: `Spec => []RightBinding`, if `NoSelfImport`: no directory imports a path
  that leads to it.  The invariant `NamesRight` follows a name from the import statement
  through the tables: what is in the table of a path was declared under that path, in the
  present run for the current package and in an earlier one for the others
  (`TablesNamed`), and every definition was made in a directory that an import statement
  leads to (`SitesRight`).
* `SymbolsDiffer`: `Spec => []OneSymbolEach`, without a hypothesis.  `OnceRight` says, as
  long as the imports are `Unshared`, that what is waiting to be loaded has not been,
  nothing is loaded twice, and no two functions have the same package and name
  (`PairsDiffer`).  Nothing is assumed of how package and name are joined: two different
  pairs with one symbol are what `Ambiguous` describes.

`NoSelfImport` is needed.  `c.packages` is keyed by the path of an import, and a directory
under `vendor/` can import, by its own path, another directory; the two share a table.  A
function `P` there that uses `A.P` is bound to itself (TLC: 9 states).

### Only model-checked

All of `Frontend`: `Parser`, `Iota`,
`Lowering` and `Scopes` are recursive functions over programs, and what a recursive
definition computes for every input is an induction over data, out of the prover's reach.
`AcyclicEnds`, a liveness property.  `GoView` is proved as a safety refinement
(`ImplementsGo`); `GoSlices` has no fairness.

## Findings

1. **A branch whose code makes blocks gets no jump** (run `codegen_branch_end`).
   condition.go:180 says "Jump to after-block if no terminator has been set"; the test is
   made on `trueBlock`, the block the branch *began* in, and the jump is added there.
   After a loop at the end of a branch the current block is another one and stays without
   terminator.
2. **A jump at the end of a loop body is lost** (run `codegen_loop_end`).  for.go:49 sets
   the terminator of the current block again, after the body's own break or continue,
   which compiler.go:49 says resolves to the entry pushed for it.
3. **`append(a[i:j], x)` copies the wrong items** (run `slices_window_append`).
   slice.go:144-145 says "Copy all data" and "Reset the offset"; the copy starts at the
   start of the backing array (slice.go:284), the old offset is not looked at.
4. **An append from one field to another writes into the array of the first** (run
   `slices_field_append`).  slice.go:154-156 says that unless a slice is assigned to itself
   its array "has to be copied before it can be altered"; the test compares identifiers
   that are equal for any two fields or elements.
5. **Slices of large items are grown by too little** (run `slices_large_items`).
   slice.go:143 says "at least double the size"; the size is that of a slice (slice.go:257),
   20 bytes an item.  testdata/interface-append-test.go:49 stores its fourth interface behind
   a block of 80 bytes.
6. **A private name of another package can be used** (run `packages_private`).
   testdata/packages-private/main.go:9 expects "compile panic: Can't use private from
   outside of sub" (package.go:32).  Scopes are searched before the package
   (compiler.go:281), and a package-level `const` goes to the scope all packages share
   (alloc.go:162).
7. **A joined string is one byte longer than its array** (run `frontend_string_joins`).
   testdata/string-concat.go:10-18 expects length and text of Go; the array
   (condition.go:65-66) has no place for the NUL that strcat writes, so what is behind it
   is overwritten and may overwrite it.

### Departures

These contradict the code's own words, too, and TLC shows each of them when the constants
of a run above are changed as stated; they have no run of their own.

* *`return` in a function without results panics the compiler.*  func.go:357 provides for
  it ("Return void in LLVM function"), but func.go:349 has indexed the empty stack before.
  `codegen_core` with `Extra = {"voidReturn"}` violates `NoPanic`.
* *Whatever is called main returns 0.*  func.go:250 says "Return 0 by default in main func";
  the test looks at the name only, while the result is made an i32 only for the main of
  package main (func.go:116).  `Extra = {"otherMain"}` violates `RetMatches`.
* *An append to an empty window stores behind its block.*  types/type.go:287 says "The cap
  must always be larger than 0"; that of `a[i:i]` is 0 (slice.go:115), and stays so when it
  is doubled.  `slices_core` covers it: it is the second of the three ways of `Overruns`.
* *A constant index may equal the length.*
  testdata/array-compiletime-out-of-range.go:8 expects "compile panic: index out of range";
  array.go:157 has `>`.  It is the third way of `Overruns`.
* *A local array is not set to zero.*  alloc.go:62 says so; `Array.Zero` counts to a length
  that types.go:61 does not set.  `slices_core` with `ArrayForms = {"local"}` violates
  `Initialised` (and `GoView` in its initial state).
* *`contextBlock` is not reset after a package variable.*  alloc.go:75-76 promises it; the
  returns at alloc.go:99, 112 and 122 come first.  `OnlyEarlyReturnsLeak` says that these
  are all, and `packages_core` checks it.

What `Packages` shows besides, without a sentence in the repository to disagree with: a
directory that is imported from two places is compiled twice, with two functions of one
symbol, which clang refuses (`OneSymbolEach` needs `Unshared`); both search paths are
compiled when both exist (no `break` at build.go:146); an import cycle overflows the Go
stack; an index in a package initialiser leaves `global-init` without an end.

## Plan

1. *(done)* `Codegen`, `CodegenFlow`, `CodegenProofs`, `CodegenStacks`, `CodegenTerms`,
   `CodegenBlocks`, `CodegenPlaces`, `CodegenFaithful`.
2. *(done)* `GoSlices`, `Slices`, `SlicesProofs`.
3. *(done)* `Packages`, `PackagesProofs`.
4. *(done)* `Lexer`, `Parser`, `Iota`, `Escape`, `Lowering` and their composition,
   `Frontend`; `Scopes`.
5. In `Lowering`, what is left: branches and loops, slices and arrays inside programs, the
   method tables of interfaces, and function values.
6. Proofs about `Lexer`, which does not recurse: that items stand in the order of the text,
   each on its line.

## Not modelled

* Methods called main in package main, which take over the function and the first block of
  main, and methods called init, which `global-init` calls without their receiver
  (func.go:116-130).
* Programs that declare a function or variable `len`, `cap`, `append` or `print`:
  `compileCallNode` takes these names for the built-in ones before it looks them up
  (func.go:366-377).
* `/* */` comments, raw strings and characters: the lexer has none, and panics or makes
  other items of them.  `;` stands only in the head of a for.
* The `String` methods of nodes and items (node.go, node_types.go), which only serve
  messages.  The kinds of nodes are those of `Parser`.
* In `Lowering`: branches, loops and switches (`Codegen` has their blocks, `Scopes` their
  names), package-level
  variables and `init` (`Packages`), slices and arrays (`Slices`), variadic functions,
  function values and literals, interfaces with methods and their jump functions (their
  blocks are in `Codegen`), bodies of functions that are never called.
* Calls into libc and the kernel (`external_funcs.go`, `syscall/*`, `pkg/fmt`, `print`):
  declarations and wrappers without state; counters for fresh names (`name`, `strings`).
* clang and libc (external), the text of the IR, the command line, file reading, and the
  wording of errors.

Hazards without a property: the cases of a switch with jumps in them (switch.go:49) and
items of an append that make blocks (slice.go:330), which are outside the supported subset
of `Codegen`; the blocks of an index check in a package initialiser (array.go:180), which
make `Assemble` of `Packages` fail; local arrays (types.go:61), as above; and a slice in a
struct that is read before it is assigned (types/type.go:53), which `Slices` leaves out,
because a field there begins with its first assignment.
