------------------------------ MODULE Packages ------------------------------
(***************************************************************************)
(* Packages: compilePackage of build.go, which imports by calling itself,  *)
(* and what Compiler.Compile does with the declarations of a package: the  *)
(* table of each package, the one scope they all share, name lookup, and   *)
(* the function global-init with the initialisers of all packages.         *)
(*                                                                         *)
(* `stack' is the Go call stack of compilePackage.  The import statements  *)
(* of every directory are fixed in the initial state; its declarations are *)
(* chosen one by one when it is first compiled, and read again from `text' *)
(* when it is compiled again.  The files of a package are one sequence.    *)
(***************************************************************************)
EXTENDS Integers, Sequences, SequencesExt, FiniteSetsExt

CONSTANTS
  Dirs,         \* the directories that hold packages,
  Root,         \*   the one tre is run on among them
  Paths,        \* import paths, which are also the names of packages:
  Main,         \*   the name of the package in Root, and of its main function
  External,     \*   the package built into the compiler
  Found,        \* for a directory and a path: the directories of `searchPaths' that exist
  Layouts,      \* the import statements of each directory, in order
  Idents,       \* the names in programs,
  Private,      \*   those of them that begin with a lower-case letter,
  InitName,     \*   "init"
  ExternalVars, \*   and those the package "external" defines
  Own,          \* no package in front of a name; no type
  Decls,        \* the declarations of programs
  MaxDecls,     \* bound: number of declarations in all directories
  MaxDepth      \* bound: calls of compilePackage, for the size of the Go stack

Refs  == [pkg : Paths \cup {Own}, name : Idents]
Types == Refs \cup {Own}

\* type names[1] struct{..}; var names[1] type; var names = ..; const names[1] = ..;
\* func names[1](params), which uses some names and, when `type' is not Own, returns
\* a pointer to a variable of that struct type.
Forms == {"type", "zero", "value", "index", "pointer", "struct", "multi", "const", "func"}

Decl == [form : Forms, names : Seq(Idents), type : Types,
         uses : SUBSET Refs, params : SUBSET Idents]

ASSUME PackagesAssumption ==
  /\ Root \in Dirs
  /\ {Main, External} \subseteq Paths /\ Main # External
  /\ Own \notin Paths /\ Own \notin Refs
  /\ Found \in [Dirs -> [Paths -> Seq(Dirs)]]
  /\ Layouts \subseteq [Dirs -> Seq(Paths)]
  /\ Private \subseteq Idents
  /\ ExternalVars \subseteq Idents /\ IsFiniteSet(ExternalVars)
  /\ Decls \subseteq Decl
  /\ \A d \in Decls : d.names # <<>> /\ (d.form # "multi" => Len(d.names) = 1)
  /\ MaxDecls \in Nat /\ MaxDepth \in Nat \ {0}

VARIABLES
  imports,   \* the import statements of each directory, never changed
  text,      \* the declarations of each directory, as far as they have been chosen
  done,      \* the directories that have been compiled
  stack,     \* the calls of compilePackage, the innermost last
  packages,  \* c.packages: the variables and types of each package
  current,   \* c.currentPackageName
  scope,     \* c.contextBlockVariables[0], the scope below those of functions
  context,   \* c.contextBlock: a block of global-init, or NoBlock
  initFunc,  \* the blocks of c.initGlobalsFunc
  heap,      \* the struct types with IsHeapAllocated
  defs,      \* everything that was defined, in order
  runs,      \* number of calls of Compile
  status     \* "running", "compiled", "built", "failed", or "overflow" of the Go stack

source   == <<imports, text, done>>
compiler == <<packages, current, scope, context, initFunc, heap, defs, runs>>
vars     == <<source, stack, compiler, status>>

NoBlock == 0
Entry   == 1  \* Blocks[0] of global-init

\* A type is its place in `defs', a pointer with IsNonAllocDereference, or anything else.
Pointer == -1
Plain   == 0

\* A name is bound to a place in `defs', or to a parameter of the function it is in.
Param == 0

\* A call of compilePackage: the import statements and the calls for the present one
\* that are left, and the next declaration, 0 while the imports are not done.
Frame(dir, path) ==
  [dir |-> dir, path |-> path, todo |-> imports[dir], calls |-> <<>>, at |-> 0]

Block(insts, term) == [insts |-> insts, term |-> term]

NewPkg == [vars |-> <<>>, types |-> <<>>]

Top == Last(stack)

Replaced(f) == [stack EXCEPT ![Len(stack)] = f]

\* The function f with names[1], names[2], .. mapped to n, n + 1, ..
Defining(f, names, n) ==
  [x \in DOMAIN f \cup ToSet(names) |->
     IF x \in ToSet(names) THEN n - 1 + CHOOSE i \in DOMAIN names : names[i] = x
     ELSE f[x]]

\* An error, or a panic that Compile recovers from: Build returns it.
Fail == status' = "failed" /\ UNCHANGED <<source, stack, compiler>>

-----------------------------------------------------------------------------
(* compilePackage *)

Importing == status = "running" /\ Top.at = 0

\* Variant: an import that is not found is looked for again.
NotFoundRetried == UNCHANGED vars

\* "Unable to import"
NotFound == Fail

Calls(p) ==
  IF p = External THEN <<>>
  ELSE [i \in DOMAIN Found[Top.dir][p] |-> [dir |-> Found[Top.dir][p][i], path |-> p]]

\* The next import statement.  Every directory of searchPaths that exists is loaded.
Import ==
  /\ Importing /\ Top.calls = <<>> /\ Top.todo # <<>>
  /\ LET p == Head(Top.todo)
     IN  IF p # External /\ Calls(p) = <<>>
           THEN NotFound
           ELSE /\ stack' = Replaced([Top EXCEPT !.todo = Tail(@), !.calls = Calls(p)])
                /\ UNCHANGED <<source, compiler, status>>

\* The recursive call.
Load ==
  /\ Importing /\ Top.calls # <<>>
  /\ IF Len(stack) = MaxDepth
       THEN status' = "overflow" /\ UNCHANGED stack
       ELSE /\ LET call == Head(Top.calls)
               IN  stack' = Append(Replaced([Top EXCEPT !.calls = Tail(@)]),
                                   Frame(call.dir, call.path))
            /\ UNCHANGED status
  /\ UNCHANGED <<source, compiler>>

\* Variant: the directories of the last import statement are compiled later.
ImportsScanned(f) == f.todo = <<>>

ImportsDone(f) == f.todo = <<>> /\ f.calls = <<>>

\* Variant: the package that was started first stays the current one.
CurrentOnce(p) == IF current = Own THEN p ELSE current

CurrentName(p) == p

\* Compile, before its loop.  contextBlock is not touched.
StartCompile ==
  /\ Importing /\ ImportsDone(Top)
  /\ stack' = Replaced([Top EXCEPT !.at = 1])
  /\ packages' = [p \in DOMAIN packages \cup {Top.path} |->
                    IF p = Top.path THEN NewPkg ELSE packages[p]]
  /\ current' = CurrentName(Top.path)
  /\ runs' = runs + 1
  /\ UNCHANGED <<source, scope, context, initFunc, heap, defs, status>>

Compiling == status = "running" /\ Top.at > 0

\* The return of compilePackage, to the call that imports it or to Build.
EndCompile ==
  /\ Compiling /\ Top.at > Len(text[Top.dir])
  /\ done' = done \cup {Top.dir}
  /\ stack' = Front(stack)
  /\ status' = IF Len(stack) = 1 THEN "compiled" ELSE status
  /\ UNCHANGED <<imports, text, compiler>>

-----------------------------------------------------------------------------
(* Lookup *)

Owner(ref) == IF ref.pkg = Own THEN current ELSE ref.pkg

\* "Can't use .. from outside of .."
Hidden(ref) == ref.pkg # Own /\ ref.name \in Private

\* compileNameNode in package tables pk: the value, in a set that is empty when the
\* compiler panics.  Scopes are searched first, whatever the package of the name.
Lookup(pk, params, ref) ==
  LET table == pk[Owner(ref)].vars
  IN  IF Owner(ref) \notin DOMAIN pk THEN {}
      ELSE IF ref.name \in params THEN {Param}
      ELSE IF ref.name \in DOMAIN scope THEN {scope[ref.name]}
      ELSE IF Hidden(ref) \/ ref.name \notin DOMAIN table THEN {}
      ELSE {table[ref.name]}

\* parserTypeToType
LookupType(type) ==
  IF type = Own THEN {Plain}
  ELSE IF Owner(type) \notin DOMAIN packages \/ Hidden(type) THEN {}
  ELSE LET table == packages[Owner(type)].types
       IN  {table[x] : x \in {type.name} \cap DOMAIN table}

Bound(pk, params, uses) ==
  {b \in uses \X (0 .. Len(defs) + 1) : b[2] \in Lookup(pk, params, b[1])}

\* What several variables are given the results of has to be a function; those of the
\* programs have as many results as it takes.
Resolved(pk, params, d) ==
  /\ \A r \in d.uses : Lookup(pk, params, r) # {}
  /\ d.form = "multi" =>
       \A b \in Bound(pk, params, d.uses) : b[2] \in DOMAIN defs /\ defs[b[2]].kind = "func"
  /\ LookupType(d.type) # {}

TypeOf(type) == CHOOSE t \in LookupType(type) : TRUE

-----------------------------------------------------------------------------
(* What a definition records: `kind' is what the name stands for in the emitted code.
   A "global" lives in the module; a "local" is an instruction of global-init, which
   other functions cannot use.  `bound' are the names used, `reads' the variables that
   are read when it is run, those that the functions it calls read included.  The last
   two, `run' and `dir' are for the properties. *)

Reads(bound) ==
  LET used == {b[2] : b \in bound} \cap DOMAIN defs
  IN  {v \in used : defs[v].kind \in {"global", "local"}}
        \cup UNION {defs[v].reads : v \in {u \in used : defs[u].kind \in {"func", "init", "main"}}}

Def(kind, form, name, type, bound, params) ==
  [kind |-> kind, form |-> form, name |-> name, type |-> type, params |-> params,
   bound |-> bound, reads |-> Reads(bound),
   path |-> current, dir |-> Top.dir, run |-> runs]

Next1 == Len(defs) + 1

DefinePkgVar(names) ==
  [packages EXCEPT ![current].vars = Defining(@, names, Next1)]

DefinePkgType(names) ==
  [packages EXCEPT ![current].types = Defining(@, names, Next1)]

SetVar(names) == Defining(scope, names, Next1)

\* Variant: off by one.
EmitNext(blocks, b, names) ==
  [blocks EXCEPT ![b].insts = @ \o [i \in DOMAIN names |-> Next1 + i]]

\* The instructions for the definitions of these names at the end of block b.
Emit(blocks, b, names) ==
  [blocks EXCEPT ![b].insts = @ \o [i \in DOMAIN names |-> Next1 - 1 + i]]

-----------------------------------------------------------------------------
(* Declarations *)

\* type T struct{..}
DefineType(d) ==
  /\ d.form = "type"
  /\ packages' = DefinePkgType(d.names)
  /\ defs' = Append(defs, Def("type", d.form, d.names[1], Plain, {}, {}))
  /\ UNCHANGED <<current, scope, context, initFunc, heap, runs, status>>

\* const x = 1, at package level too: into the innermost open scope.
AllocConst(d) ==
  /\ d.form = "const"
  /\ scope' = SetVar(d.names)
  /\ defs' = Append(defs, Def("const", d.form, d.names[1], Plain, {}, {}))
  /\ UNCHANGED <<packages, current, context, initFunc, heap, runs, status>>

\* var x T
AllocZero(d) ==
  /\ d.form = "zero" /\ Resolved(packages, {}, d)
  /\ IF context = NoBlock
       THEN /\ packages' = DefinePkgVar(d.names)
            /\ initFunc' = Emit(initFunc, Entry, d.names)
            /\ UNCHANGED scope
       ELSE /\ scope' = SetVar(d.names)
            /\ initFunc' = Emit(initFunc, context, d.names)
            /\ UNCHANGED packages
  /\ defs' = Append(defs, Def(IF context = NoBlock THEN "global" ELSE "local", d.form,
                              d.names[1], TypeOf(d.type), {}, {}))
  /\ UNCHANGED <<current, context, heap, runs, status>>

\* "Non-allocation needed" pointers and structs, and the results of a call.
ReturnsEarly(form, type) == form = "multi" \/ type = Pointer \/ type \in heap

\* The type of the value on the right-hand side.
ValueType(d, bound) ==
  CASE d.form = "pointer" -> Pointer
    [] d.form = "struct"  -> TypeOf(d.type)
    [] OTHER -> IF \E b \in bound : bound = {b} /\ b[2] \in DOMAIN defs
                  THEN defs[(CHOOSE b \in bound : TRUE)[2]].type ELSE Plain

\* Variant: the context block is left as it is.
ResetNever(allocPackageVar, b) == b

\* "The context block is reset below after the initialization is done."
Reset(allocPackageVar, b) == IF allocPackageVar THEN NoBlock ELSE b

\* var x = ..  An index expression checks its index, in blocks of their own: the
\* present block ends with a branch, and the value is in the last of them.
AllocValue(d) ==
  /\ d.form \in {"value", "index", "pointer", "struct", "multi"}
  /\ Resolved(packages, {}, d)
  /\ LET first  == IF context = NoBlock THEN Entry ELSE context
         bound  == Bound(packages, {}, d.uses)
         type   == ValueType(d, bound)
         early  == ReturnsEarly(d.form, type)
         blocks == IF d.form = "index"
                     THEN Append([initFunc EXCEPT ![first].term = "br"], Block(<<>>, "none"))
                     ELSE initFunc
         last   == IF d.form = "index" THEN Len(blocks) ELSE first
         allocPackageVar == context = NoBlock /\ ~early
     IN  /\ initFunc' = Emit(blocks, last, d.names)
         /\ context' = Reset(allocPackageVar, last)
         /\ IF allocPackageVar
              THEN packages' = DefinePkgVar(d.names) /\ UNCHANGED scope
              ELSE scope' = SetVar(d.names) /\ UNCHANGED packages
         /\ defs' = defs \o [i \in DOMAIN d.names |->
              Def(IF allocPackageVar THEN "global" ELSE "local", d.form, d.names[i],
                  IF early /\ d.form = "multi" THEN Plain ELSE type, bound, {})]
  /\ UNCHANGED <<current, heap, runs, status>>

\* Variant: in front of the initialisers.
CallFirst(d) == [initFunc EXCEPT ![Entry].insts = <<Next1>> \o @]

\* "Setup call to init from the global init func"
CallLast(d) == Emit(initFunc, Entry, d.names)

FuncKind(name) ==
  IF current = Main /\ name = Main THEN "main"
  ELSE IF name = InitName THEN "init" ELSE "func"

\* func f(params) {..}: the name is defined before the body is compiled, the body in a
\* scope of its own, contextBlock is saved and restored.
DefineFunc(d) ==
  LET pk == DefinePkgVar(d.names)
  IN  /\ d.form = "func" /\ Resolved(pk, d.params, d)
      /\ packages' = pk
      /\ initFunc' = IF FuncKind(d.names[1]) = "init" THEN CallLast(d) ELSE initFunc
      /\ heap' = heap \cup (LookupType(d.type) \ {Plain})
      /\ defs' = Append(defs, Def(FuncKind(d.names[1]), d.form, d.names[1], Plain,
                                  Bound(pk, d.params, d.uses), d.params))
      /\ UNCHANGED <<current, scope, context, runs, status>>

\* A name or a type that is not found is a panic, and so is a call of a variable.
Unresolved(d) ==
  /\ d.form \notin {"type", "const"}
  /\ ~ IF d.form = "func" THEN Resolved(DefinePkgVar(d.names), d.params, d)
                          ELSE Resolved(packages, {}, d)
  /\ status' = "failed" /\ UNCHANGED compiler

\* The programs are Go: a package declares a name once, and uses what it imports.
Legal(d) ==
  LET declared == UNION {ToSet(text[Top.dir][i].names) : i \in DOMAIN text[Top.dir]}
  IN  /\ ToSet(d.names) \cap declared \subseteq {InitName}
      /\ \A r \in d.uses \cup ({d.type} \ {Own}) :
           r.pkg \in {Own} \cup ToSet(imports[Top.dir])

Chosen == MapThenSumSet(LAMBDA d : Len(text[d]), Dirs)

\* The next declaration of the package: as it was when it was compiled before, or
\* any if it has not been.
Written(d) ==
  \/ Top.at <= Len(text[Top.dir]) /\ d = text[Top.dir][Top.at] /\ UNCHANGED text
  \/ /\ Top.at > Len(text[Top.dir]) /\ Top.dir \notin done /\ Chosen < MaxDecls
     /\ Legal(d)
     /\ text' = [text EXCEPT ![Top.dir] = Append(@, d)]

Declare(d) ==
  /\ Compiling /\ Written(d)
  /\ \/ DefineType(d) \/ AllocConst(d) \/ AllocZero(d) \/ AllocValue(d)
     \/ DefineFunc(d) \/ Unresolved(d)
  /\ stack' = Replaced([Top EXCEPT !.at = @ + 1])
  /\ UNCHANGED <<imports, done>>

\* The two are strings: "A" with "B_P" is "A_B" with "P".
Joined(path, name) == path \o "_" \o name

\* Variant: without the package.
SymbolBare(n) == defs[n].name

\* What two functions of the module must not have in common.
Symbol(n) == Joined(defs[n].path, defs[n].name)

ModuleFuncs == {n \in DOMAIN defs : defs[n].kind = "func"}

SymbolsUnique == \A m, n \in ModuleFuncs : Symbol(m) = Symbol(n) => m = n

\* Struct types are named in the module without their package.
TypeNamesUnique ==
  \A m, n \in {k \in DOMAIN defs : defs[k].kind = "type"} :
    defs[m].name = defs[n].name => m = n

\* GetIR and clang, which refuse a block without an end and a name defined twice.
Assemble ==
  /\ status = "compiled"
  /\ status' = IF /\ \A b \in DOMAIN initFunc : initFunc[b].term # "none"
                  /\ SymbolsUnique /\ TypeNamesUnique
                 THEN "built" ELSE "failed"
  /\ UNCHANGED <<source, stack, compiler>>

-----------------------------------------------------------------------------
(* The specification *)

Extern(name) ==
  [kind |-> "extern", form |-> "func", name |-> name, type |-> Plain, params |-> {},
   bound |-> {}, reads |-> {}, path |-> External, dir |-> Root, run |-> 0]

Init ==
  LET externals == SetToSeq(ExternalVars)
  IN  /\ imports \in Layouts
      /\ text = [d \in Dirs |-> <<>>]
      /\ done = {}
      /\ stack = <<Frame(Root, Main)>>
      /\ packages = [p \in {External} |-> [NewPkg EXCEPT !.vars = Defining(<<>>, externals, 1)]]
      /\ current = Own
      /\ scope = <<>>
      /\ context = NoBlock
      /\ initFunc = <<Block(<<>>, "ret")>>
      /\ heap = {}
      /\ defs = [i \in DOMAIN externals |-> Extern(externals[i])]
      /\ runs = 0
      /\ status = "running"

Next ==
  \/ Import \/ Load \/ StartCompile \/ EndCompile \/ Assemble
  \/ \E d \in Decls : Declare(d)

\* A compiler runs until it is done.
Fairness == WF_vars(Next)

Spec == Init /\ [][Next]_vars /\ Fairness

-----------------------------------------------------------------------------
(* Properties *)

Places == 0 .. Len(defs)

IsTable(f) == f \in [DOMAIN f -> 1 .. Len(defs)] /\ DOMAIN f \subseteq Idents

FrameType ==
  [dir : Dirs, path : Paths, todo : Seq(Paths),
   calls : Seq([dir : Dirs, path : Paths]), at : Nat]

DefType ==
  [kind : {"type", "global", "local", "const", "func", "init", "main", "extern"},
   form : Forms, name : Idents, type : {Pointer} \cup Places, params : SUBSET Idents,
   bound : SUBSET (Refs \X Places), reads : SUBSET Places,
   path : Paths, dir : Dirs, run : Nat]

\* The fields of the compiler have their types: what they refer to exists.
TypeOK ==
  /\ imports \in Layouts
  /\ text \in [Dirs -> Seq(Decls)]
  /\ done \subseteq Dirs
  /\ stack \in Seq(FrameType)
  /\ DOMAIN packages \subseteq Paths
  /\ \A p \in DOMAIN packages : IsTable(packages[p].vars) /\ IsTable(packages[p].types)
  /\ current \in (DOMAIN packages \cap Paths) \cup {Own}
  /\ IsTable(scope)
  /\ context \in {NoBlock} \cup DOMAIN initFunc
  /\ initFunc \in Seq([insts : Seq(1 .. Len(defs)), term : {"ret", "br", "none"}])
  /\ heap \subseteq 1 .. Len(defs)
  /\ defs \in Seq(DefType)
  /\ runs \in Nat
  /\ status \in {"running", "compiled", "built", "failed", "overflow"}

\* The directories that some import statements of directory d lead to, and that all do.
LedTo(d, statements) == UNION {ToSet(Found[d][p]) : p \in ToSet(statements) \ {External}}

Deps(d) == LedTo(d, imports[d])

\* The recursion of compilePackage puts packages in the order of their imports: when
\* anything of a package is compiled, every declaration of every package it imports has
\* been, so that global-init and the bodies of functions find it (build.go:141, 159).
ImportsFirst ==
  \A n \in {k \in DOMAIN defs : defs[k].kind # "extern"} : \A e \in Deps(defs[n].dir) :
    /\ e \in done
    /\ \A i \in DOMAIN text[e] : \E m \in 1 .. n - 1 :
         defs[m].dir = e /\ defs[m].name = text[e][i].names[1]

\* The directories that import statement i of directory d leads to.
Targets(d, i) == IF imports[d][i] = External THEN <<>> ELSE Found[d][imports[d][i]]

\* Nothing else leads to a directory that an import leads to, and no other import has the
\* same path.
Unshared ==
  \A d \in Dirs : \A i \in DOMAIN imports[d] : \A m \in DOMAIN Targets(d, i) :
    /\ imports[d][i] # Main /\ Targets(d, i)[m] # Root
    /\ \A e \in Dirs : \A j \in DOMAIN imports[e] : \A n \in DOMAIN Targets(e, j) :
         imports[d][i] = imports[e][j] \/ Targets(d, i)[m] = Targets(e, j)[n]
           => <<d, i, m>> = <<e, j, n>>

\* Two functions whose packages and names join alike, without being the same.
Ambiguous(m, n) ==
  /\ <<defs[m].path, defs[m].name>> # <<defs[n].path, defs[n].name>>
  /\ Joined(defs[m].path, defs[m].name) = Joined(defs[n].path, defs[n].name)

\* While no package is imported from two places, no function is compiled twice, and two
\* functions have the same symbol only when an underscore in a name makes that of one
\* read as that of the other (func.go:97-101, 132).
OneSymbolEach ==
  Unshared => \A m, n \in ModuleFuncs : Symbol(m) = Symbol(n) => m = n \/ Ambiguous(m, n)

\* Nothing in the scopes shadows the name x in definition n: no parameter, constant or
\* leaked variable, of any package.
Unshadowed(n, x) ==
  /\ x \notin defs[n].params
  /\ \A m \in 1 .. n : defs[m].name = x => defs[m].kind \notin {"const", "local"}

\* A name that is not shadowed means what Go says: without a package, the declaration of
\* the package it is in, as compiled last; with one, an exported declaration of the
\* directory that the import statement leads to (compiler.go:266-292, package.go:30-37).
RightBinding ==
  \A n \in DOMAIN defs : \A b \in defs[n].bound : Unshadowed(n, b[1].name) =>
    LET r == b[1]
        v == defs[b[2]]
    IN  /\ b[2] # Param /\ v.name = r.name /\ v.kind # "type"
        /\ r.pkg = Own => v.run = defs[n].run
        /\ r.pkg # Own =>
             /\ r.name \notin Private
             /\ v.path = r.pkg /\ v.run # defs[n].run
             /\ (Unshared /\ r.pkg # External) => v.dir \in ToSet(Found[defs[n].dir][r.pkg])

\* Names of another package that begin with a lower-case letter cannot be used
\* (package.go:31; testdata/packages-private/main.go:9).
PrivateStaysPrivate ==
  \A n \in DOMAIN defs : \A b \in defs[n].bound :
    b[1].pkg # Own => b[1].name \notin Private

\* Where the reset that alloc.go:75-76 promises is not reached: contextBlock is left
\* behind, and a package variable becomes an instruction of global-init, only at or after
\* an allocation that returned early, of whatever package (alloc.go:77-122).
OnlyEarlyReturnsLeak ==
  LET Leak(n) == defs[n].kind = "local"
                   /\ (defs[n].form = "multi" \/ defs[n].type = Pointer \/ defs[n].type \in heap)
  IN  /\ context # NoBlock => \E n \in DOMAIN defs : Leak(n)
      /\ \A n \in DOMAIN defs : defs[n].kind = "local" => \E m \in 1 .. n : Leak(m)

\* While global-init is one block, no variable is read before it is initialised: not by
\* the initialisers and init functions of any package, not by the functions they call,
\* and not by main, which calls global-init first (alloc.go:140, func.go:130,
\* compiler.go:210).
InitBeforeUse ==
  LET insts == initFunc[Entry].insts
  IN  Len(initFunc) = 1 =>
        /\ \A i \in DOMAIN insts : \A v \in defs[insts[i]].reads :
             \E j \in 1 .. i - 1 : insts[j] = v
        /\ \A n \in DOMAIN defs : defs[n].kind = "main" =>
             defs[n].reads \subseteq ToSet(insts)

\* No directory imports itself, through others or not.
Acyclic == \A S \in SUBSET Dirs \ {{}} : \E d \in S : Deps(d) \cap S = {}

\* Without an import cycle every compilation ends, with a program or an error, and the
\* Go stack is no deeper than there are directories (build.go:73-163).
AcyclicEnds == Acyclic => <>(status \in {"built", "failed"})

=============================================================================
