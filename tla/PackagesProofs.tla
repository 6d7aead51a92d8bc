--------------------------- MODULE PackagesProofs ---------------------------
(***************************************************************************)
(* What is proved of Packages, for every set of directories, every way     *)
(* imports lead from one to another, and packages of any size: a package   *)
(* is compiled after its imports; the types of the compiler's tables; that *)
(* package variables become locals only after an early return, and that    *)
(* global-init initialises variables before they are read; that a name     *)
(* nothing shadows is bound to the declaration that Go binds it to, and    *)
(* that a package that is imported once is compiled once.                  *)
(***************************************************************************)
EXTENDS Packages, SequenceTheorems, FiniteSetTheorems, TLAPS

-----------------------------------------------------------------------------
(* The invariant *)

Typed ==
  /\ imports \in [Dirs -> Seq(Paths)]
  /\ text \in [Dirs -> Seq(Decl)]
  /\ done \subseteq Dirs
  /\ stack \in Seq(FrameType)
  /\ defs \in Seq(ToSet(defs))
  /\ status = "running" => stack # <<>>

\* The directories that call f of compilePackage has yet to load.
Waiting(f) == {c.dir : c \in ToSet(f.calls)} \cup LedTo(f.dir, f.todo)

\* The one it is loading, if it is call i of s.
Calling(s, i) == IF i < Len(s) THEN {s[i + 1].dir} ELSE {}

\* Every import of a package that is being loaded is done, or will be.
Owed ==
  \A i \in DOMAIN stack :
    Deps(stack[i].dir) \subseteq done \cup Waiting(stack[i]) \cup Calling(stack, i)

\* A package is compiled when its imports are done, and not while it is loading one.
Started ==
  \A i \in DOMAIN stack : stack[i].at > 0 => i = Len(stack) /\ ImportsDone(stack[i])

\* One of the first n definitions is that of declaration d of directory dir.
Defined(dir, d, n) == \E m \in 1 .. n : defs[m].dir = dir /\ defs[m].name = d.names[1]

\* What was compiled of the present package has been defined.
InProgress ==
  status = "running" =>
    \A k \in DOMAIN text[Top.dir] : k < Top.at => Defined(Top.dir, text[Top.dir][k], Len(defs))

\* So have the packages that are done, and what they import is done.
DoneDefined ==
  \A d \in done :
    /\ Deps(d) \subseteq done
    /\ \A k \in DOMAIN text[d] : Defined(d, text[d][k], Len(defs))

IInv == Typed /\ Owed /\ Started /\ InProgress /\ DoneDefined /\ ImportsFirst

-----------------------------------------------------------------------------
(* Sequences *)

\* A function on 1 .. n is a sequence.
LEMMA IsSequence == ASSUME NEW S, NEW n \in Nat, NEW f \in [1 .. n -> S] PROVE f \in Seq(S)
  BY SeqDef

\* One sequence after another.
LEMMA Concatenation ==
  ASSUME NEW s, NEW t, s \in Seq(ToSet(s)), t \in Seq(ToSet(t))
  PROVE  /\ s \o t \in Seq(ToSet(s \o t))
         /\ Len(s \o t) = Len(s) + Len(t)
         /\ \A i \in 1 .. Len(s) : (s \o t)[i] = s[i]
         /\ \A i \in 1 .. Len(t) : (s \o t)[Len(s) + i] = t[i]
PROOF
  <1> DEFINE S == ToSet(s) \cup ToSet(t)
  <1>1. s \in Seq(S) /\ t \in Seq(S)
    OBVIOUS
  <1>2. /\ s \o t \in Seq(S)
        /\ Len(s \o t) = Len(s) + Len(t)
        /\ \A i \in 1 .. Len(s) : (s \o t)[i] = s[i]
        /\ \A i \in 1 .. Len(t) : (s \o t)[Len(s) + i] = t[i]
    BY <1>1
  <1> HIDE DEF S
  <1>3. s \o t \in Seq(ToSet(s \o t))
    <2> DEFINE u == s \o t
    <2>1. Len(u) \in Nat /\ DOMAIN u = 1 .. Len(u) /\ u \in [1 .. Len(u) -> S]
      BY <1>2, LenProperties
    <2>2. u \in [1 .. Len(u) -> ToSet(u)]
      BY <2>1 DEF ToSet
    <2> QED
      BY <2>1, <2>2, SeqDef
  <1> QED
    BY <1>2, <1>3

\* A sequence with one more element is one followed by a sequence of one.
LEMMA AppendIsConcatenation ==
  ASSUME NEW s, NEW x, s \in Seq(ToSet(s))
  PROVE  Append(s, x) = s \o <<x>>
PROOF
  <1> DEFINE S == ToSet(s) \cup {x}
  <1>1. s \in Seq(S) /\ x \in S
    OBVIOUS
  <1> HIDE DEF S
  <1> QED
    BY <1>1

\* Top is the last call.
LEMMA TopType ==
  ASSUME Typed, status = "running"
  PROVE  /\ Len(stack) \in Nat \ {0} /\ Len(stack) \in DOMAIN stack
         /\ Top = stack[Len(stack)] /\ Top \in FrameType
  BY DEF Typed, Top, Last

\* The stack with another last call.
LEMMA ReplaceTop ==
  ASSUME Typed, status = "running", NEW f \in FrameType
  PROVE  /\ Replaced(f) \in Seq(FrameType)
         /\ Len(Replaced(f)) = Len(stack) /\ DOMAIN Replaced(f) = DOMAIN stack
         /\ \A i \in 1 .. Len(stack) - 1 : Replaced(f)[i] = stack[i]
         /\ Replaced(f)[Len(stack)] = f
         /\ Replaced(f) # <<>>
  BY TopType DEF Typed, Replaced

-----------------------------------------------------------------------------
(* Loading *)

\* A step that keeps the program and the definitions, and every package that is done.
LEMMA KeepsDefinitions ==
  ASSUME IInv, imports' = imports, text' = text, defs' = defs, done' = done
  PROVE  DoneDefined' /\ ImportsFirst'
  BY DEF IInv, DoneDefined, ImportsFirst, Defined, Deps

\* A step that ends the compilation.
LEMMA Stops ==
  ASSUME IInv, status' # "running", UNCHANGED <<imports, text, done, stack, defs>>
  PROVE  IInv'
PROOF
  <1>1. DoneDefined' /\ ImportsFirst'
    BY KeepsDefinitions
  <1> QED
    BY <1>1 DEF IInv, Typed, Owed, Started, InProgress, Deps

\* Import and StartCompile: the last call goes on, and owes no more than it did.
LEMMA GoesOn ==
  ASSUME IInv, status = "running", NEW f \in FrameType,
         stack' = Replaced(f), status' = status,
         imports' = imports, text' = text, defs' = defs, done' = done,
         Top.at = 0, f.dir = Top.dir, f.at \in {0, 1},
         f.at > 0 => ImportsDone(f),
         Waiting(Top) \subseteq Waiting(f)
  PROVE  IInv'
PROOF
  <1>1. DoneDefined' /\ ImportsFirst'
    BY KeepsDefinitions
  <1>2. /\ stack' \in Seq(FrameType) /\ Len(stack') = Len(stack) /\ DOMAIN stack' = DOMAIN stack
        /\ \A i \in 1 .. Len(stack) - 1 : stack'[i] = stack[i]
        /\ stack'[Len(stack)] = f /\ stack' # <<>>
    BY ReplaceTop DEF IInv
  <1>3. /\ Len(stack) \in Nat \ {0} /\ DOMAIN stack = 1 .. Len(stack)
        /\ Top = stack[Len(stack)] /\ Top \in FrameType
    BY TopType DEF IInv, Typed
  <1>4. Typed'
    BY <1>2 DEF IInv, Typed
  <1>5. Owed'
    <2> SUFFICES ASSUME NEW i \in DOMAIN stack
                 PROVE  LedTo(stack'[i].dir, imports[stack'[i].dir]) \subseteq
                          done \cup Waiting(stack'[i]) \cup Calling(stack', i)
      BY <1>2 DEF Owed, Deps
    <2>1. stack'[i].dir = stack[i].dir
      BY <1>2, <1>3
    <2>2. LedTo(stack[i].dir, imports[stack[i].dir]) \subseteq
            done \cup Waiting(stack[i]) \cup Calling(stack, i)
      BY DEF IInv, Owed, Deps
    <2>3. Calling(stack', i) = Calling(stack, i)
      <3>1. CASE i < Len(stack)
        <4>1. i + 1 \in DOMAIN stack /\ stack'[i + 1].dir = stack[i + 1].dir
          BY <1>2, <1>3, <3>1
        <4> QED
          BY <1>2, <3>1, <4>1 DEF Calling
      <3>2. CASE ~(i < Len(stack))
        BY <1>2, <3>2 DEF Calling
      <3> QED
        BY <3>1, <3>2
    <2>4. Waiting(stack[i]) \subseteq Waiting(stack'[i])
      <3>1. CASE i = Len(stack)
        BY <1>2, <1>3, <3>1
      <3>2. CASE i # Len(stack)
        BY <1>2, <1>3, <3>2
      <3> QED
        BY <3>1, <3>2
    <2> QED
      BY <2>1, <2>2, <2>3, <2>4
  <1>6. Started'
    BY <1>2, <1>3 DEF IInv, Started, ImportsDone
  <1>7. InProgress'
    <2>1. Top' = f
      BY <1>2 DEF Top, Last
    <2>2. \A k \in DOMAIN text[f.dir] : ~(k < f.at)
      <3>1. text[f.dir] \in Seq(Decl)
        BY DEF IInv, Typed, FrameType
      <3> QED
        BY <3>1
    <2> QED
      BY <2>1, <2>2 DEF InProgress
  <1> QED
    BY <1>1, <1>4, <1>5, <1>6, <1>7 DEF IInv

\* The next import statement: its directories are owed as calls.
LEMMA ImportStep == ASSUME IInv, Import PROVE IInv'
PROOF
  <1> DEFINE p == Head(Top.todo)
             f == [Top EXCEPT !.todo = Tail(@), !.calls = Calls(p)]
  <1>1. status = "running" /\ Top.at = 0 /\ Top.calls = <<>> /\ Top.todo # <<>>
    BY DEF Import, Importing
  <1>2. Top \in FrameType /\ Typed
    BY <1>1, TopType DEF IInv
  <1>3. p \in Paths /\ Tail(Top.todo) \in Seq(Paths)
    BY <1>1, <1>2 DEF FrameType
  <1>4. Found[Top.dir][p] \in Seq(Dirs)
    BY <1>2, <1>3, PackagesAssumption DEF FrameType
  <1>5. Calls(p) \in Seq([dir : Dirs, path : Paths])
    <2> DEFINE C == [dir : Dirs, path : Paths]
               F == Found[Top.dir][p]
    <2>1. Len(F) \in Nat /\ DOMAIN F = 1 .. Len(F) /\ \A i \in 1 .. Len(F) : F[i] \in Dirs
      BY <1>4, SMTT(20)
    <2>2. CASE p = External
      BY <2>2 DEF Calls
    <2>3. CASE p # External
      <3>1. Calls(p) = [i \in 1 .. Len(F) |-> [dir |-> F[i], path |-> p]]
        BY <2>1, <2>3 DEF Calls
      <3>2. [i \in 1 .. Len(F) |-> [dir |-> F[i], path |-> p]] \in [1 .. Len(F) -> C]
        BY <1>3, <2>1
      <3> QED
        <4> HIDE DEF C, F
        <4>1. Calls(p) \in Seq(C)
          BY <2>1, <3>1, <3>2, IsSequence
        <4> QED
          BY <4>1 DEF C
    <2> QED
      BY <2>2, <2>3
  <1>6. f \in FrameType
    BY <1>2, <1>3, <1>5 DEF FrameType
  <1>7. CASE NotFound
    BY <1>7, Stops DEF NotFound, Fail, source, compiler
  <1>8. CASE stack' = Replaced(f) /\ UNCHANGED <<source, compiler, status>>
    <2>1. Waiting(Top) \subseteq Waiting(f)
      <3> SUFFICES ASSUME NEW e \in Waiting(Top) PROVE e \in Waiting(f)
        OBVIOUS
      <3>1. PICK q \in ToSet(Top.todo) \ {External} : e \in ToSet(Found[Top.dir][q])
        BY <1>1 DEF Waiting, LedTo, ToSet
      <3>2. f.dir = Top.dir /\ f.todo = Tail(Top.todo) /\ f.calls = Calls(p)
        BY <1>2 DEF FrameType
      <3>3. CASE q = p
        <4>1. PICK i \in DOMAIN Found[Top.dir][p] : e = Found[Top.dir][p][i]
          BY <3>1, <3>3, SMTT(20) DEF ToSet
        <4>2. i \in DOMAIN Calls(p) /\ Calls(p)[i].dir = e
          BY <3>1, <3>3, <4>1 DEF Calls
        <4> QED
          BY <3>2, <4>2 DEF Waiting, ToSet
      <3>4. CASE q # p
        <4>1. q \in ToSet(Tail(Top.todo))
          <5>1. PICK i \in DOMAIN Top.todo : q = Top.todo[i]
            BY <3>1 DEF ToSet
          <5>2. Top.todo \in Seq(Paths) /\ i \in 1 .. Len(Top.todo) /\ i # 1
            BY <1>2, <3>4, <5>1 DEF FrameType
          <5>3. i - 1 \in DOMAIN Tail(Top.todo) /\ Tail(Top.todo)[i - 1] = q
            BY <1>1, <5>1, <5>2
          <5> QED
            BY <5>3 DEF ToSet
        <4> QED
          BY <3>1, <3>2, <4>1 DEF Waiting, LedTo
      <3> QED
        BY <3>3, <3>4
    <2>2. f.dir = Top.dir /\ f.at = 0
      BY <1>1, <1>2 DEF FrameType
    <2>3. imports' = imports /\ text' = text /\ done' = done /\ defs' = defs /\ status' = status
      BY <1>8 DEF source, compiler
    <2> HIDE DEF f
    <2> QED
      BY <1>1, <1>6, <1>8, <2>1, <2>2, <2>3, GoesOn
  <1> QED
    BY <1>7, <1>8 DEF Import

\* The recursive call: what the call before it owes is now being loaded.
LEMMA LoadStep == ASSUME IInv, Load PROVE IInv'
PROOF
  <1> DEFINE call == Head(Top.calls)
             g == [Top EXCEPT !.calls = Tail(@)]
             new == Frame(call.dir, call.path)
             n == Len(stack)
  <1>1. /\ status = "running" /\ Top.at = 0 /\ Top.calls # <<>>
        /\ imports' = imports /\ text' = text /\ done' = done /\ defs' = defs
    BY DEF Load, Importing, source, compiler
  <1>2. CASE status' = "overflow" /\ UNCHANGED stack
    BY <1>1, <1>2, Stops
  <1>3. CASE stack' = Append(Replaced(g), new) /\ UNCHANGED status
    <2>1. /\ n = Len(stack) /\ n \in Nat \ {0} /\ DOMAIN stack = 1 .. n
          /\ Top = stack[n] /\ Top \in FrameType
      BY <1>1, TopType DEF IInv, Typed
    <2>2. /\ call \in [dir : Dirs, path : Paths]
          /\ Tail(Top.calls) \in Seq([dir : Dirs, path : Paths])
      <3> DEFINE C == [dir : Dirs, path : Paths]
      <3>1. Top.calls \in Seq(C)
        BY <2>1 DEF FrameType
      <3> HIDE DEF C
      <3>2. Head(Top.calls) \in C /\ Tail(Top.calls) \in Seq(C)
        BY <1>1, <3>1
      <3> QED
        BY <3>2 DEF C
    <2> HIDE DEF call
    <2>3. /\ g \in FrameType /\ g.dir = Top.dir /\ g.todo = Top.todo
          /\ g.calls = Tail(Top.calls) /\ g.at = 0
      BY <1>1, <2>1, <2>2 DEF FrameType
    <2>4. /\ new \in FrameType /\ new.dir = call.dir /\ new.todo = imports[call.dir]
          /\ new.calls = <<>> /\ new.at = 0
      <3>1. imports[call.dir] \in Seq(Paths) /\ call.dir \in Dirs /\ call.path \in Paths
        BY <2>2 DEF IInv, Typed
      <3>2. <<>> \in Seq([dir : Dirs, path : Paths])
        OBVIOUS
      <3> QED
        BY <3>1, <3>2 DEF FrameType, Frame
    <2> HIDE DEF g, new
    <2> DEFINE s == Replaced(g)
    <2>5. /\ s \in Seq(FrameType) /\ Len(s) = n
          /\ \A i \in 1 .. n - 1 : s[i] = stack[i]
          /\ s[n] = g /\ stack' = Append(s, new)
      BY <1>1, <1>3, <2>3, ReplaceTop DEF IInv
    <2> HIDE DEF s, n
    <2>6. /\ stack' \in Seq(FrameType) /\ Len(stack') = n + 1 /\ DOMAIN stack' = 1 .. n + 1
          /\ \A i \in 1 .. n - 1 : stack'[i] = stack[i]
          /\ stack'[n] = g /\ stack'[n + 1] = new
      BY <2>1, <2>4, <2>5, AppendProperties, LenProperties
    <2>7. Typed'
      BY <1>1, <2>1, <2>6 DEF IInv, Typed
    <2>8. Owed'
      <3> SUFFICES ASSUME NEW i \in 1 .. n + 1
                   PROVE  Deps(stack'[i].dir) \subseteq
                            done \cup Waiting(stack'[i]) \cup Calling(stack', i)
        BY <1>1, <2>6 DEF Owed, Deps
      <3>1. CASE i = n + 1
        BY <2>4, <2>6, <3>1 DEF Deps, Waiting
      <3>2. CASE i = n
        <4>1. Deps(Top.dir) \subseteq done \cup Waiting(Top) \cup {}
          BY <2>1 DEF IInv, Owed, Calling
        <4>2. Calling(stack', n) = {call.dir}
          BY <2>1, <2>4, <2>6 DEF Calling
        <4>3. \A c \in ToSet(Top.calls) : c = call \/ c \in ToSet(Tail(Top.calls))
          <5> SUFFICES ASSUME NEW j \in DOMAIN Top.calls, j # 1
                       PROVE  Top.calls[j] \in ToSet(Tail(Top.calls))
            BY <1>1, <2>1 DEF ToSet, FrameType, call
          <5>1. j - 1 \in DOMAIN Tail(Top.calls) /\ Tail(Top.calls)[j - 1] = Top.calls[j]
            BY <1>1, <2>1 DEF FrameType
          <5> QED
            BY <5>1 DEF ToSet
        <4>4. Waiting(Top) \subseteq Waiting(g) \cup {call.dir}
          BY <2>3, <4>3 DEF Waiting
        <4> QED
          BY <2>3, <2>6, <3>2, <4>1, <4>2, <4>4
      <3>3. CASE i < n
        <4>1. i \in DOMAIN stack /\ stack'[i] = stack[i]
          BY <2>1, <2>6, <3>3
        <4>2. i + 1 \in 1 .. n /\ stack'[i + 1].dir = stack[i + 1].dir
          BY <2>1, <2>3, <2>6, <3>3
        <4>3. Calling(stack', i) = Calling(stack, i)
          BY <2>1, <2>6, <3>3, <4>2 DEF Calling
        <4> QED
          BY <4>1, <4>3 DEF IInv, Owed
      <3>4. i = n + 1 \/ i = n \/ i < n
        BY <2>1
      <3> QED
        BY <3>1, <3>2, <3>3, <3>4
    <2>9. Started'
      BY <2>1, <2>3, <2>4, <2>6 DEF IInv, Started
    <2>10. InProgress'
      <3>1. Top' = new
        BY <2>6 DEF Top, Last
      <3>2. \A k \in DOMAIN text[new.dir] : ~(k < new.at)
        <4>1. text[new.dir] \in Seq(Decl)
          BY <2>4 DEF IInv, Typed, FrameType
        <4> QED
          BY <2>4, <4>1
      <3> QED
        BY <1>1, <3>1, <3>2 DEF InProgress
    <2> QED
      BY <1>1, <2>7, <2>8, <2>9, <2>10, KeepsDefinitions DEF IInv
  <1> QED
    BY <1>2, <1>3 DEF Load

\* The imports of the package are done, and nothing is owed.
LEMMA StartStep == ASSUME IInv, StartCompile PROVE IInv'
PROOF
  <1> DEFINE f == [Top EXCEPT !.at = 1]
  <1>1. /\ status = "running" /\ Top.at = 0 /\ ImportsDone(Top) /\ stack' = Replaced(f)
        /\ imports' = imports /\ text' = text /\ done' = done /\ defs' = defs /\ status' = status
    BY DEF StartCompile, Importing, source
  <1>2. Top \in FrameType
    BY <1>1, TopType DEF IInv
  <1>3. /\ f \in FrameType /\ f.dir = Top.dir /\ f.todo = Top.todo /\ f.calls = Top.calls
        /\ f.at = 1
    BY <1>2 DEF FrameType
  <1> HIDE DEF f
  <1>4. ImportsDone(f) /\ Waiting(Top) \subseteq Waiting(f)
    BY <1>1, <1>3 DEF ImportsDone, Waiting
  <1> QED
    BY <1>1, <1>3, <1>4, GoesOn

-----------------------------------------------------------------------------
(* Compiling *)

\* What a package imports is done when it is compiled.
LEMMA DepsDone ==
  ASSUME IInv, status = "running", Top.at > 0
  PROVE  Deps(Top.dir) \subseteq done
PROOF
  <1>1. Len(stack) \in Nat \ {0} /\ Len(stack) \in DOMAIN stack /\ Top = stack[Len(stack)]
    BY TopType DEF IInv
  <1>2. ImportsDone(Top)
    BY <1>1 DEF IInv, Started
  <1>3. Waiting(Top) = {}
    BY <1>2 DEF Waiting, LedTo, ToSet, ImportsDone
  <1> QED
    BY <1>1, <1>3 DEF IInv, Owed, Calling

\* The package is done: all of it has been defined.
LEMMA EndStep == ASSUME IInv, EndCompile PROVE IInv'
PROOF
  <1> DEFINE n == Len(stack)
  <1>1. /\ status = "running" /\ Top.at > 0 /\ Top.at > Len(text[Top.dir])
        /\ done' = done \cup {Top.dir} /\ stack' = Front(stack)
        /\ status' = IF n = 1 THEN "compiled" ELSE status
        /\ imports' = imports /\ text' = text /\ defs' = defs
    BY DEF EndCompile, Compiling, compiler
  <1>2. /\ n \in Nat \ {0} /\ DOMAIN stack = 1 .. n /\ Top = stack[n] /\ Top \in FrameType
        /\ text[Top.dir] \in Seq(Decl)
    BY <1>1, TopType DEF IInv, Typed, FrameType
  <1>3. /\ stack' \in Seq(FrameType) /\ Len(stack') = n - 1 /\ DOMAIN stack' = 1 .. n - 1
        /\ \A i \in 1 .. n - 1 : stack'[i] = stack[i]
    BY <1>1, <1>2 DEF IInv, Typed, Front
  <1>4. Typed'
    <2>1. status' = "running" => stack' # <<>>
      BY <1>1, <1>2, <1>3
    <2>2. done' \subseteq Dirs
      BY <1>1, <1>2 DEF IInv, Typed, FrameType
    <2> QED
      BY <1>1, <1>3, <2>1, <2>2 DEF IInv, Typed
  <1>5. Owed'
    <2> SUFFICES ASSUME NEW i \in 1 .. n - 1
                 PROVE  Deps(stack[i].dir) \subseteq
                          done' \cup Waiting(stack[i]) \cup Calling(stack', i)
      BY <1>1, <1>3 DEF Owed, Deps
    <2>1. Deps(stack[i].dir) \subseteq done \cup Waiting(stack[i]) \cup Calling(stack, i)
      BY <1>2 DEF IInv, Owed
    <2>2. CASE i = n - 1
      BY <1>1, <1>2, <2>1, <2>2 DEF Calling
    <2>3. CASE i < n - 1
      BY <1>1, <1>2, <1>3, <2>1, <2>3 DEF Calling
    <2> QED
      BY <1>2, <2>2, <2>3
  <1>6. \A i \in 1 .. n - 1 : ~(stack[i].at > 0)
    BY <1>2 DEF IInv, Started
  <1>7. Started'
    BY <1>3, <1>6 DEF Started
  <1>8. InProgress'
    <2> SUFFICES ASSUME status' = "running", NEW k \in DOMAIN text[Top'.dir], k < Top'.at
                 PROVE  FALSE
      BY <1>1 DEF InProgress
    <2>1. n > 1 /\ Top' = stack[n - 1] /\ stack[n - 1] \in FrameType
      BY <1>1, <1>2, <1>3 DEF Top, Last, IInv, Typed
    <2>2. text[Top'.dir] \in Seq(Decl) /\ Top'.at = 0
      <3>1. n - 1 \in 1 .. n - 1
        BY <1>2, <2>1
      <3>2. Top'.at \in Nat /\ Top'.dir \in Dirs /\ ~(Top'.at > 0)
        BY <1>6, <2>1, <3>1 DEF FrameType
      <3> QED
        BY <3>2 DEF IInv, Typed
    <2> QED
      BY <2>2
  <1>9. DoneDefined'
    <2> SUFFICES ASSUME NEW d \in done'
                 PROVE  /\ Deps(d) \subseteq done'
                        /\ \A k \in DOMAIN text[d] : Defined(d, text[d][k], Len(defs))
      BY <1>1 DEF DoneDefined, Defined, Deps
    <2>1. CASE d \in done
      BY <1>1, <2>1 DEF IInv, DoneDefined
    <2>2. CASE d = Top.dir
      <3>1. Deps(d) \subseteq done
        BY <1>1, <2>2, DepsDone
      <3>2. \A k \in DOMAIN text[Top.dir] : k < Top.at
        BY <1>1, <1>2 DEF FrameType
      <3> QED
        BY <1>1, <2>2, <3>1, <3>2 DEF IInv, InProgress
    <2> QED
      BY <1>1, <2>1, <2>2
  <1>10. ImportsFirst'
    BY <1>1 DEF IInv, ImportsFirst, Deps
  <1> QED
    BY <1>4, <1>5, <1>7, <1>8, <1>9, <1>10 DEF IInv

\* GetIR and clang.
LEMMA AssembleStep == ASSUME IInv, Assemble PROVE IInv'
  BY Stops DEF Assemble, source, compiler

\* What a declaration adds: definitions of the present package, that of its first name
\* among them, unless the compiler panics.
LEMMA Grows ==
  ASSUME Typed, NEW d \in Decls, Declare(d)
  PROVE  \/ status' # "running" /\ defs' = defs
         \/ \E t : /\ t \in Seq(ToSet(t)) /\ defs' = defs \o t /\ Len(t) > 0
                   /\ \A i \in 1 .. Len(t) : t[i].dir = Top.dir
                   /\ t[1].name = d.names[1]
PROOF
  <1>1. d.names \in Seq(Idents) /\ d.names # <<>>
    BY PackagesAssumption DEF Decl
  <1>2. ASSUME NEW e, defs' = Append(defs, e), e.dir = Top.dir, e.name = d.names[1]
        PROVE  \E t : /\ t \in Seq(ToSet(t)) /\ defs' = defs \o t /\ Len(t) > 0
                      /\ \A i \in 1 .. Len(t) : t[i].dir = Top.dir
                      /\ t[1].name = d.names[1]
    <2> DEFINE t == <<e>>
    <2>1. /\ t \in Seq({e}) /\ Len(t) = 1 /\ t[1] = e
      OBVIOUS
    <2>2. defs' = defs \o t
      BY <1>2, AppendIsConcatenation DEF Typed
    <2> HIDE DEF t
    <2>3. ToSet(t) = {e}
      BY <2>1 DEF ToSet
    <2>4. /\ t \in Seq(ToSet(t)) /\ defs' = defs \o t /\ Len(t) > 0
          /\ \A i \in 1 .. Len(t) : t[i].dir = Top.dir
          /\ t[1].name = d.names[1]
      BY <1>2, <2>1, <2>2, <2>3
    <2> QED
      BY <2>4
  <1>3. CASE DefineType(d)
    BY <1>2, <1>3 DEF DefineType, Def
  <1>4. CASE AllocConst(d)
    BY <1>2, <1>4 DEF AllocConst, Def
  <1>5. CASE AllocZero(d)
    BY <1>2, <1>5 DEF AllocZero, Def
  <1>6. CASE DefineFunc(d)
    BY <1>2, <1>6 DEF DefineFunc, Def
  <1>7. CASE AllocValue(d)
    <2>1. PICK kind, type, bound :
            defs' = defs \o [i \in DOMAIN d.names |->
                              Def(kind, d.form, d.names[i], type, bound, {})]
      BY <1>7 DEF AllocValue
    <2> DEFINE t == [i \in DOMAIN d.names |-> Def(kind, d.form, d.names[i], type, bound, {})]
    <2>2. Len(d.names) \in Nat \ {0} /\ DOMAIN d.names = 1 .. Len(d.names)
      BY <1>1
    <2>3. t \in [1 .. Len(d.names) -> ToSet(t)]
      BY <2>2 DEF ToSet
    <2>4. t \in Seq(ToSet(t)) /\ DOMAIN t = 1 .. Len(d.names)
      BY <2>2, <2>3, IsSequence
    <2>5. \A i \in 1 .. Len(d.names) : t[i].dir = Top.dir /\ t[i].name = d.names[i]
      BY <2>2 DEF Def
    <2>6. defs' = defs \o t
      BY <2>1
    <2> HIDE DEF t
    <2>7. Len(t) = Len(d.names)
      BY <2>2, <2>4
    <2>8. /\ t \in Seq(ToSet(t)) /\ defs' = defs \o t /\ Len(t) > 0
          /\ \A i \in 1 .. Len(t) : t[i].dir = Top.dir
          /\ t[1].name = d.names[1]
      BY <2>2, <2>4, <2>5, <2>6, <2>7
    <2> QED
      BY <2>8
  <1>8. CASE Unresolved(d)
    BY <1>8 DEF Unresolved, compiler
  <1> QED
    BY <1>3, <1>4, <1>5, <1>6, <1>7, <1>8 DEF Declare

\* A declaration: the packages it can use are done, and it is defined.
LEMMA DeclareStep == ASSUME IInv, NEW d \in Decls, Declare(d) PROVE IInv'
PROOF
  <1> DEFINE n == Len(stack)
             f == [Top EXCEPT !.at = @ + 1]
  <1>1. /\ status = "running" /\ Top.at > 0 /\ Written(d) /\ stack' = Replaced(f)
        /\ imports' = imports /\ done' = done
    BY DEF Declare, Compiling
  <1>2. /\ n \in Nat \ {0} /\ DOMAIN stack = 1 .. n /\ Top = stack[n] /\ Top \in FrameType
    BY <1>1, TopType DEF IInv, Typed
  <1>3. /\ f \in FrameType /\ f.dir = Top.dir /\ f.todo = Top.todo /\ f.calls = Top.calls
        /\ f.at = Top.at + 1
    BY <1>2 DEF FrameType
  <1> HIDE DEF f
  <1>4. /\ stack' \in Seq(FrameType) /\ Len(stack') = n /\ DOMAIN stack' = 1 .. n
        /\ \A i \in 1 .. n - 1 : stack'[i] = stack[i]
        /\ stack'[n] = f /\ stack' # <<>>
    BY <1>1, <1>2, <1>3, ReplaceTop DEF IInv
  <1>5. d \in Decl
    BY PackagesAssumption
  <1>6. /\ text' \in [Dirs -> Seq(Decl)]
        /\ \A e \in done : text'[e] = text[e]
        /\ \A k \in DOMAIN text'[Top.dir] : k < Top.at + 1 =>
             \/ text'[Top.dir][k] = d
             \/ k \in DOMAIN text[Top.dir] /\ k < Top.at /\ text'[Top.dir][k] = text[Top.dir][k]
    <2>1. text \in [Dirs -> Seq(Decl)] /\ Top.dir \in Dirs /\ Top.at \in Nat /\ done \subseteq Dirs
      BY <1>2 DEF IInv, Typed, FrameType
    <2>2. CASE Top.at <= Len(text[Top.dir]) /\ d = text[Top.dir][Top.at] /\ UNCHANGED text
      BY <2>1, <2>2
    <2>3. CASE /\ Top.at > Len(text[Top.dir]) /\ Top.dir \notin done
               /\ text' = [text EXCEPT ![Top.dir] = Append(@, d)]
      <3>1. text'[Top.dir] = Append(text[Top.dir], d) /\ text[Top.dir] \in Seq(Decl)
        BY <2>1, <2>3
      <3>2. \A e \in done : text'[e] = text[e]
        BY <2>1, <2>3
      <3>3. text' \in [Dirs -> Seq(Decl)]
        BY <1>5, <2>1, <2>3
      <3>4. \A k \in DOMAIN text'[Top.dir] :
              \/ text'[Top.dir][k] = d
              \/ k \in DOMAIN text[Top.dir] /\ k < Top.at /\ text'[Top.dir][k] = text[Top.dir][k]
        BY <1>5, <2>1, <2>3, <3>1
      <3> QED
        BY <3>2, <3>3, <3>4
    <2> QED
      BY <1>1, <2>2, <2>3 DEF Written
  <1>7. /\ defs' \in Seq(ToSet(defs')) /\ Len(defs') >= Len(defs)
        /\ Len(defs) \in Nat /\ Len(defs') \in Nat
        /\ \A m \in 1 .. Len(defs) : defs'[m] = defs[m]
        /\ \A m \in Len(defs) + 1 .. Len(defs') : defs'[m].dir = Top.dir
        /\ status' = "running" =>
             \E m \in 1 .. Len(defs') : defs'[m].dir = Top.dir /\ defs'[m].name = d.names[1]
    <2>1. defs \in Seq(ToSet(defs)) /\ Len(defs) \in Nat /\ Typed
      BY DEF IInv, Typed
    <2>2. CASE status' # "running" /\ defs' = defs
      BY <2>1, <2>2
    <2>3. CASE \E t : /\ t \in Seq(ToSet(t)) /\ defs' = defs \o t /\ Len(t) > 0
                        /\ \A i \in 1 .. Len(t) : t[i].dir = Top.dir
                        /\ t[1].name = d.names[1]
      <3>0. PICK t : /\ t \in Seq(ToSet(t)) /\ defs' = defs \o t /\ Len(t) > 0
                     /\ \A i \in 1 .. Len(t) : t[i].dir = Top.dir
                     /\ t[1].name = d.names[1]
        BY <2>3
      <3>1. /\ defs' \in Seq(ToSet(defs')) /\ Len(defs') = Len(defs) + Len(t)
            /\ \A i \in 1 .. Len(defs) : defs'[i] = defs[i]
            /\ \A i \in 1 .. Len(t) : defs'[Len(defs) + i] = t[i]
        BY <2>1, <3>0, Concatenation
      <3>2. Len(t) \in Nat
        BY <3>0
      <3>3. \A m \in Len(defs) + 1 .. Len(defs') : defs'[m].dir = Top.dir
        <4> SUFFICES ASSUME NEW m \in Len(defs) + 1 .. Len(defs') PROVE defs'[m].dir = Top.dir
          OBVIOUS
        <4>1. m - Len(defs) \in 1 .. Len(t) /\ m = Len(defs) + (m - Len(defs))
          BY <2>1, <3>1, <3>2
        <4> QED
          BY <3>0, <3>1, <4>1
      <3>4. Len(defs) + 1 \in 1 .. Len(defs') /\ defs'[Len(defs) + 1] = t[1]
        BY <2>1, <3>0, <3>1, <3>2
      <3>5. defs'[Len(defs) + 1].dir = Top.dir
        BY <2>1, <3>0, <3>1, <3>2, <3>3
      <3>6. \E m \in 1 .. Len(defs') : defs'[m].dir = Top.dir /\ defs'[m].name = d.names[1]
        BY <3>0, <3>4, <3>5
      <3>7. Len(defs') >= Len(defs) /\ Len(defs') \in Nat
        BY <2>1, <3>1, <3>2
      <3> QED
        BY <2>1, <3>1, <3>3, <3>6, <3>7
    <2> QED
      BY <2>1, <2>2, <2>3, Grows
  <1>8. ASSUME NEW e, NEW x, Defined(e, x, Len(defs))
        PROVE  \E m \in 1 .. Len(defs) :
                 defs[m].dir = e /\ defs[m].name = x.names[1] /\ defs'[m] = defs[m]
    BY <1>7, <1>8 DEF Defined
  <1>9. Typed'
    BY <1>1, <1>4, <1>6, <1>7 DEF IInv, Typed
  <1>10. Owed'
    <2> SUFFICES ASSUME NEW i \in 1 .. n
                 PROVE  Deps(stack'[i].dir) \subseteq
                          done \cup Waiting(stack'[i]) \cup Calling(stack', i)
      BY <1>1, <1>4 DEF Owed, Deps
    <2>1. Deps(stack[i].dir) \subseteq done \cup Waiting(stack[i]) \cup Calling(stack, i)
      BY <1>2 DEF IInv, Owed
    <2>2. /\ stack'[i].dir = stack[i].dir /\ stack'[i].todo = stack[i].todo
          /\ stack'[i].calls = stack[i].calls
      BY <1>2, <1>3, <1>4
    <2>3. Calling(stack', i) = Calling(stack, i)
      <3>1. i < n => i + 1 \in 1 .. n /\ stack'[i + 1].dir = stack[i + 1].dir
        BY <1>2, <1>3, <1>4
      <3> QED
        BY <1>4, <3>1 DEF Calling
    <2>4. Waiting(stack'[i]) = Waiting(stack[i])
      BY <2>2 DEF Waiting
    <2> QED
      BY <2>1, <2>2, <2>3, <2>4
  <1>11. Started'
    <2>1. ImportsDone(Top)
      BY <1>1, <1>2 DEF IInv, Started
    <2>2. ImportsDone(f)
      BY <1>3, <2>1 DEF ImportsDone
    <2>3. \A i \in 1 .. n - 1 : ~(stack[i].at > 0)
      BY <1>2 DEF IInv, Started
    <2> QED
      BY <1>2, <1>4, <2>2, <2>3 DEF Started, ImportsDone
  <1>12. InProgress'
    <2>1. Top' = f
      BY <1>4 DEF Top, Last
    <2> SUFFICES ASSUME status' = "running", NEW k \in DOMAIN text'[Top.dir], k < Top.at + 1
                 PROVE  \E m \in 1 .. Len(defs') :
                          defs'[m].dir = Top.dir /\ defs'[m].name = text'[Top.dir][k].names[1]
      BY <1>3, <2>1 DEF InProgress, Defined
    <2>2. CASE text'[Top.dir][k] = d
      BY <1>7, <2>2
    <2>3. CASE /\ k \in DOMAIN text[Top.dir] /\ k < Top.at
               /\ text'[Top.dir][k] = text[Top.dir][k]
      <3>1. Defined(Top.dir, text[Top.dir][k], Len(defs))
        BY <1>1, <2>3 DEF IInv, InProgress
      <3> QED
        BY <1>7, <1>8, <2>3, <3>1
    <2> QED
      BY <1>6, <2>2, <2>3
  <1>13. DoneDefined'
    <2> SUFFICES ASSUME NEW e \in done
                 PROVE  /\ Deps(e) \subseteq done
                        /\ \A k \in DOMAIN text'[e] : \E m \in 1 .. Len(defs') :
                             defs'[m].dir = e /\ defs'[m].name = text'[e][k].names[1]
      BY <1>1 DEF DoneDefined, Defined, Deps
    <2>1. Deps(e) \subseteq done /\ \A k \in DOMAIN text[e] : Defined(e, text[e][k], Len(defs))
      BY DEF IInv, DoneDefined
    <2>2. ASSUME NEW k \in DOMAIN text'[e]
          PROVE  \E m \in 1 .. Len(defs') :
                   defs'[m].dir = e /\ defs'[m].name = text'[e][k].names[1]
      <3>1. text'[e] = text[e]
        BY <1>6
      <3>2. PICK m \in 1 .. Len(defs) :
              defs[m].dir = e /\ defs[m].name = text[e][k].names[1]
        BY <2>1, <3>1 DEF Defined
      <3>3. m \in 1 .. Len(defs') /\ defs'[m] = defs[m]
        BY <1>7
      <3> QED
        BY <3>1, <3>2, <3>3
    <2> QED
      BY <2>1, <2>2
  <1>14. ImportsFirst'
    <2> SUFFICES ASSUME NEW p \in DOMAIN defs', defs'[p].kind # "extern",
                        NEW e \in Deps(defs'[p].dir)
                 PROVE  /\ e \in done
                        /\ \A k \in DOMAIN text'[e] : \E m \in 1 .. p - 1 :
                             defs'[m].dir = e /\ defs'[m].name = text'[e][k].names[1]
      BY <1>1 DEF ImportsFirst, Deps
    <2>1. p \in 1 .. Len(defs')
      BY <1>7
    <2>2. CASE p <= Len(defs)
      <3>1. p \in DOMAIN defs /\ defs'[p] = defs[p]
        BY <1>7, <2>1, <2>2 DEF IInv, Typed
      <3>2. e \in done /\ \A k \in DOMAIN text[e] : \E m \in 1 .. p - 1 :
              defs[m].dir = e /\ defs[m].name = text[e][k].names[1]
        BY <3>1 DEF IInv, ImportsFirst
      <3>3. \A m \in 1 .. p - 1 : defs'[m] = defs[m]
        BY <1>7, <2>1, <2>2
      <3>4. text'[e] = text[e]
        BY <1>6, <3>2
      <3> QED
        BY <3>2, <3>3, <3>4
    <2>3. CASE p > Len(defs)
      <3>1. defs'[p].dir = Top.dir
        BY <1>7, <2>1, <2>3
      <3>2. e \in done
        BY <1>1, <3>1, DepsDone
      <3>3. text'[e] = text[e]
        BY <1>6, <3>2
      <3>4. \A k \in DOMAIN text[e] : \E m \in 1 .. Len(defs) :
              defs[m].dir = e /\ defs[m].name = text[e][k].names[1]
        BY <3>2 DEF IInv, DoneDefined, Defined
      <3>5. \A m \in 1 .. Len(defs) : m \in 1 .. p - 1 /\ defs'[m] = defs[m]
        BY <1>7, <2>1, <2>3
      <3> QED
        BY <3>2, <3>3, <3>4, <3>5
    <2> QED
      BY <1>7, <2>1, <2>2, <2>3
  <1> QED
    BY <1>9, <1>10, <1>11, <1>12, <1>13, <1>14 DEF IInv

-----------------------------------------------------------------------------
(* The theorem *)

\* The names that are there from the start, in some order.
LEMMA ExternalsType ==
  /\ Cardinality(ExternalVars) \in Nat
  /\ SetToSeq(ExternalVars) \in [1 .. Cardinality(ExternalVars) -> ExternalVars]
PROOF
  <1> DEFINE n == Cardinality(ExternalVars)
  <1>1. n \in Nat /\ ExistsBijection(1 .. n, ExternalVars)
    BY PackagesAssumption, FS_CardinalityType
  <1>2. \E f \in [1 .. n -> ExternalVars] : IsInjective(f)
    BY <1>1 DEF ExistsBijection, Bijection, Injection
  <1> QED
    BY <1>1, <1>2 DEF SetToSeq

\* Nothing has been compiled.
LEMMA InitHolds == Init => IInv
PROOF
  <1> SUFFICES ASSUME Init PROVE IInv
    OBVIOUS
  <1> DEFINE externals == SetToSeq(ExternalVars)
             n == Cardinality(ExternalVars)
  <1>1. n \in Nat /\ externals \in [1 .. n -> ExternalVars]
    BY ExternalsType
  <1>2. defs = [i \in DOMAIN externals |-> Extern(externals[i])]
    BY DEF Init
  <1> HIDE DEF externals, n
  <1>3. DOMAIN defs = 1 .. n /\ \A i \in DOMAIN defs : defs[i].kind = "extern"
    BY <1>1, <1>2 DEF Extern
  <1>4. defs \in Seq(ToSet(defs))
    <2>1. defs \in [1 .. n -> ToSet(defs)]
      BY <1>1, <1>2 DEF ToSet
    <2> QED
      BY <1>1, <2>1, IsSequence
  <1>5. /\ imports \in [Dirs -> Seq(Paths)] /\ text = [d \in Dirs |-> <<>>] /\ done = {}
        /\ stack = <<Frame(Root, Main)>>
    BY PackagesAssumption DEF Init
  <1>6. Frame(Root, Main) \in FrameType
    <2>1. imports[Root] \in Seq(Paths) /\ Root \in Dirs /\ Main \in Paths
      BY <1>5, PackagesAssumption
    <2>2. <<>> \in Seq([dir : Dirs, path : Paths])
      OBVIOUS
    <2> QED
      BY <2>1, <2>2 DEF Frame, FrameType
  <1> DEFINE fr == Frame(Root, Main)
  <1>7. fr.dir = Root /\ fr.todo = imports[Root] /\ fr.at = 0
    BY DEF Frame
  <1>8. stack = <<fr>> /\ fr \in FrameType
    BY <1>5, <1>6
  <1> HIDE DEF fr
  <1>9. stack \in Seq(FrameType) /\ Len(stack) = 1 /\ DOMAIN stack = {1} /\ stack[1] = fr
    BY <1>8
  <1>10. Typed
    <2>1. text \in [Dirs -> Seq(Decl)]
      BY <1>5
    <2> QED
      BY <1>4, <1>5, <1>9, <2>1 DEF Typed
  <1>11. Owed
    BY <1>7, <1>9 DEF Owed, Waiting, Deps
  <1>12. Started
    BY <1>7, <1>9 DEF Started
  <1>13. InProgress
    <2>1. Top = fr /\ Root \in Dirs
      BY <1>9, PackagesAssumption DEF Top, Last
    <2>2. text[Root] = <<>>
      BY <1>5, <2>1
    <2> QED
      BY <1>7, <2>1, <2>2 DEF InProgress
  <1>14. DoneDefined /\ ImportsFirst
    BY <1>3, <1>5 DEF DoneDefined, ImportsFirst
  <1> QED
    BY <1>10, <1>11, <1>12, <1>13, <1>14 DEF IInv

\* Every step keeps the invariant.
LEMMA NextKeeps == IInv /\ [Next]_vars => IInv'
PROOF
  <1> SUFFICES ASSUME IInv, [Next]_vars PROVE IInv'
    OBVIOUS
  <1>1. CASE UNCHANGED vars
    <2>1. UNCHANGED <<imports, text, done, stack, defs, status>>
      BY <1>1 DEF vars, source, compiler
    <2>2. DoneDefined' /\ ImportsFirst'
      BY <2>1, KeepsDefinitions
    <2>3. Top' = Top
      BY <2>1 DEF Top
    <2> QED
      BY <2>1, <2>2, <2>3 DEF IInv, Typed, Owed, Started, InProgress, Deps, Defined
  <1>2. CASE \E d \in Decls : Declare(d)
    BY <1>2, DeclareStep
  <1> QED
    BY <1>1, <1>2, ImportStep, LoadStep, StartStep, EndStep, AssembleStep DEF Next

\* When anything of a package is compiled, every declaration of every package it
\* imports has been: for any set of directories, any imports (cycles and packages that
\* are reached twice included), and packages of any size (build.go:141, 159).
THEOREM ImportsAreFirst == Spec => []ImportsFirst
PROOF
  <1>1. IInv => ImportsFirst
    BY DEF IInv
  <1> QED
    BY <1>1, InitHolds, NextKeeps, PTL DEF Spec

-----------------------------------------------------------------------------
(* The invariant: TypeOK, with the tables as records of functions          *)

Kinds == {"type", "global", "local", "const", "func", "init", "main", "extern"}

\* What may be in a table, a block and a definition when there are n definitions.
Tables(n) == UNION {[S -> 1 .. n] : S \in SUBSET Idents}

Blocks(n) == [insts : Seq(1 .. n), term : {"ret", "br", "none"}]

DefTypes(n) ==
  [kind : Kinds, form : Forms, name : Idents, type : {Pointer} \cup 0 .. n,
   params : SUBSET Idents, bound : SUBSET (Refs \X (0 .. n)), reads : SUBSET (0 .. n),
   path : Paths, dir : Dirs, run : Nat]

\* While declarations are compiled, the current package is that of the innermost call.
TypesRight ==
  /\ imports \in Layouts
  /\ text \in [Dirs -> Seq(Decls)]
  /\ DOMAIN packages \subseteq Paths
  /\ packages \in [DOMAIN packages -> [vars : Tables(Len(defs)), types : Tables(Len(defs))]]
  /\ current \in DOMAIN packages \cup {Own}
  /\ Compiling => current = Top.path /\ current \in DOMAIN packages
  /\ scope \in Tables(Len(defs))
  /\ context \in {NoBlock} \cup DOMAIN initFunc
  /\ initFunc \in Seq(Blocks(Len(defs))) /\ Len(initFunc) > 0
  /\ heap \subseteq 1 .. Len(defs)
  /\ defs \in Seq(DefTypes(Len(defs)))
  /\ runs \in Nat
  /\ status \in {"running", "compiled", "built", "failed", "overflow"}


Inv == IInv /\ TypesRight

-----------------------------------------------------------------------------
(* Tables *)

\* What a table is, without the set of its names.
LEMMA TableIs ==
  ASSUME NEW n \in Nat, NEW f
  PROVE  f \in Tables(n) <=> f \in [DOMAIN f -> 1 .. n] /\ DOMAIN f \subseteq Idents
  BY DEF Tables

\* A table is one when there are more definitions.
LEMMA TablesGrow ==
  ASSUME NEW n \in Nat, NEW k \in Nat, n <= k
  PROVE  Tables(n) \subseteq Tables(k)
PROOF
  <1> SUFFICES ASSUME NEW f \in Tables(n) PROVE f \in Tables(k)
    OBVIOUS
  <1>1. f \in [DOMAIN f -> 1 .. n] /\ DOMAIN f \subseteq Idents
    BY TableIs
  <1>2. 1 .. n \subseteq 1 .. k
    OBVIOUS
  <1>3. f \in [DOMAIN f -> 1 .. k]
    BY <1>1, <1>2
  <1> QED
    BY <1>1, <1>3, TableIs

\* A name that is defined refers to a definition of that name.
LEMMA DefiningNames ==
  ASSUME NEW f, NEW names, NEW n \in Nat \ {0}, names \in Seq(Idents)
  PROVE  /\ DOMAIN Defining(f, names, n) = DOMAIN f \cup ToSet(names)
         /\ \A x \in ToSet(names) :
              \E i \in 1 .. Len(names) : names[i] = x /\ Defining(f, names, n)[x] = n - 1 + i
         /\ \A x \in DOMAIN f \ ToSet(names) : Defining(f, names, n)[x] = f[x]
PROOF
  <1> DEFINE At(x) == CHOOSE i \in DOMAIN names : names[i] = x
             g == Defining(f, names, n)
  <1>1. /\ DOMAIN g = DOMAIN f \cup ToSet(names)
        /\ \A x \in ToSet(names) : g[x] = n - 1 + At(x)
        /\ \A x \in DOMAIN f \ ToSet(names) : g[x] = f[x]
    BY DEF Defining
  <1>2. \A x \in ToSet(names) : At(x) \in DOMAIN names /\ names[At(x)] = x
    BY DEF ToSet
  <1>3. DOMAIN names = 1 .. Len(names)
    OBVIOUS
  <1> HIDE DEF At, g
  <1>4. \A x \in ToSet(names) :
          \E i \in 1 .. Len(names) : names[i] = x /\ g[x] = n - 1 + i
    BY <1>1, <1>2, <1>3
  <1> QED
    BY <1>1, <1>4 DEF g

\* A table with the names of the next definitions is one.
LEMMA DefiningTable ==
  ASSUME NEW n \in Nat, NEW f \in Tables(n), NEW names \in Seq(Idents)
  PROVE  Defining(f, names, n + 1) \in Tables(n + Len(names))
PROOF
  <1> DEFINE g == Defining(f, names, n + 1)
             k == n + Len(names)
  <1>1. f \in [DOMAIN f -> 1 .. n] /\ DOMAIN f \subseteq Idents
    BY TableIs
  <1>2. /\ DOMAIN g = DOMAIN f \cup ToSet(names)
        /\ \A x \in ToSet(names) : \E i \in 1 .. Len(names) : names[i] = x /\ g[x] = n + 1 - 1 + i
        /\ \A x \in DOMAIN f \ ToSet(names) : g[x] = f[x]
    <2> DEFINE m == n + 1
    <2>1. m \in Nat \ {0}
      OBVIOUS
    <2> HIDE DEF m
    <2>2. /\ DOMAIN Defining(f, names, m) = DOMAIN f \cup ToSet(names)
          /\ \A x \in ToSet(names) :
               \E i \in 1 .. Len(names) : names[i] = x /\ Defining(f, names, m)[x] = m - 1 + i
          /\ \A x \in DOMAIN f \ ToSet(names) : Defining(f, names, m)[x] = f[x]
      BY <2>1, DefiningNames
    <2> QED
      BY <2>2 DEF m
  <1>3. g = [x \in DOMAIN g |-> g[x]]
    BY DEF Defining
  <1>4. k \in Nat /\ Len(names) \in Nat
    OBVIOUS
  <1> HIDE DEF g, k
  <1>5. \A x \in ToSet(names) : g[x] \in 1 .. k
    <2>1. \A i \in 1 .. Len(names) : n + 1 - 1 + i \in 1 .. k
      BY <1>4 DEF k
    <2> QED
      BY <1>2, <2>1
  <1>6. \A x \in DOMAIN f \ ToSet(names) : g[x] \in 1 .. k
    BY <1>1, <1>2, <1>4 DEF k
  <1>7. g \in [DOMAIN g -> 1 .. k]
    BY <1>2, <1>3, <1>5, <1>6
  <1>8. DOMAIN g \subseteq Idents
    BY <1>1, <1>2 DEF ToSet
  <1> QED
    BY <1>4, <1>7, <1>8, TableIs DEF g, k

-----------------------------------------------------------------------------
(* What a declaration does *)

Functions == {"func", "init", "main"}
Scoped    == {"const", "local"}

\* The definitions of the names of d.
Made(d, kind, type, bound, params) ==
  [i \in DOMAIN d.names |-> Def(kind, d.form, d.names[i], type, bound, params)]

\* Where the names go: into the table of types or of variables, or the scope.
Placed(d, kind) ==
  /\ packages' = IF kind = "type" THEN DefinePkgType(d.names)
                 ELSE IF kind \in Scoped THEN packages ELSE DefinePkgVar(d.names)
  /\ scope' = IF kind \in Scoped THEN SetVar(d.names) ELSE scope

\* What the names used are bound to.
BoundRight(d, kind, bound, params) ==
  \/ bound = {} /\ params = {} /\ kind \notin Functions
  \/ bound = Bound(packages, {}, d.uses) /\ params = {} /\ kind \in {"global", "local"}
  \/ /\ d.form = "func" /\ bound = Bound(packages', params, d.uses) /\ params = d.params
     /\ kind = FuncKind(d.names[1])

\* Instructions at the end of global-init.
Initialises(d, kind) ==
  Len(initFunc') = 1 =>
    initFunc' = IF kind \in {"global", "local", "init"} THEN Emit(initFunc, Entry, d.names)
                ELSE initFunc

BlocksRight(d) ==
  /\ initFunc' \in Seq(Blocks(Len(defs) + Len(d.names))) /\ Len(initFunc') > 0
  /\ context' \in {NoBlock} \cup DOMAIN initFunc'

\* When a variable is an instruction of global-init.
LocalOnly(d, kind, type) ==
  /\ context' # NoBlock => context # NoBlock \/ kind = "local"
  /\ kind = "local" => context # NoBlock \/ d.form = "multi" \/ type = Pointer \/ type \in heap

Adds(d, kind, type, bound, params) ==
  /\ kind \in Kinds \ {"extern"}
  /\ type \in {Pointer} \cup 0 .. Len(defs)
  /\ defs' = defs \o Made(d, kind, type, bound, params)
  /\ Placed(d, kind) /\ BoundRight(d, kind, bound, params)
  /\ Initialises(d, kind) /\ BlocksRight(d) /\ LocalOnly(d, kind, type)
  /\ heap \subseteq heap' /\ heap' \subseteq 1 .. Len(defs) \cup heap
  /\ current' = current /\ runs' = runs /\ status' = status

\* A declaration is one, while its package is compiled.
LEMMA Declared ==
  ASSUME Inv, NEW d \in Decls, Declare(d)
  PROVE  /\ d \in Decl /\ d.names \in Seq(Idents) /\ Len(d.names) \in Nat \ {0}
         /\ DOMAIN d.names = 1 .. Len(d.names)
         /\ d.form # "multi" => Len(d.names) = 1
         /\ d.type \in Types /\ d.uses \subseteq Refs /\ d.params \subseteq Idents
         /\ status = "running" /\ Compiling /\ Top \in FrameType
         /\ current = Top.path /\ current \in DOMAIN packages /\ current \in Paths
         /\ Len(defs) \in Nat
PROOF
  <1>1. /\ d \in Decl /\ d.names # <<>> /\ (d.form # "multi" => Len(d.names) = 1)
    BY PackagesAssumption
  <1>2. d.names \in Seq(Idents) /\ d.type \in Types /\ d.uses \subseteq Refs /\ d.params \subseteq Idents
    BY <1>1 DEF Decl
  <1>3. Len(d.names) \in Nat \ {0} /\ DOMAIN d.names = 1 .. Len(d.names)
    BY <1>1, <1>2
  <1>4. Compiling /\ status = "running"
    BY DEF Declare, Compiling
  <1>5. Top \in FrameType
    BY <1>4, TopType DEF Inv, IInv
  <1>6. current = Top.path /\ current \in DOMAIN packages /\ current \in Paths
    BY <1>4 DEF Inv, TypesRight
  <1>7. Len(defs) \in Nat
    BY DEF Inv, TypesRight
  <1> QED
    BY <1>1, <1>2, <1>3, <1>4, <1>5, <1>6, <1>7

\* The table of a package, and the scope.
LEMMA TablesRight ==
  ASSUME Inv
  PROVE  /\ \A p \in DOMAIN packages :
              /\ packages[p] \in [vars : Tables(Len(defs)), types : Tables(Len(defs))]
              /\ \A x \in DOMAIN packages[p].vars : packages[p].vars[x] \in 1 .. Len(defs)
              /\ \A x \in DOMAIN packages[p].types : packages[p].types[x] \in 1 .. Len(defs)
         /\ \A x \in DOMAIN scope : scope[x] \in 1 .. Len(defs)
PROOF
  <1>1. Len(defs) \in Nat
    BY DEF Inv, TypesRight
  <1>2. \A p \in DOMAIN packages :
          packages[p] \in [vars : Tables(Len(defs)), types : Tables(Len(defs))]
    BY DEF Inv, TypesRight
  <1>3. scope \in Tables(Len(defs))
    BY DEF Inv, TypesRight
  <1>4. \A f \in Tables(Len(defs)) : \A x \in DOMAIN f : f[x] \in 1 .. Len(defs)
    BY <1>1, TableIs
  <1> QED
    BY <1>2, <1>3, <1>4

\* A type that is found is a place in the definitions.
LEMMA TypePlace ==
  ASSUME Inv, NEW t
  PROVE  LookupType(t) \subseteq 0 .. Len(defs)
PROOF
  <1>1. Len(defs) \in Nat
    BY DEF Inv, TypesRight
  <1>2. CASE t = Own
    BY <1>1, <1>2 DEF LookupType, Plain
  <1>3. CASE t # Own
    <2>1. CASE Owner(t) \notin DOMAIN packages \/ Hidden(t)
      BY <1>3, <2>1 DEF LookupType
    <2>2. CASE Owner(t) \in DOMAIN packages /\ ~Hidden(t)
      <3>1. LookupType(t) =
              {packages[Owner(t)].types[x] :
                 x \in {t.name} \cap DOMAIN packages[Owner(t)].types}
        BY <1>3, <2>2 DEF LookupType
      <3>2. \A x \in DOMAIN packages[Owner(t)].types :
              packages[Owner(t)].types[x] \in 1 .. Len(defs)
        BY <2>2, TablesRight
      <3> QED
        BY <1>1, <3>1, <3>2
    <2> QED
      BY <2>1, <2>2
  <1> QED
    BY <1>2, <1>3

\* One definition, as Append puts it.
LEMMA MadeOne ==
  ASSUME Inv, NEW d \in Decls, Declare(d), d.form # "multi",
         NEW kind, NEW type, NEW bound, NEW params
  PROVE  Append(defs, Def(kind, d.form, d.names[1], type, bound, params)) =
           defs \o Made(d, kind, type, bound, params)
PROOF
  <1> DEFINE e == Def(kind, d.form, d.names[1], type, bound, params)
             m == Made(d, kind, type, bound, params)
  <1>1. DOMAIN d.names = {1}
    <2>1. DOMAIN d.names = 1 .. Len(d.names) /\ Len(d.names) = 1
      BY Declared
    <2> QED
      BY <2>1
  <1>2. m = [i \in {1} |-> e]
    BY <1>1 DEF Made
  <1>3. Append(defs, e) = defs \o <<e>>
    BY AppendIsConcatenation DEF Inv, IInv, Typed
  <1> HIDE DEF e, m
  <1>4. [i \in {1} |-> e] = <<e>>
    OBVIOUS
  <1> QED
    BY <1>2, <1>3, <1>4 DEF e, m

\* Global-init is blocks, also when there are more definitions.
LEMMA BlocksGrow ==
  ASSUME Inv, NEW k \in Nat, Len(defs) <= k
  PROVE  /\ initFunc \in Seq(Blocks(k)) /\ Len(initFunc) \in Nat \ {0}
         /\ DOMAIN initFunc = 1 .. Len(initFunc)
PROOF
  <1>1. Len(defs) \in Nat /\ initFunc \in Seq(Blocks(Len(defs))) /\ Len(initFunc) > 0
    BY DEF Inv, TypesRight
  <1>2. Seq(1 .. Len(defs)) \subseteq Seq(1 .. k)
    <2>1. 1 .. Len(defs) \subseteq 1 .. k
      BY <1>1
    <2> QED
      BY <2>1
  <1>3. Blocks(Len(defs)) \subseteq Blocks(k)
    BY <1>2 DEF Blocks
  <1> HIDE DEF Blocks
  <1>4. initFunc \in Seq(Blocks(k))
    BY <1>1, <1>3
  <1> QED
    BY <1>1, <1>4

\* The instructions for some names.
LEMMA EmitBlocks ==
  ASSUME Len(defs) \in Nat, NEW names \in Seq(Idents), NEW k,
         k = Len(defs) + Len(names),
         NEW blocks \in Seq(Blocks(k)), NEW b \in 1 .. Len(blocks)
  PROVE  Emit(blocks, b, names) \in Seq(Blocks(k)) /\ Len(Emit(blocks, b, names)) = Len(blocks)
PROOF
  <1> DEFINE more == [i \in DOMAIN names |-> Next1 - 1 + i]
             B == Blocks(k)
  <1>1. more \in Seq(1 .. k)
    <2>1. Len(names) \in Nat /\ DOMAIN names = 1 .. Len(names)
      OBVIOUS
    <2>2. \A i \in 1 .. Len(names) : Next1 - 1 + i \in 1 .. k
      BY <2>1 DEF Next1
    <2>3. more \in [1 .. Len(names) -> 1 .. k]
      BY <2>1, <2>2
    <2> HIDE DEF more
    <2> QED
      BY <2>1, <2>3, IsSequence
  <1>2. blocks[b] \in B
    OBVIOUS
  <1>3. [blocks[b] EXCEPT !.insts = @ \o more] \in B
    <2>1. blocks[b].insts \in Seq(1 .. k)
      BY <1>2 DEF Blocks
    <2>2. blocks[b].insts \o more \in Seq(1 .. k)
      BY <1>1, <2>1
    <2> HIDE DEF more
    <2> QED
      BY <1>2, <2>2 DEF Blocks
  <1>4. Emit(blocks, b, names) = [blocks EXCEPT ![b] = [blocks[b] EXCEPT !.insts = @ \o more]]
    BY DEF Emit
  <1> DEFINE e == [blocks[b] EXCEPT !.insts = @ \o more]
  <1>5. e \in B /\ Emit(blocks, b, names) = [blocks EXCEPT ![b] = e] /\ blocks \in Seq(B)
    BY <1>3, <1>4
  <1> HIDE DEF B, e
  <1>6. Emit(blocks, b, names) \in Seq(B) /\ Len(Emit(blocks, b, names)) = Len(blocks)
    BY <1>5
  <1> QED
    BY <1>6 DEF B

\* An index expression goes on in a block of its own.
LEMMA IndexBlocks ==
  ASSUME NEW k \in Nat, NEW blocks \in Seq(Blocks(k)), NEW b \in 1 .. Len(blocks)
  PROVE  /\ Append([blocks EXCEPT ![b].term = "br"], Block(<<>>, "none")) \in Seq(Blocks(k))
         /\ Len(Append([blocks EXCEPT ![b].term = "br"], Block(<<>>, "none"))) = Len(blocks) + 1
PROOF
  <1> DEFINE B == Blocks(k)
             e == [blocks[b] EXCEPT !.term = "br"]
             new == Block(<<>>, "none")
  <1>1. blocks[b] \in B
    OBVIOUS
  <1>2. e \in B
    BY <1>1 DEF Blocks
  <1>3. new \in B
    <2>1. <<>> \in Seq(1 .. k)
      OBVIOUS
    <2> QED
      BY <2>1 DEF Blocks, Block
  <1>4. [blocks EXCEPT ![b].term = "br"] = [blocks EXCEPT ![b] = e] /\ blocks \in Seq(B)
    OBVIOUS
  <1> HIDE DEF B, e, new
  <1>5. /\ [blocks EXCEPT ![b] = e] \in Seq(B)
        /\ Len([blocks EXCEPT ![b] = e]) = Len(blocks)
    BY <1>2, <1>4
  <1> DEFINE s == [blocks EXCEPT ![b] = e]
  <1>6. s \in Seq(B) /\ Len(s) = Len(blocks) /\ [blocks EXCEPT ![b].term = "br"] = s
    BY <1>4, <1>5
  <1> HIDE DEF s
  <1>7. Append(s, new) \in Seq(B) /\ Len(Append(s, new)) = Len(s) + 1
    BY <1>3, <1>6
  <1> QED
    BY <1>6, <1>7 DEF B, new

\* A declaration with no instructions.
LEMMA BlocksKept ==
  ASSUME Inv, NEW d \in Decls, Declare(d), initFunc' = initFunc, context' = context
  PROVE  BlocksRight(d)
PROOF
  <1>1. Len(defs) + Len(d.names) \in Nat /\ Len(defs) <= Len(defs) + Len(d.names)
    BY Declared
  <1>2. context \in {NoBlock} \cup DOMAIN initFunc
    BY DEF Inv, TypesRight
  <1>3. /\ initFunc \in Seq(Blocks(Len(defs) + Len(d.names))) /\ Len(initFunc) \in Nat \ {0}
    BY <1>1, BlocksGrow
  <1> QED
    BY <1>2, <1>3 DEF BlocksRight

\* One with instructions for its names.
LEMMA BlocksEmitted ==
  ASSUME Inv, NEW d \in Decls, Declare(d),
         NEW blocks \in Seq(Blocks(Len(defs) + Len(d.names))), NEW b \in 1 .. Len(blocks),
         initFunc' = Emit(blocks, b, d.names), context' \in {NoBlock} \cup 1 .. Len(blocks)
  PROVE  BlocksRight(d) /\ Len(initFunc') = Len(blocks)
PROOF
  <1> DEFINE k == Len(defs) + Len(d.names)
             names == d.names
             e == Emit(blocks, b, names)
  <1>1. Len(defs) \in Nat /\ names \in Seq(Idents) /\ k = Len(defs) + Len(names)
    BY Declared
  <1>2. blocks \in Seq(Blocks(k)) /\ b \in 1 .. Len(blocks)
    OBVIOUS
  <1>3. initFunc' = e
    OBVIOUS
  <1> HIDE DEF k, names
  <1>4. initFunc' \in Seq(Blocks(k)) /\ Len(initFunc') = Len(blocks)
    <2>1. e \in Seq(Blocks(k)) /\ Len(e) = Len(blocks)
      BY ONLY <1>1, <1>2, EmitBlocks
    <2> QED
      BY <1>3, <2>1
  <1>5. Len(initFunc') > 0 /\ DOMAIN initFunc' = 1 .. Len(blocks)
    BY <1>2, <1>4
  <1> QED
    BY <1>4, <1>5 DEF BlocksRight, k

\* type T struct{..} and const x = ..
LEMMA TypeAdds ==
  ASSUME Inv, NEW d \in Decls, Declare(d), DefineType(d)
  PROVE  Adds(d, "type", Plain, {}, {})
PROOF
  <1>1. defs' = defs \o Made(d, "type", Plain, {}, {})
    BY MadeOne DEF DefineType
  <1>2. Placed(d, "type") /\ BoundRight(d, "type", {}, {})
    BY DEF DefineType, Placed, BoundRight, Scoped, Functions
  <1>3. Initialises(d, "type") /\ LocalOnly(d, "type", Plain)
    BY DEF DefineType, Initialises, LocalOnly
  <1>4. BlocksRight(d)
    BY BlocksKept DEF DefineType
  <1> QED
    BY <1>1, <1>2, <1>3, <1>4, Declared DEF DefineType, Adds, Kinds, Plain

LEMMA ConstAdds ==
  ASSUME Inv, NEW d \in Decls, Declare(d), AllocConst(d)
  PROVE  Adds(d, "const", Plain, {}, {})
PROOF
  <1>1. defs' = defs \o Made(d, "const", Plain, {}, {})
    BY MadeOne DEF AllocConst
  <1>2. Placed(d, "const") /\ BoundRight(d, "const", {}, {})
    BY DEF AllocConst, Placed, BoundRight, Scoped, Functions
  <1>3. Initialises(d, "const") /\ LocalOnly(d, "const", Plain)
    BY DEF AllocConst, Initialises, LocalOnly
  <1>4. BlocksRight(d)
    BY BlocksKept DEF AllocConst
  <1> QED
    BY <1>1, <1>2, <1>3, <1>4, Declared DEF AllocConst, Adds, Kinds, Plain

\* var x T
LEMMA ZeroAdds ==
  ASSUME Inv, NEW d \in Decls, Declare(d), AllocZero(d)
  PROVE  Adds(d, IF context = NoBlock THEN "global" ELSE "local", TypeOf(d.type), {}, {})
PROOF
  <1> DEFINE kind == IF context = NoBlock THEN "global" ELSE "local"
  <1>1. defs' = defs \o Made(d, kind, TypeOf(d.type), {}, {})
    BY MadeOne DEF AllocZero
  <1>2. TypeOf(d.type) \in 0 .. Len(defs)
    <2>1. LookupType(d.type) # {}
      BY DEF AllocZero, Resolved
    <2> QED
      BY <2>1, TypePlace DEF TypeOf
  <1>3. Placed(d, kind) /\ BoundRight(d, kind, {}, {})
    BY DEF AllocZero, Placed, BoundRight, Scoped, Functions
  <1>4. Initialises(d, kind)
    <2>1. CASE context = NoBlock
      BY <2>1 DEF AllocZero, Initialises
    <2>2. CASE context # NoBlock
      <3>1. context \in DOMAIN initFunc /\ initFunc' = Emit(initFunc, context, d.names)
        BY <2>2 DEF AllocZero, Inv, TypesRight
      <3>2. initFunc \in Seq(Blocks(Len(defs)))
        BY DEF Inv, TypesRight
      <3>3. Len(initFunc') = Len(initFunc)
        BY <3>1, <3>2 DEF Emit
      <3>4. Len(initFunc) = 1 => context = Entry
        BY <3>1, <3>2 DEF Entry
      <3> QED
        BY <3>1, <3>3, <3>4 DEF Initialises
    <2> QED
      BY <2>1, <2>2
  <1>5. LocalOnly(d, kind, TypeOf(d.type))
    BY DEF AllocZero, LocalOnly
  <1>6. BlocksRight(d)
    <2>1. Len(defs) + Len(d.names) \in Nat /\ Len(defs) <= Len(defs) + Len(d.names)
      BY Declared
    <2>2. /\ initFunc \in Seq(Blocks(Len(defs) + Len(d.names)))
          /\ Entry \in 1 .. Len(initFunc) /\ DOMAIN initFunc = 1 .. Len(initFunc)
      BY <2>1, BlocksGrow DEF Entry
    <2>3. context \in {NoBlock} \cup 1 .. Len(initFunc) /\ context' = context
      BY <2>2 DEF AllocZero, Inv, TypesRight
    <2>4. CASE context = NoBlock
      <3>1. initFunc' = Emit(initFunc, Entry, d.names)
        BY <2>4 DEF AllocZero
      <3> QED
        BY <2>2, <2>3, <3>1, BlocksEmitted
    <2>5. CASE context # NoBlock
      <3>1. initFunc' = Emit(initFunc, context, d.names) /\ context \in 1 .. Len(initFunc)
        BY <2>3, <2>5 DEF AllocZero
      <3> QED
        BY <2>2, <2>3, <3>1, BlocksEmitted
    <2> QED
      BY <2>4, <2>5
  <1>7. UNCHANGED <<current, heap, runs, status>> /\ kind \in Kinds \ {"extern"}
    BY DEF AllocZero, Kinds
  <1> QED
    BY <1>1, <1>2, <1>3, <1>4, <1>5, <1>6, <1>7 DEF Adds

\* func f(..) {..}
LEMMA FuncAdds ==
  ASSUME Inv, NEW d \in Decls, Declare(d), DefineFunc(d)
  PROVE  Adds(d, FuncKind(d.names[1]), Plain,
              Bound(DefinePkgVar(d.names), d.params, d.uses), d.params)
PROOF
  <1> DEFINE kind == FuncKind(d.names[1])
             bound == Bound(DefinePkgVar(d.names), d.params, d.uses)
  <1>1. d.form = "func" /\ packages' = DefinePkgVar(d.names)
    BY DEF DefineFunc
  <1>2. kind \in Functions
    BY DEF FuncKind, Functions
  <1>3. defs' = defs \o Made(d, kind, Plain, bound, d.params)
    <2>1. defs' = Append(defs, Def(kind, d.form, d.names[1], Plain, bound, d.params))
      BY DEF DefineFunc
    <2> HIDE DEF bound, kind
    <2> QED
      BY <1>1, <2>1, MadeOne
  <1>4. Placed(d, kind)
    BY <1>2 DEF DefineFunc, Placed, Scoped, Functions
  <1>5. BoundRight(d, kind, bound, d.params)
    BY <1>1 DEF BoundRight
  <1>6. Initialises(d, kind)
    BY <1>2 DEF DefineFunc, Initialises, CallLast, Functions
  <1>7. LocalOnly(d, kind, Plain)
    BY <1>2 DEF DefineFunc, LocalOnly, Functions
  <1>8. heap' = heap \cup (LookupType(d.type) \ {Plain})
    BY DEF DefineFunc
  <1>9. heap' \subseteq 1 .. Len(defs) \cup heap
    <2>1. \A t \in 0 .. Len(defs) : t # Plain => t \in 1 .. Len(defs)
      BY Declared DEF Plain
    <2> QED
      BY <1>8, <2>1, TypePlace
  <1>10. current' = current /\ runs' = runs /\ status' = status
    BY DEF DefineFunc
  <1>11. kind \in Kinds \ {"extern"}
    BY <1>2 DEF Kinds, Functions
  <1>12. Plain \in {Pointer} \cup 0 .. Len(defs)
    BY Declared DEF Plain
  <1>13. BlocksRight(d)
    <2>1. context' = context
      BY DEF DefineFunc
    <2>2. CASE kind = "init"
      <3>1. Len(defs) + Len(d.names) \in Nat /\ Len(defs) <= Len(defs) + Len(d.names)
        BY Declared
      <3>2. /\ initFunc \in Seq(Blocks(Len(defs) + Len(d.names)))
            /\ Entry \in 1 .. Len(initFunc) /\ DOMAIN initFunc = 1 .. Len(initFunc)
        BY <3>1, BlocksGrow DEF Entry
      <3>3. context' \in {NoBlock} \cup 1 .. Len(initFunc)
        BY <2>1, <3>2 DEF Inv, TypesRight
      <3>4. initFunc' = Emit(initFunc, Entry, d.names)
        BY <2>2 DEF DefineFunc, CallLast
      <3> QED
        BY <3>2, <3>3, <3>4, BlocksEmitted
    <2>3. CASE kind # "init"
      <3>1. initFunc' = initFunc
        BY <2>3 DEF DefineFunc
      <3> QED
        BY <2>1, <3>1, BlocksKept
    <2> QED
      BY <2>2, <2>3
  <1> QED
    BY <1>3, <1>4, <1>5, <1>6, <1>7, <1>8, <1>9, <1>10, <1>11, <1>12, <1>13 DEF Adds

\* The type of a value is a place in the definitions.
LEMMA ValuePlace ==
  ASSUME Inv, NEW d, NEW bound, LookupType(d.type) # {}
  PROVE  ValueType(d, bound) \in {Pointer} \cup 0 .. Len(defs)
PROOF
  <1>1. TypeOf(d.type) \in 0 .. Len(defs)
    BY TypePlace DEF TypeOf
  <1>2. \A n \in DOMAIN defs : defs[n].type \in {Pointer} \cup 0 .. Len(defs)
    <2> DEFINE D == DefTypes(Len(defs))
    <2>1. defs \in Seq(D)
      BY DEF Inv, TypesRight
    <2>2. \A e \in D : e.type \in {Pointer} \cup 0 .. Len(defs)
      BY DEF DefTypes
    <2> HIDE DEF D
    <2> QED
      BY <2>1, <2>2
  <1>3. Plain \in 0 .. Len(defs)
    BY DEF Plain, Inv, TypesRight
  <1>4. CASE d.form = "pointer"
    BY <1>4 DEF ValueType
  <1>5. CASE d.form = "struct"
    BY <1>1, <1>5 DEF ValueType
  <1>6. CASE d.form \notin {"pointer", "struct"}
    <2>1. CASE \E b \in bound : bound = {b} /\ b[2] \in DOMAIN defs
      <3>1. ValueType(d, bound) = defs[(CHOOSE b \in bound : TRUE)[2]].type
        BY <1>6, <2>1 DEF ValueType
      <3>2. (CHOOSE b \in bound : TRUE)[2] \in DOMAIN defs
        BY <2>1
      <3> QED
        BY <1>2, <3>1, <3>2
    <2>2. CASE ~\E b \in bound : bound = {b} /\ b[2] \in DOMAIN defs
      BY <1>3, <1>6, <2>2 DEF ValueType
    <2> QED
      BY <2>1, <2>2
  <1> QED
    BY <1>4, <1>5, <1>6

\* var x = ..
LEMMA ValueAdds ==
  ASSUME Inv, NEW d \in Decls, Declare(d), AllocValue(d)
  PROVE  \E kind, type : Adds(d, kind, type, Bound(packages, {}, d.uses), {})
PROOF
  <1> DEFINE first  == IF context = NoBlock THEN Entry ELSE context
             bound  == Bound(packages, {}, d.uses)
             value  == ValueType(d, bound)
             early  == ReturnsEarly(d.form, value)
             blocks == IF d.form = "index"
                         THEN Append([initFunc EXCEPT ![first].term = "br"], Block(<<>>, "none"))
                         ELSE initFunc
             last   == IF d.form = "index" THEN Len(blocks) ELSE first
             pkgVar == context = NoBlock /\ ~early
             kind   == IF pkgVar THEN "global" ELSE "local"
             type   == IF early /\ d.form = "multi" THEN Plain ELSE value
             k      == Len(defs) + Len(d.names)
  <1>1. /\ initFunc' = Emit(blocks, last, d.names)
        /\ context' = Reset(pkgVar, last)
        /\ IF pkgVar THEN packages' = DefinePkgVar(d.names) /\ UNCHANGED scope
           ELSE scope' = SetVar(d.names) /\ UNCHANGED packages
        /\ defs' = defs \o Made(d, kind, type, bound, {})
        /\ current' = current /\ heap' = heap /\ runs' = runs /\ status' = status
        /\ LookupType(d.type) # {}
    BY DEF AllocValue, Made, Resolved
  <1>2. type \in {Pointer} \cup 0 .. Len(defs)
    <2>1. value \in {Pointer} \cup 0 .. Len(defs)
      BY <1>1, ValuePlace
    <2>2. Plain \in 0 .. Len(defs)
      BY Declared DEF Plain
    <2> QED
      BY <2>1, <2>2
  <1>3. kind \in Kinds \ {"extern"}
    BY DEF Kinds
  <1>4. Placed(d, kind) /\ BoundRight(d, kind, bound, {})
    BY <1>1 DEF Placed, BoundRight, Scoped, Functions
  <1>5. LocalOnly(d, kind, type)
    BY <1>1 DEF LocalOnly, Reset, ReturnsEarly
  <1> HIDE DEF kind, type, bound, value, early, pkgVar
  <1>6. k \in Nat /\ Len(defs) <= k
    BY Declared
  <1>7. /\ initFunc \in Seq(Blocks(k)) /\ Len(initFunc) \in Nat \ {0}
        /\ DOMAIN initFunc = 1 .. Len(initFunc)
    <2> HIDE DEF k
    <2> QED
      BY <1>6, BlocksGrow
  <1>8. first \in 1 .. Len(initFunc)
    BY <1>7 DEF Inv, TypesRight, Entry
  <1>9. /\ blocks \in Seq(Blocks(k)) /\ last \in 1 .. Len(blocks)
        /\ Len(blocks) = 1 => blocks = initFunc /\ last = Entry
    <2> HIDE DEF k, first
    <2>1. CASE d.form = "index"
      <3>1. blocks \in Seq(Blocks(k)) /\ Len(blocks) = Len(initFunc) + 1
        BY <1>6, <1>7, <1>8, <2>1, IndexBlocks
      <3> HIDE DEF blocks
      <3> QED
        BY <1>7, <2>1, <3>1
    <2>2. CASE d.form # "index"
      BY <1>7, <1>8, <2>2 DEF Entry
    <2> QED
      BY <2>1, <2>2
  <1> HIDE DEF first, blocks, last
  <1>10. context' \in {NoBlock} \cup 1 .. Len(blocks)
    BY <1>1, <1>9 DEF Reset
  <1>11. BlocksRight(d) /\ Len(initFunc') = Len(blocks)
    BY <1>1, <1>9, <1>10, BlocksEmitted
  <1>12. Initialises(d, kind)
    BY <1>1, <1>9, <1>11 DEF Initialises, kind
  <1>13. heap' \subseteq 1 .. Len(defs) \cup heap
    BY <1>1
  <1>14. Adds(d, kind, type, bound, {})
    BY <1>1, <1>2, <1>3, <1>4, <1>5, <1>11, <1>12, <1>13 DEF Adds
  <1> QED
    BY <1>14 DEF bound

\* A declaration adds definitions, unless the compiler panics.
LEMMA DeclareAdds ==
  ASSUME Inv, NEW d \in Decls, Declare(d)
  PROVE  \/ status' = "failed" /\ UNCHANGED compiler
         \/ \E kind, type, bound, params : Adds(d, kind, type, bound, params)
PROOF
  <1>1. CASE DefineType(d)
    BY <1>1, TypeAdds
  <1>2. CASE AllocConst(d)
    BY <1>2, ConstAdds
  <1>3. CASE AllocZero(d)
    BY <1>3, ZeroAdds
  <1>4. CASE AllocValue(d)
    BY <1>4, ValueAdds
  <1>5. CASE DefineFunc(d)
    BY <1>5, FuncAdds
  <1>6. CASE Unresolved(d)
    BY <1>6 DEF Unresolved
  <1> QED
    BY <1>1, <1>2, <1>3, <1>4, <1>5, <1>6 DEF Declare

\* The definitions that are added, one by one.
LEMMA Added ==
  ASSUME Inv, NEW d \in Decls, Declare(d), NEW kind, NEW type, NEW bound, NEW params,
         Adds(d, kind, type, bound, params)
  PROVE  /\ Len(defs') = Len(defs) + Len(d.names) /\ DOMAIN defs' = 1 .. Len(defs')
         /\ \A n \in 1 .. Len(defs) : defs'[n] = defs[n]
         /\ \A i \in 1 .. Len(d.names) :
              defs'[Len(defs) + i] = Def(kind, d.form, d.names[i], type, bound, params)
         /\ \A n \in DOMAIN defs' :
              \/ n \in DOMAIN defs
              \/ \E i \in 1 .. Len(d.names) : n = Len(defs) + i
PROOF
  <1> DEFINE t == Made(d, kind, type, bound, params)
  <1>1. Len(d.names) \in Nat /\ DOMAIN d.names = 1 .. Len(d.names) /\ Len(defs) \in Nat
    BY Declared
  <1>2. /\ DOMAIN t = 1 .. Len(d.names)
        /\ \A i \in 1 .. Len(d.names) : t[i] = Def(kind, d.form, d.names[i], type, bound, params)
        /\ t \in [1 .. Len(d.names) -> ToSet(t)]
    BY <1>1 DEF Made, ToSet
  <1>3. defs' = defs \o t
    BY DEF Adds
  <1> HIDE DEF t
  <1>4. t \in Seq(ToSet(t)) /\ Len(t) = Len(d.names)
    <2>1. t \in Seq(ToSet(t))
      BY <1>1, <1>2, IsSequence
    <2> QED
      BY <1>1, <1>2, <2>1
  <1>5. defs \in Seq(ToSet(defs)) /\ DOMAIN defs = 1 .. Len(defs)
    BY DEF Inv, IInv, Typed
  <1>6. /\ defs' \in Seq(ToSet(defs')) /\ Len(defs') = Len(defs) + Len(t)
        /\ \A n \in 1 .. Len(defs) : defs'[n] = defs[n]
        /\ \A i \in 1 .. Len(t) : defs'[Len(defs) + i] = t[i]
    <2> DEFINE u == defs \o t
    <2>1. /\ u \in Seq(ToSet(u)) /\ Len(u) = Len(defs) + Len(t)
          /\ \A n \in 1 .. Len(defs) : u[n] = defs[n]
          /\ \A i \in 1 .. Len(t) : u[Len(defs) + i] = t[i]
      BY ONLY <1>4, <1>5, Concatenation
    <2> HIDE DEF u
    <2>2. defs' = u
      BY <1>3 DEF u
    <2> QED
      BY <2>1, <2>2
  <1>7. DOMAIN defs' = 1 .. Len(defs')
    BY <1>6
  <1>8. \A n \in DOMAIN defs' :
          n \in DOMAIN defs \/ \E i \in 1 .. Len(d.names) : n = Len(defs) + i
    <2> SUFFICES ASSUME NEW n \in DOMAIN defs', n \notin DOMAIN defs
                 PROVE  \E i \in 1 .. Len(d.names) : n = Len(defs) + i
      OBVIOUS
    <2>1. n \in Nat /\ n > Len(defs) /\ n <= Len(defs) + Len(d.names)
      BY <1>1, <1>4, <1>5, <1>6, <1>7
    <2>2. n - Len(defs) \in 1 .. Len(d.names) /\ n = Len(defs) + (n - Len(defs))
      BY <1>1, <2>1
    <2> QED
      BY <2>2
  <1> QED
    BY <1>2, <1>4, <1>6, <1>7, <1>8

\* Nothing that has been defined changes.
LEMMA Longer ==
  ASSUME Inv, NEW d \in Decls, Declare(d), NEW kind, NEW type, NEW bound, NEW params,
         Adds(d, kind, type, bound, params)
  PROVE  /\ DOMAIN defs = 1 .. Len(defs) /\ DOMAIN defs' = 1 .. Len(defs')
         /\ Len(defs) \in Nat /\ Len(defs') \in Nat /\ Len(defs) < Len(defs')
         /\ \A n \in DOMAIN defs : defs'[n] = defs[n]
PROOF
  <1>1. /\ DOMAIN defs = 1 .. Len(defs) /\ Len(defs) \in Nat
        /\ Len(d.names) \in Nat \ {0}
    BY Declared DEF Inv, TypesRight
  <1>2. /\ Len(defs') = Len(defs) + Len(d.names) /\ DOMAIN defs' = 1 .. Len(defs')
        /\ \A n \in 1 .. Len(defs) : defs'[n] = defs[n]
    BY Added
  <1> QED
    BY <1>1, <1>2

\* Their fields.
LEMMA AddedFields ==
  ASSUME Inv, NEW d \in Decls, Declare(d), NEW kind, NEW type, NEW bound, NEW params,
         Adds(d, kind, type, bound, params)
  PROVE  \A n \in DOMAIN defs' : n \notin DOMAIN defs =>
           /\ \E i \in 1 .. Len(d.names) : n = Len(defs) + i /\ defs'[n].name = d.names[i]
           /\ defs'[n].kind = kind /\ defs'[n].form = d.form /\ defs'[n].type = type
           /\ defs'[n].params = params /\ defs'[n].bound = bound
           /\ defs'[n].reads = Reads(bound) /\ defs'[n].path = current
           /\ defs'[n].dir = Top.dir /\ defs'[n].run = runs
PROOF
  <1>1. /\ \A i \in 1 .. Len(d.names) :
             defs'[Len(defs) + i] = Def(kind, d.form, d.names[i], type, bound, params)
        /\ \A n \in DOMAIN defs' :
             n \in DOMAIN defs \/ \E i \in 1 .. Len(d.names) : n = Len(defs) + i
    BY Added
  <1> TAKE n \in DOMAIN defs'
  <1> HAVE n \notin DOMAIN defs
  <1>2. PICK i \in 1 .. Len(d.names) : n = Len(defs) + i
    BY <1>1
  <1>3. defs'[n] = Def(kind, d.form, d.names[i], type, bound, params)
    BY <1>1, <1>2
  <1>4. defs'[n] = [kind |-> kind, form |-> d.form, name |-> d.names[i], type |-> type,
                    params |-> params, bound |-> bound, reads |-> Reads(bound),
                    path |-> current, dir |-> Top.dir, run |-> runs]
    BY <1>3 DEF Def
  <1> QED
    BY <1>2, <1>4

\* What names are bound to has been defined.
LEMMA BoundPlaces ==
  ASSUME Inv, NEW d \in Decls, Declare(d), NEW kind, NEW type, NEW bound, NEW params,
         Adds(d, kind, type, bound, params)
  PROVE  bound \subseteq d.uses \X (0 .. Len(defs) + 1)
  BY DEF Adds, BoundRight, Bound

\* The variables that are read are places in the definitions.
LEMMA ReadsPlaces ==
  ASSUME Inv, NEW bound
  PROVE  Reads(bound) \subseteq 0 .. Len(defs)
PROOF
  <1> DEFINE D == DefTypes(Len(defs))
  <1>1. defs \in Seq(D) /\ Len(defs) \in Nat
    BY DEF Inv, TypesRight
  <1>2. \A e \in D : e.reads \subseteq 0 .. Len(defs)
    BY DEF DefTypes
  <1> HIDE DEF D
  <1>3. \A n \in DOMAIN defs : defs[n].reads \subseteq 0 .. Len(defs) /\ n \in 0 .. Len(defs)
    BY <1>1, <1>2
  <1> QED
    BY <1>3 DEF Reads

\* Definitions have their types, also when there are more.
LEMMA DefTypesGrow ==
  ASSUME NEW n \in Nat, NEW k \in Nat, n <= k
  PROVE  DefTypes(n) \subseteq DefTypes(k)
PROOF
  <1>1. 0 .. n \subseteq 0 .. k
    OBVIOUS
  <1>2. {Pointer} \cup 0 .. n \subseteq {Pointer} \cup 0 .. k
    BY <1>1
  <1>3. SUBSET (Refs \X (0 .. n)) \subseteq SUBSET (Refs \X (0 .. k))
    BY <1>1
  <1>4. SUBSET (0 .. n) \subseteq SUBSET (0 .. k)
    BY <1>1
  <1> DEFINE A == {Pointer} \cup 0 .. n
             B == SUBSET (Refs \X (0 .. n))
             C == SUBSET (0 .. n)
             A2 == {Pointer} \cup 0 .. k
             B2 == SUBSET (Refs \X (0 .. k))
             C2 == SUBSET (0 .. k)
  <1>5. /\ DefTypes(n) = [kind : Kinds, form : Forms, name : Idents, type : A,
                          params : SUBSET Idents, bound : B, reads : C,
                          path : Paths, dir : Dirs, run : Nat]
        /\ DefTypes(k) = [kind : Kinds, form : Forms, name : Idents, type : A2,
                          params : SUBSET Idents, bound : B2, reads : C2,
                          path : Paths, dir : Dirs, run : Nat]
        /\ A \subseteq A2 /\ B \subseteq B2 /\ C \subseteq C2
    BY <1>2, <1>3, <1>4 DEF DefTypes
  <1> HIDE DEF A, B, C, A2, B2, C2
  <1> QED
    BY <1>5

LEMMA DefTyped ==
  ASSUME Inv, NEW d \in Decls, Declare(d), NEW kind, NEW type, NEW bound, NEW params,
         Adds(d, kind, type, bound, params), NEW i \in 1 .. Len(d.names)
  PROVE  Def(kind, d.form, d.names[i], type, bound, params) \in DefTypes(Len(defs) + Len(d.names))
PROOF
  <1> DEFINE n == Len(defs)
             k == Len(defs) + Len(d.names)
             e == Def(kind, d.form, d.names[i], type, bound, params)
  <1>1. n \in Nat /\ k \in Nat /\ n + 1 <= k
    BY Declared
  <1>2. kind \in Kinds /\ d.form \in Forms /\ d.names[i] \in Idents
    <2>1. d \in Decl /\ d.names \in Seq(Idents)
      BY Declared
    <2> QED
      BY <2>1 DEF Adds, Decl
  <1>3. type \in {Pointer} \cup 0 .. n
    BY DEF Adds
  <1>4. params \subseteq Idents
    BY Declared DEF Adds, BoundRight
  <1>5. bound \subseteq d.uses \X (0 .. n + 1)
    BY BoundPlaces
  <1>6. Reads(bound) \subseteq 0 .. n
    BY ReadsPlaces
  <1>7. current \in Paths /\ Top.dir \in Dirs /\ runs \in Nat /\ d.uses \subseteq Refs
    BY Declared DEF Inv, TypesRight, FrameType
  <1> HIDE DEF n, k
  <1>8. type \in {Pointer} \cup 0 .. k
    BY <1>1, <1>3
  <1>9. bound \in SUBSET (Refs \X (0 .. k))
    <2>1. 0 .. n + 1 \subseteq 0 .. k
      BY <1>1
    <2> DEFINE U == d.uses
               P == 0 .. n + 1
               Q == 0 .. k
    <2>2. U \subseteq Refs /\ P \subseteq Q /\ bound \subseteq U \X P
      BY <1>5, <1>7, <2>1
    <2> HIDE DEF U, P, Q
    <2>3. bound \subseteq Refs \X Q
      BY <2>2
    <2> QED
      BY <2>3 DEF Q
  <1>10. Reads(bound) \in SUBSET (0 .. k)
    <2>1. 0 .. n \subseteq 0 .. k
      BY <1>1
    <2> QED
      BY <1>6, <2>1
  <1>11. e = [kind |-> kind, form |-> d.form, name |-> d.names[i], type |-> type,
              params |-> params, bound |-> bound, reads |-> Reads(bound),
              path |-> current, dir |-> Top.dir, run |-> runs]
    BY DEF Def
  <1> HIDE DEF e
  <1>12. e \in DefTypes(k)
    BY <1>2, <1>4, <1>7, <1>8, <1>9, <1>10, <1>11 DEF DefTypes
  <1> QED
    BY <1>12 DEF e, k

-----------------------------------------------------------------------------
(* The steps *)

\* A step that keeps the compiler, before the declarations of a package or after them.
LEMMA TypesKept ==
  ASSUME Inv, imports' = imports, text' = text, UNCHANGED compiler, ~Compiling',
         status' \in {"running", "compiled", "built", "failed", "overflow"}
  PROVE  TypesRight'
  BY DEF Inv, TypesRight, compiler

\* A call of compilePackage has begun or ended, or goes on with its imports.
LEMMA ImportTypes == ASSUME Inv, Import PROVE TypesRight'
PROOF
  <1> DEFINE p == Head(Top.todo)
             f == [Top EXCEPT !.todo = Tail(@), !.calls = Calls(p)]
  <1>1. status = "running" /\ Top.at = 0
    BY DEF Import, Importing
  <1>2. CASE NotFound
    BY <1>2, TypesKept DEF NotFound, Fail, source, Compiling
  <1>3. CASE stack' = Replaced(f) /\ UNCHANGED <<source, compiler, status>>
    <2>1. Top \in FrameType /\ Typed
      BY <1>1, TopType DEF Inv, IInv
    <2>2. f.at = 0
      BY <1>1, <2>1 DEF FrameType
    <2>3. stack \in Seq(FrameType) /\ Len(stack) \in Nat \ {0}
      BY <1>1, <2>1, TopType DEF Typed
    <2> HIDE DEF f
    <2>4. Top' = f
      BY <1>3, <2>3 DEF Top, Last, Replaced
    <2>5. ~Compiling'
      BY <2>2, <2>4 DEF Compiling
    <2> QED
      BY <1>1, <1>3, <2>5, TypesKept DEF source
  <1> QED
    BY <1>2, <1>3 DEF Import

LEMMA LoadTypes == ASSUME Inv, Load PROVE TypesRight'
PROOF
  <1>1. status = "running" /\ UNCHANGED <<source, compiler>>
    BY DEF Load, Importing
  <1>2. CASE status' = "overflow"
    BY <1>1, <1>2, TypesKept DEF source, Compiling
  <1>3. CASE status' = status
    <2> DEFINE call == Head(Top.calls)
               new == Frame(call.dir, call.path)
               g == [Top EXCEPT !.calls = Tail(@)]
    <2>1. stack' = Append(Replaced(g), new)
      BY <1>1, <1>3 DEF Load
    <2>2. new.at = 0
      BY DEF Frame
    <2>3. stack \in Seq(FrameType) /\ Len(stack) \in Nat \ {0}
      BY <1>1, TopType DEF Inv, IInv, Typed
    <2> HIDE DEF new, g
    <2>4. Replaced(g) \in Seq(FrameType \cup {g}) /\ Len(Replaced(g)) = Len(stack)
      BY <2>3 DEF Replaced
    <2>5. Top' = new
      <3> DEFINE s == Replaced(g)
                 S == FrameType \cup {g, new}
      <3>1. s \in Seq(S) /\ new \in S /\ stack' = Append(s, new)
        BY <2>1, <2>4
      <3> HIDE DEF s, S
      <3> QED
        BY <3>1 DEF Top, Last
    <2>6. ~Compiling'
      BY <2>2, <2>5 DEF Compiling
    <2> QED
      BY <1>1, <1>3, <2>6, TypesKept DEF source
  <1> QED
    BY <1>2, <1>3 DEF Load

LEMMA EndTypes == ASSUME Inv, EndCompile PROVE TypesRight'
PROOF
  <1> DEFINE n == Len(stack)
  <1>1. /\ status = "running" /\ stack' = Front(stack) /\ imports' = imports /\ text' = text
        /\ UNCHANGED compiler /\ status' = IF n = 1 THEN "compiled" ELSE status
    BY DEF EndCompile, Compiling
  <1>2. n \in Nat \ {0} /\ stack \in Seq(FrameType) /\ n = Len(stack) /\ DOMAIN stack = 1 .. n
    BY <1>1, TopType DEF Inv, IInv, Typed
  <1>3. Len(stack') = n - 1 /\ \A i \in 1 .. n - 1 : stack'[i] = stack[i]
    <2>1. stack' = SubSeq(stack, 1, n - 1)
      BY <1>1 DEF Front
    <2>2. n - 1 \in Nat /\ n - 1 <= n
      BY <1>2
    <2> HIDE DEF n
    <2> QED
      BY <1>2, <2>1, <2>2
  <1> HIDE DEF n
  <1>4. CASE n = 1
    BY <1>1, <1>4, TypesKept DEF Compiling
  <1>5. CASE n # 1
    <2>1. n - 1 \in 1 .. n /\ n - 1 \in 1 .. n - 1
      BY <1>2, <1>5
    <2>2. Top' = stack[n - 1]
      BY <1>3, <2>1 DEF Top, Last
    <2>3. ~(stack[n - 1].at > 0)
      <3>1. n - 1 # n
        BY <1>2
      <3> QED
        BY <1>2, <2>1, <3>1 DEF Inv, IInv, Started
    <2>4. ~Compiling'
      BY <2>2, <2>3 DEF Compiling
    <2> QED
      BY <1>1, <1>5, <2>4, TypesKept
  <1> QED
    BY <1>4, <1>5

LEMMA AssembleTypes == ASSUME Inv, Assemble PROVE TypesRight'
  BY TypesKept DEF Assemble, Compiling, source

\* An empty package.
LEMMA NewPkgType ==
  ASSUME NEW n \in Nat
  PROVE  <<>> \in Tables(n) /\ NewPkg \in [vars : Tables(n), types : Tables(n)]
PROOF
  <1>1. <<>> \in [DOMAIN <<>> -> 1 .. n] /\ DOMAIN <<>> \subseteq Idents
    OBVIOUS
  <1>2. <<>> \in Tables(n)
    BY <1>1, TableIs
  <1> QED
    BY <1>2 DEF NewPkg

LEMMA StartTypes == ASSUME Inv, StartCompile PROVE TypesRight'
PROOF
  <1> DEFINE f == [Top EXCEPT !.at = 1]
             P == [vars : Tables(Len(defs)), types : Tables(Len(defs))]
  <1>1. /\ status = "running" /\ stack' = Replaced(f)
        /\ packages' = [p \in DOMAIN packages \cup {Top.path} |->
                          IF p = Top.path THEN NewPkg ELSE packages[p]]
        /\ current' = Top.path /\ runs' = runs + 1
        /\ UNCHANGED <<imports, text, scope, context, initFunc, heap, defs, status>>
    BY DEF StartCompile, Importing, CurrentName, source
  <1>2. Top \in FrameType /\ stack \in Seq(FrameType) /\ Len(stack) \in Nat \ {0}
    BY <1>1, TopType DEF Inv, IInv, Typed
  <1>3. f.path = Top.path /\ Top.path \in Paths
    BY <1>2 DEF FrameType
  <1> HIDE DEF f
  <1>4. Top' = f
    BY <1>1, <1>2 DEF Top, Last, Replaced
  <1>5. Len(defs) \in Nat /\ NewPkg \in P
    BY NewPkgType DEF Inv, TypesRight
  <1>6. packages \in [DOMAIN packages -> P] /\ DOMAIN packages \subseteq Paths
    BY DEF Inv, TypesRight
  <1> HIDE DEF P
  <1>7. /\ packages' \in [DOMAIN packages' -> P] /\ DOMAIN packages' \subseteq Paths
        /\ Top.path \in DOMAIN packages'
    BY <1>1, <1>3, <1>5, <1>6
  <1>8. runs' \in Nat
    BY <1>1 DEF Inv, TypesRight
  <1> QED
    BY <1>1, <1>3, <1>4, <1>7, <1>8 DEF Inv, TypesRight, P

\* The tables after a declaration.
LEMMA PlacedTypes ==
  ASSUME Inv, NEW d \in Decls, Declare(d), NEW kind, Placed(d, kind)
  PROVE  LET k == Len(defs) + Len(d.names)
         IN  /\ DOMAIN packages' = DOMAIN packages
             /\ packages' \in [DOMAIN packages -> [vars : Tables(k), types : Tables(k)]]
             /\ scope' \in Tables(k)
PROOF
  <1> DEFINE n == Len(defs)
             k == Len(defs) + Len(d.names)
             P(m) == [vars : Tables(m), types : Tables(m)]
             names == d.names
  <1>1. /\ n \in Nat /\ k \in Nat /\ n <= k /\ names \in Seq(Idents) /\ k = n + Len(names)
        /\ Next1 = n + 1
    BY Declared DEF Next1
  <1>2. current \in DOMAIN packages
    BY Declared
  <1>3. packages \in [DOMAIN packages -> P(n)] /\ scope \in Tables(n)
    BY DEF Inv, TypesRight
  <1>4. \/ packages' = packages
        \/ packages' = [packages EXCEPT ![current].vars = Defining(@, names, Next1)]
        \/ packages' = [packages EXCEPT ![current].types = Defining(@, names, Next1)]
    BY DEF Placed, DefinePkgType, DefinePkgVar
  <1>5. scope' = scope \/ scope' = Defining(scope, names, Next1)
    BY DEF Placed, SetVar
  <1> HIDE DEF n, k, names
  <1>6. Tables(n) \subseteq Tables(k)
    BY <1>1, TablesGrow
  <1>7. \A f \in Tables(n) : Defining(f, names, Next1) \in Tables(k)
    BY <1>1, DefiningTable
  <1>8. scope' \in Tables(k)
    BY <1>3, <1>5, <1>6, <1>7
  <1>9. \A q \in P(n) :
          /\ q \in P(k)
          /\ [q EXCEPT !.vars = Defining(@, names, Next1)] \in P(k)
          /\ [q EXCEPT !.types = Defining(@, names, Next1)] \in P(k)
    BY <1>6, <1>7
  <1> HIDE DEF P
  <1>10. DOMAIN packages' = DOMAIN packages /\ packages' \in [DOMAIN packages -> P(k)]
    <2>1. CASE packages' = packages
      BY <1>3, <1>9, <2>1
    <2>2. CASE packages' = [packages EXCEPT ![current].vars = Defining(@, names, Next1)]
      BY <1>2, <1>3, <1>9, <2>2
    <2>3. CASE packages' = [packages EXCEPT ![current].types = Defining(@, names, Next1)]
      BY <1>2, <1>3, <1>9, <2>3
    <2> QED
      BY <1>4, <2>1, <2>2, <2>3
  <1> QED
    BY <1>8, <1>10 DEF P, k

\* The call of a package that is being compiled stays that.
LEMMA DeclareTop ==
  ASSUME Inv, NEW d \in Decls, Declare(d)
  PROVE  Top' = [Top EXCEPT !.at = @ + 1]
PROOF
  <1>1. Top \in FrameType /\ stack \in Seq(FrameType) /\ Len(stack) \in Nat \ {0}
    BY Declared, TopType DEF Inv, IInv, Typed
  <1>2. stack' = Replaced([Top EXCEPT !.at = @ + 1])
    BY DEF Declare
  <1> DEFINE f == [Top EXCEPT !.at = @ + 1]
  <1> HIDE DEF f
  <1>3. stack' = Replaced(f)
    BY <1>2 DEF f
  <1>4. Top' = f
    BY <1>1, <1>3 DEF Top, Last, Replaced
  <1> QED
    BY <1>4 DEF f

LEMMA DeclareTypes == ASSUME Inv, NEW d \in Decls, Declare(d) PROVE TypesRight'
PROOF
  <1>1. imports' = imports /\ imports \in Layouts
    BY DEF Declare, Inv, TypesRight
  <1>2. text' \in [Dirs -> Seq(Decls)]
    <2>1. text \in [Dirs -> Seq(Decls)] /\ Top.dir \in Dirs
      BY Declared DEF Inv, TypesRight, FrameType
    <2>2. text' = text \/ text' = [text EXCEPT ![Top.dir] = Append(@, d)]
      BY DEF Declare, Written
    <2>3. Append(text[Top.dir], d) \in Seq(Decls)
      BY <2>1
    <2> QED
      BY <2>1, <2>2, <2>3
  <1>3. Compiling /\ current = Top.path /\ Top \in FrameType
    BY Declared
  <1>4. Top'.path = Top.path
    <2>1. Top' = [Top EXCEPT !.at = @ + 1]
      BY DeclareTop
    <2> QED
      BY <1>3, <2>1 DEF FrameType
  <1>5. CASE status' = "failed" /\ UNCHANGED compiler
    BY <1>1, <1>2, <1>5 DEF Inv, TypesRight, compiler, Compiling
  <1>6. CASE \E kind, type, bound, params : Adds(d, kind, type, bound, params)
    <2>1. PICK kind, type, bound, params : Adds(d, kind, type, bound, params)
      BY <1>6
    <2> DEFINE n == Len(defs)
               k == Len(defs) + Len(d.names)
               A == DefTypes(n)
               B == DefTypes(k)
    <2>2. n \in Nat /\ k \in Nat /\ n <= k /\ Len(d.names) \in Nat
      BY Declared
    <2>3. /\ DOMAIN packages' = DOMAIN packages
          /\ packages' \in [DOMAIN packages -> [vars : Tables(k), types : Tables(k)]]
          /\ scope' \in Tables(k)
      BY <2>1, PlacedTypes DEF Adds
    <2>4. /\ Len(defs') = k /\ DOMAIN defs' = 1 .. Len(defs')
          /\ \A m \in 1 .. n : defs'[m] = defs[m]
          /\ \A i \in 1 .. Len(d.names) :
               defs'[n + i] = Def(kind, d.form, d.names[i], type, bound, params)
          /\ \A m \in DOMAIN defs' :
               m \in DOMAIN defs \/ \E i \in 1 .. Len(d.names) : m = n + i
      BY <2>1, Added
    <2>5. \A i \in 1 .. Len(d.names) :
            Def(kind, d.form, d.names[i], type, bound, params) \in B
      BY <2>1, DefTyped
    <2>6. DOMAIN defs = 1 .. n /\ \A m \in 1 .. n : defs[m] \in A
      <3>1. defs \in Seq(A) /\ n = Len(defs)
        BY DEF Inv, TypesRight
      <3> HIDE DEF A, n
      <3> QED
        BY <3>1
    <2>7. initFunc' \in Seq(Blocks(k)) /\ Len(initFunc') > 0
            /\ context' \in {NoBlock} \cup DOMAIN initFunc'
      BY <2>1 DEF Adds, BlocksRight
    <2>8. /\ heap' \subseteq 1 .. n
          /\ runs' \in Nat /\ current' = current /\ status' = status
      BY <2>1 DEF Adds, Inv, TypesRight
    <2> HIDE DEF n, k
    <2>9. heap' \subseteq 1 .. k
      BY <2>2, <2>8
    <2>10. defs' \in Seq(B)
      <3>1. A \subseteq B
        BY <2>2, DefTypesGrow
      <3> HIDE DEF A, B
      <3>2. \A m \in 1 .. k : defs'[m] \in B
        <4> SUFFICES ASSUME NEW m \in DOMAIN defs' PROVE defs'[m] \in B
          BY <2>4
        <4>1. CASE m \in DOMAIN defs
          <5>1. defs[m] \in A /\ defs'[m] = defs[m]
            BY <2>4, <2>6, <4>1
          <5> QED
            BY <3>1, <5>1
        <4>2. CASE m \notin DOMAIN defs
          BY <2>4, <2>5, <4>2
        <4> QED
          BY <4>1, <4>2
      <3>3. defs' \in Seq(ToSet(defs'))
        BY DeclareStep DEF Inv, IInv, Typed
      <3>4. defs' \in [1 .. k -> B]
        BY <2>4, <3>2, <3>3
      <3> QED
        BY <2>2, <3>4, IsSequence
    <2>11. status' \in {"running", "compiled", "built", "failed", "overflow"}
      BY <2>8 DEF Inv, TypesRight
    <2>12. current' = Top'.path /\ current' \in DOMAIN packages'
      BY <1>3, <1>4, <2>3, <2>8 DEF Inv, TypesRight
    <2>13. DOMAIN packages' \subseteq Paths
      BY <2>3 DEF Inv, TypesRight
    <2> QED
      BY <1>1, <1>2, <2>3, <2>4, <2>7, <2>8, <2>9, <2>10, <2>11, <2>12, <2>13 DEF TypesRight
  <1> QED
    BY <1>5, <1>6, DeclareAdds

\* Only the package external is there at first.
LEMMA TypesInit == Init => TypesRight
PROOF
  <1> SUFFICES ASSUME Init PROVE TypesRight
    OBVIOUS
  <1> DEFINE externals == SetToSeq(ExternalVars)
             n == Cardinality(ExternalVars)
             table == Defining(<<>>, externals, 1)
             pkg == [NewPkg EXCEPT !.vars = table]
  <1>1. n \in Nat /\ externals \in [1 .. n -> ExternalVars]
    BY ExternalsType
  <1>2. /\ imports \in Layouts /\ text = [d \in Dirs |-> <<>>] /\ stack = <<Frame(Root, Main)>>
        /\ packages = [p \in {External} |-> pkg]
        /\ current = Own /\ scope = <<>> /\ context = NoBlock
        /\ initFunc = <<Block(<<>>, "ret")>> /\ heap = {}
        /\ defs = [i \in DOMAIN externals |-> Extern(externals[i])]
        /\ runs = 0 /\ status = "running"
    BY DEF Init
  <1>3. externals \in Seq(Idents) /\ Len(externals) = n
    <2>1. externals \in [1 .. n -> Idents]
      BY <1>1, PackagesAssumption
    <2> HIDE DEF externals, n
    <2> QED
      BY <1>1, <2>1, IsSequence
  <1> HIDE DEF externals, n, table, pkg
  <1>4. defs \in Seq(DefTypes(n)) /\ Len(defs) = n
    <2>1. DOMAIN defs = 1 .. n /\ \A i \in 1 .. n : defs[i] = Extern(externals[i])
      BY <1>1, <1>2
    <2>2. ASSUME NEW x \in Idents PROVE Extern(x) \in DefTypes(n)
      <3>1. External \in Paths /\ Root \in Dirs
        BY PackagesAssumption
      <3>2. Plain \in {Pointer} \cup 0 .. n
        BY <1>1 DEF Plain
      <3>3. {} \in SUBSET (Refs \X (0 .. n)) /\ {} \in SUBSET (0 .. n) /\ {} \in SUBSET Idents
        OBVIOUS
      <3> QED
        BY <3>1, <3>2, <3>3 DEF Extern, DefTypes, Kinds, Forms
    <2>3. \A i \in 1 .. n : externals[i] \in Idents
      BY <1>1, PackagesAssumption
    <2>4. defs \in [1 .. n -> DefTypes(n)]
      BY <1>1, <1>2, <2>1, <2>2, <2>3
    <2> DEFINE D == DefTypes(n)
    <2> HIDE DEF D
    <2>5. defs \in Seq(D)
      BY <1>1, <2>4, IsSequence DEF D
    <2>6. Len(defs) = n
      BY <1>1, <2>1, <2>5
    <2> QED
      BY <2>5, <2>6 DEF D
  <1>5. /\ packages \in [DOMAIN packages -> [vars : Tables(n), types : Tables(n)]]
        /\ DOMAIN packages = {External}
    <2>1. <<>> \in Tables(0) /\ <<>> \in Tables(n) /\ NewPkg \in [vars : Tables(n), types : Tables(n)]
      BY <1>1, NewPkgType
    <2>2. table \in Tables(n)
      <3>1. Defining(<<>>, externals, 0 + 1) \in Tables(0 + Len(externals))
        BY <1>3, <2>1, DefiningTable
      <3>2. 0 + 1 = 1 /\ 0 + Len(externals) = n
        BY <1>1, <1>3
      <3> QED
        BY <3>1, <3>2 DEF table
    <2>3. pkg \in [vars : Tables(n), types : Tables(n)]
      BY <2>1, <2>2 DEF pkg
    <2> QED
      BY <1>2, <2>3
  <1>6. scope \in Tables(n)
    BY <1>1, <1>2, NewPkgType
  <1>7. initFunc \in Seq(Blocks(n)) /\ Len(initFunc) > 0
    <2>1. Block(<<>>, "ret") \in Blocks(n)
      <3>1. <<>> \in Seq(1 .. n)
        OBVIOUS
      <3> QED
        BY <3>1 DEF Block, Blocks
    <2> DEFINE b == Block(<<>>, "ret")
               B == Blocks(n)
    <2> HIDE DEF b, B
    <2>2. initFunc = <<b>> /\ b \in B
      BY <1>2, <2>1 DEF b, B
    <2>3. initFunc \in Seq(B) /\ Len(initFunc) > 0
      BY <2>2
    <2> QED
      BY <2>3 DEF B
  <1>8. ~Compiling
    <2> DEFINE fr == Frame(Root, Main)
    <2>1. fr.at = 0
      BY DEF Frame
    <2> HIDE DEF fr
    <2>2. Top = fr
      BY <1>2 DEF Top, Last, fr
    <2> QED
      BY <2>1, <2>2 DEF Compiling
  <1>9. text \in [Dirs -> Seq(Decls)]
    BY <1>2
  <1>10. External \in Paths
    BY PackagesAssumption
  <1> QED
    BY <1>1, <1>2, <1>4, <1>5, <1>6, <1>7, <1>8, <1>9, <1>10 DEF TypesRight

\* Every step keeps the types.
LEMMA InvHolds == Init => Inv
  BY InitHolds, TypesInit DEF Inv

LEMMA InvKeeps == Inv /\ [Next]_vars => Inv'
PROOF
  <1> SUFFICES ASSUME Inv, [Next]_vars PROVE Inv'
    OBVIOUS
  <1>1. IInv'
    BY NextKeeps DEF Inv
  <1>2. CASE UNCHANGED vars
    <2>1. TypesRight'
      BY <1>2 DEF Inv, TypesRight, vars, source, compiler, Compiling, Top
    <2> QED
      BY <1>1, <2>1 DEF Inv
  <1>3. CASE \E d \in Decls : Declare(d)
    BY <1>1, <1>3, DeclareTypes DEF Inv
  <1> QED
    BY <1>1, <1>2, <1>3, ImportTypes, LoadTypes, StartTypes, EndTypes, AssembleTypes
    DEF Next, Inv

\* What the compiler's tables, its scope, global-init and the definitions refer to
\* exists, and they have their types: TypeOK, the type invariant of Packages, for any
\* directories, imports and declarations (compiler.go:62-102, alloc.go:20-140).
THEOREM TablesTyped == Spec => []TypeOK
PROOF
  <1>1. Inv => TypeOK
    <2> SUFFICES ASSUME Inv PROVE TypeOK
      OBVIOUS
    <2>1. done \subseteq Dirs /\ stack \in Seq(FrameType)
      BY DEF Inv, IInv, Typed
    <2>2. /\ imports \in Layouts /\ text \in [Dirs -> Seq(Decls)] /\ DOMAIN packages \subseteq Paths
          /\ current \in (DOMAIN packages \cap Paths) \cup {Own}
          /\ context \in {NoBlock} \cup DOMAIN initFunc /\ heap \subseteq 1 .. Len(defs)
          /\ runs \in Nat /\ status \in {"running", "compiled", "built", "failed", "overflow"}
          /\ Len(defs) \in Nat
      BY DEF Inv, TypesRight
    <2>3. \A f \in Tables(Len(defs)) : IsTable(f)
      BY <2>2, TableIs DEF IsTable
    <2>4. IsTable(scope)
      BY <2>3 DEF Inv, TypesRight
    <2>5. \A p \in DOMAIN packages : IsTable(packages[p].vars) /\ IsTable(packages[p].types)
      <3>1. packages \in [DOMAIN packages -> [vars : Tables(Len(defs)), types : Tables(Len(defs))]]
        BY DEF Inv, TypesRight
      <3> QED
        BY <2>3, <3>1
    <2>6. initFunc \in Seq([insts : Seq(1 .. Len(defs)), term : {"ret", "br", "none"}])
      BY DEF Inv, TypesRight, Blocks
    <2>7. defs \in Seq(DefType)
      <3>1. DefType = DefTypes(Len(defs))
        BY DEF DefType, DefTypes, Places, Kinds
      <3> QED
        BY <3>1 DEF Inv, TypesRight
    <2> QED
      BY <2>1, <2>2, <2>4, <2>5, <2>6, <2>7 DEF TypeOK
  <1> QED
    BY <1>1, InvHolds, InvKeeps, PTL DEF Spec

-----------------------------------------------------------------------------
(* Early returns *)

\* Only a declaration changes what has been defined, or global-init.
LEMMA OnlyDeclare ==
  ASSUME [Next]_vars, ~\E d \in Decls : Declare(d)
  PROVE  UNCHANGED <<defs, heap, context, initFunc, scope>>
  BY DEF Next, Import, NotFound, Fail, Load, StartCompile, EndCompile, Assemble,
         vars, source, compiler

\* Definition n is a variable that alloc.go returned early for.
Early(n) ==
  /\ defs[n].kind = "local"
  /\ defs[n].form = "multi" \/ defs[n].type = Pointer \/ defs[n].type \in heap

\* OnlyEarlyReturnsLeak, spelt out.
LEMMA LeaksAre ==
  OnlyEarlyReturnsLeak <=>
    /\ context # NoBlock => \E n \in DOMAIN defs : Early(n)
    /\ \A n \in DOMAIN defs : defs[n].kind = "local" => \E m \in 1 .. n : Early(m)
  BY DEF OnlyEarlyReturnsLeak, Early

LEMMA LeaksInit == Init => OnlyEarlyReturnsLeak
PROOF
  <1> SUFFICES ASSUME Init PROVE OnlyEarlyReturnsLeak
    OBVIOUS
  <1>1. context = NoBlock
    BY DEF Init
  <1>2. \A n \in DOMAIN defs : defs[n].kind = "extern"
    <2>1. defs = [i \in DOMAIN SetToSeq(ExternalVars) |-> Extern(SetToSeq(ExternalVars)[i])]
      BY DEF Init
    <2> HIDE DEF Init
    <2> QED
      BY <2>1 DEF Extern
  <1> QED
    BY <1>1, <1>2, LeaksAre

\* A variable that becomes an instruction of global-init is one alloc.go returns early
\* for, or there has been one before.
LEMMA LeaksKept ==
  ASSUME Inv, OnlyEarlyReturnsLeak, [Next]_vars
  PROVE  OnlyEarlyReturnsLeak'
PROOF
  <1>1. CASE UNCHANGED <<defs, heap, context>>
    BY <1>1 DEF OnlyEarlyReturnsLeak
  <1>2. ASSUME NEW d \in Decls, Declare(d) PROVE OnlyEarlyReturnsLeak'
    <2>1. CASE status' = "failed" /\ UNCHANGED compiler
      BY <1>1, <2>1 DEF compiler
    <2>2. CASE \E kind, type, bound, params : Adds(d, kind, type, bound, params)
      <3>1. PICK kind, type, bound, params : Adds(d, kind, type, bound, params)
        BY <2>2
      <3>2. /\ DOMAIN defs = 1 .. Len(defs) /\ DOMAIN defs' = 1 .. Len(defs')
            /\ Len(defs) \in Nat /\ Len(defs') \in Nat /\ Len(defs) < Len(defs')
            /\ \A m \in DOMAIN defs : defs'[m] = defs[m]
        BY <1>2, <3>1, Longer
      <3>3. \A m \in DOMAIN defs' : m \notin DOMAIN defs =>
              defs'[m].kind = kind /\ defs'[m].form = d.form /\ defs'[m].type = type
        BY <1>2, <3>1, AddedFields
      <3>4. LocalOnly(d, kind, type) /\ heap \subseteq heap'
        BY <3>1 DEF Adds
      <3>5. \A m \in DOMAIN defs : Early(m) => m \in DOMAIN defs' /\ Early(m)'
        <4> SUFFICES ASSUME NEW m \in DOMAIN defs, Early(m)
                     PROVE  m \in DOMAIN defs' /\ Early(m)'
          OBVIOUS
        <4>1. defs'[m] = defs[m] /\ m \in DOMAIN defs'
          BY <3>2
        <4> QED
          BY <3>4, <4>1 DEF Early
      <3>6. ASSUME context # NoBlock PROVE \E m \in DOMAIN defs : Early(m)'
        BY <3>5, <3>6, LeaksAre
      <3>7. ASSUME context = NoBlock, kind = "local", NEW m \in DOMAIN defs', m \notin DOMAIN defs
            PROVE  Early(m)'
        BY <3>3, <3>4, <3>7 DEF LocalOnly, Early
      <3>8. context' # NoBlock => \E m \in DOMAIN defs' : Early(m)'
        <4>1. CASE context # NoBlock
          BY <3>2, <3>6, <4>1
        <4>2. CASE context = NoBlock
          <5>1. Len(defs') \in DOMAIN defs' /\ Len(defs') \notin DOMAIN defs
            BY <3>2
          <5>2. context' # NoBlock => kind = "local"
            BY <3>4, <4>2 DEF LocalOnly
          <5> QED
            BY <3>7, <4>2, <5>1, <5>2
        <4> QED
          BY <4>1, <4>2
      <3>9. ASSUME NEW m \in DOMAIN defs', defs'[m].kind = "local"
            PROVE  \E j \in 1 .. m : Early(j)'
        <4>1. CASE m \in DOMAIN defs
          <5>1. defs'[m] = defs[m]
            BY <3>2, <4>1
          <5>2. PICK j \in 1 .. m : Early(j)
            BY <3>9, <4>1, <5>1, LeaksAre
          <5>3. j \in DOMAIN defs
            BY <3>2, <4>1
          <5> QED
            BY <3>5, <5>2, <5>3
        <4>2. CASE m \notin DOMAIN defs
          <5>1. kind = "local"
            BY <3>3, <3>9, <4>2
          <5>2. m \in 1 .. m /\ \A j \in DOMAIN defs : j \in 1 .. m
            BY <3>2, <4>2
          <5>3. CASE context = NoBlock
            BY <3>7, <4>2, <5>1, <5>2, <5>3
          <5>4. CASE context # NoBlock
            BY <3>6, <5>2, <5>4
          <5> QED
            BY <5>3, <5>4
        <4> QED
          BY <4>1, <4>2
      <3> QED
        BY <3>8, <3>9 DEF OnlyEarlyReturnsLeak, Early
    <2> QED
      BY <1>2, <2>1, <2>2, DeclareAdds
  <1> QED
    BY <1>1, <1>2, OnlyDeclare

\* The context block is left behind, and a package variable is an instruction of
\* global-init, only after a declaration for which alloc.go returns early, for programs
\* of any size (alloc.go:77-122).
THEOREM LeaksEarly == Spec => []OnlyEarlyReturnsLeak
PROOF
  <1>1. Init => Inv /\ OnlyEarlyReturnsLeak
    BY InvHolds, LeaksInit
  <1>2. Inv /\ OnlyEarlyReturnsLeak /\ [Next]_vars => (Inv /\ OnlyEarlyReturnsLeak)'
    BY InvKeeps, LeaksKept
  <1> QED
    BY <1>1, <1>2, PTL DEF Spec

-----------------------------------------------------------------------------
(* The order of initialisation *)

IsVar(n) == defs[n].kind \in {"global", "local"}

\* The instructions of global-init while it is one block.
Insts == initFunc[Entry].insts

\* Only variables that were defined earlier are read.
ReadsEarlier == \A n \in DOMAIN defs : \A v \in defs[n].reads : v \in 1 .. n - 1 /\ IsVar(v)

\* Every variable has its instruction, after those of the variables that it reads.
VarsStored == \A n \in DOMAIN defs : IsVar(n) => n \in ToSet(Insts)

StoredBeforeRead ==
  \A i \in DOMAIN Insts : \A v \in defs[Insts[i]].reads : \E j \in 1 .. i - 1 : Insts[j] = v

InitOrder == ReadsEarlier /\ (Len(initFunc) = 1 => VarsStored /\ StoredBeforeRead)

LEMMA OrderInit == Init => InitOrder
PROOF
  <1> SUFFICES ASSUME Init PROVE InitOrder
    OBVIOUS
  <1>1. \A n \in DOMAIN defs : defs[n].kind = "extern" /\ defs[n].reads = {}
    <2>1. defs = [i \in DOMAIN SetToSeq(ExternalVars) |-> Extern(SetToSeq(ExternalVars)[i])]
      BY DEF Init
    <2> HIDE DEF Init
    <2> QED
      BY <2>1 DEF Extern
  <1>2. Insts = <<>>
    <2>1. initFunc = <<Block(<<>>, "ret")>>
      BY DEF Init
    <2> QED
      BY <2>1 DEF Insts, Entry, Block
  <1> QED
    BY <1>1, <1>2 DEF InitOrder, ReadsEarlier, VarsStored, StoredBeforeRead, IsVar

\* A declaration puts its instructions at the end.
LEMMA InstsAdded ==
  ASSUME Inv, NEW d \in Decls, Declare(d), NEW kind, NEW type, NEW bound, NEW params,
         Adds(d, kind, type, bound, params), Len(initFunc') = 1
  PROVE  /\ Len(initFunc) = 1
         /\ Insts \in Seq(1 .. Len(defs)) /\ Insts' \in Seq(1 .. Len(defs'))
         /\ Len(Insts) <= Len(Insts') /\ \A j \in 1 .. Len(Insts) : Insts'[j] = Insts[j]
         /\ \A j \in 1 .. Len(Insts') : j > Len(Insts) => Insts'[j] \notin DOMAIN defs
         /\ kind \in {"global", "local"} =>
              \A n \in DOMAIN defs' : n \notin DOMAIN defs => n \in ToSet(Insts')
PROOF
  <1> DEFINE n == Len(defs)
             k == Len(d.names)
             more == [i \in DOMAIN d.names |-> Next1 - 1 + i]
             old == Insts
  <1>1. n \in Nat /\ k \in Nat /\ DOMAIN d.names = 1 .. k /\ DOMAIN defs = 1 .. n /\ n = Len(defs)
    BY Declared DEF Inv, TypesRight
  <1>2. Len(defs') = n + k /\ DOMAIN defs' = 1 .. n + k
    BY Added
  <1>3. initFunc' = initFunc \/ initFunc' = Emit(initFunc, Entry, d.names)
    BY DEF Adds, Initialises
  <1>4. kind \in {"global", "local"} => initFunc' = Emit(initFunc, Entry, d.names)
    BY DEF Adds, Initialises
  <1>5. Len(initFunc) = 1 /\ initFunc \in Seq(Blocks(n)) /\ 1 \in DOMAIN initFunc
    <2>1. initFunc \in Seq(Blocks(n))
      BY DEF Inv, TypesRight
    <2> HIDE DEF n
    <2>2. Len(initFunc) = 1
      BY <1>3, <2>1 DEF Emit
    <2> QED
      BY <2>1, <2>2
  <1>6. initFunc[1] \in Blocks(n) /\ old \in Seq(1 .. n) /\ old \in Seq(1 .. n + k)
    <2>1. initFunc[1] \in Blocks(n)
      BY <1>5
    <2>2. old \in Seq(1 .. n)
      BY <2>1 DEF Insts, Entry, Blocks
    <2> DEFINE A == 1 .. n
               B == 1 .. n + k
    <2>3. old \in Seq(A) /\ A \subseteq B
      BY <1>1, <2>2
    <2> HIDE DEF A, B, old
    <2>4. old \in Seq(B)
      BY <2>3
    <2> QED
      BY <2>1, <2>2, <2>4 DEF B
  <1>7. /\ more \in Seq(1 .. n + k) /\ Len(more) = k
        /\ \A i \in 1 .. k : more[i] = n + i
    <2>1. more = [i \in 1 .. k |-> n + i]
      BY <1>1 DEF Next1
    <2> HIDE DEF more, n, k
    <2>2. more \in [1 .. k -> 1 .. n + k] /\ \A i \in 1 .. k : more[i] = n + i
      BY <1>1, <2>1
    <2>3. more \in Seq(1 .. n + k)
      BY <1>1, <2>2, IsSequence
    <2>4. Len(more) = k
      BY <1>1, <2>2, <2>3
    <2> QED
      BY <2>2, <2>3, <2>4
  <1>8. initFunc' = Emit(initFunc, Entry, d.names) => Insts' = old \o more
    <2>1. Emit(initFunc, Entry, d.names)[1] = [initFunc[1] EXCEPT !.insts = @ \o more]
      BY <1>5 DEF Emit, Entry
    <2>2. [initFunc[1] EXCEPT !.insts = @ \o more].insts = initFunc[1].insts \o more
      <3> HIDE DEF more
      <3> QED
        BY <1>6 DEF Blocks
    <2> QED
      BY <2>1, <2>2 DEF Insts, Entry
  <1>9. initFunc' = initFunc => Insts' = old
    BY DEF Insts
  <1> DEFINE new == Insts'
  <1> HIDE DEF n, k, more, old, new
  <1>10. CASE new = old
    <2>1. Len(new) = Len(old) /\ Len(old) \in Nat
      BY <1>6, <1>10
    <2>2. ~(kind \in {"global", "local"}) \/ k = 0
      <3> SUFFICES ASSUME kind \in {"global", "local"} PROVE k = 0
        OBVIOUS
      <3>1. old = old \o more
        BY <1>4, <1>8, <1>10 DEF new
      <3>2. Len(old \o more) = Len(old) + Len(more) /\ Len(old) \in Nat
        <4> DEFINE B == 1 .. n + k
        <4>1. old \in Seq(B) /\ more \in Seq(B)
          BY <1>6, <1>7
        <4> HIDE DEF B
        <4> QED
          BY <4>1
      <3> QED
        BY <1>1, <1>7, <3>1, <3>2
    <2>3. kind \in {"global", "local"} =>
            \A m \in DOMAIN defs' : m \notin DOMAIN defs => m \in ToSet(new)
      BY <1>1, <1>2, <2>2
    <2> QED
      BY <1>1, <1>2, <1>5, <1>6, <1>10, <2>1, <2>3 DEF n, old, new
  <1>11. CASE new = old \o more
    <2>1. /\ new \in Seq(1 .. n + k) /\ Len(new) = Len(old) + k /\ Len(old) \in Nat
          /\ \A j \in 1 .. Len(old) : new[j] = old[j]
          /\ \A i \in 1 .. k : new[Len(old) + i] = more[i]
      <3> DEFINE B == 1 .. n + k
      <3>1. old \in Seq(B) /\ more \in Seq(B)
        BY <1>6, <1>7
      <3> HIDE DEF B
      <3>2. /\ new \in Seq(B) /\ Len(new) = Len(old) + Len(more) /\ Len(old) \in Nat
            /\ \A j \in 1 .. Len(old) : new[j] = old[j]
            /\ \A i \in 1 .. Len(more) : new[Len(old) + i] = more[i]
        BY <1>11, <3>1
      <3> QED
        BY <1>7, <3>2 DEF B
    <2>2. \A j \in 1 .. Len(new) : j > Len(old) => new[j] \notin DOMAIN defs
      <3> SUFFICES ASSUME NEW j \in 1 .. Len(new), j > Len(old) PROVE new[j] \notin 1 .. n
        BY <1>1
      <3>1. j - Len(old) \in 1 .. k /\ j = Len(old) + (j - Len(old))
        BY <1>1, <2>1
      <3>2. new[j] = n + (j - Len(old))
        BY <1>7, <2>1, <3>1
      <3> QED
        BY <1>1, <2>1, <3>1, <3>2
    <2>3. \A m \in DOMAIN defs' : m \notin DOMAIN defs => m \in ToSet(new)
      <3> SUFFICES ASSUME NEW m \in 1 .. n + k, m \notin 1 .. n PROVE m \in ToSet(new)
        BY <1>1, <1>2
      <3> DEFINE i == m - n
      <3>1. i \in 1 .. k /\ m = n + i
        BY <1>1
      <3> HIDE DEF i
      <3>2. new[Len(old) + i] = m
        BY <1>7, <2>1, <3>1
      <3>3. Len(old) + i \in 1 .. Len(new)
        BY <1>1, <2>1, <3>1
      <3>4. DOMAIN new = 1 .. Len(new)
        BY <2>1
      <3> QED
        BY <3>2, <3>3, <3>4 DEF ToSet
    <2>4. Len(old) <= Len(new)
      BY <1>1, <2>1
    <2> QED
      BY <1>1, <1>2, <1>5, <1>6, <2>1, <2>2, <2>3, <2>4 DEF n, old, new
  <1> QED
    BY <1>3, <1>8, <1>9, <1>10, <1>11 DEF new

\* What initialisers and functions read are variables that have been defined.
LEMMA ReadsVars ==
  ASSUME Inv, ReadsEarlier, NEW bound
  PROVE  \A v \in Reads(bound) : v \in DOMAIN defs /\ IsVar(v)
PROOF
  <1>1. DOMAIN defs = 1 .. Len(defs) /\ Len(defs) \in Nat
    BY DEF Inv, TypesRight
  <1>2. \A n \in DOMAIN defs : \A v \in defs[n].reads : v \in DOMAIN defs /\ IsVar(v)
    <2> SUFFICES ASSUME NEW n \in 1 .. Len(defs), NEW v \in defs[n].reads
                 PROVE  v \in 1 .. Len(defs) /\ IsVar(v)
      BY <1>1
    <2>1. v \in 1 .. n - 1 /\ IsVar(v)
      BY <1>1 DEF ReadsEarlier
    <2> QED
      BY <1>1, <2>1
  <1> QED
    BY <1>2 DEF Reads, IsVar

\* A declaration keeps the order of initialisation.
LEMMA OrderDeclare ==
  ASSUME Inv, InitOrder, NEW d \in Decls, Declare(d),
         NEW kind, NEW type, NEW bound, NEW params, Adds(d, kind, type, bound, params)
  PROVE  InitOrder'
PROOF
  <1>1. /\ DOMAIN defs = 1 .. Len(defs) /\ DOMAIN defs' = 1 .. Len(defs')
        /\ Len(defs) \in Nat /\ Len(defs') \in Nat /\ Len(defs) < Len(defs')
        /\ \A n \in DOMAIN defs : defs'[n] = defs[n]
    BY Longer
  <1>2. \A n \in DOMAIN defs' : n \notin DOMAIN defs =>
          defs'[n].kind = kind /\ defs'[n].reads = Reads(bound)
    BY AddedFields
  <1>3. \A v \in Reads(bound) : v \in DOMAIN defs /\ IsVar(v)
    BY ReadsVars DEF InitOrder
  <1>4. \A n \in DOMAIN defs : IsVar(n) => IsVar(n)'
    BY <1>1 DEF IsVar
  <1>5. ReadsEarlier'
    <2> SUFFICES ASSUME NEW n \in DOMAIN defs', NEW v \in defs'[n].reads
                 PROVE  v \in 1 .. n - 1 /\ IsVar(v)'
      BY DEF ReadsEarlier
    <2>1. CASE n \in DOMAIN defs
      <3>1. v \in 1 .. n - 1 /\ IsVar(v)
        BY <1>1, <2>1 DEF InitOrder, ReadsEarlier
      <3>2. v \in DOMAIN defs
        BY <1>1, <2>1, <3>1
      <3> QED
        BY <1>4, <3>1, <3>2
    <2>2. CASE n \notin DOMAIN defs
      <3>1. v \in DOMAIN defs /\ IsVar(v)
        BY <1>2, <1>3, <2>2
      <3>2. v \in 1 .. n - 1
        BY <1>1, <2>2, <3>1
      <3> QED
        BY <1>4, <3>1, <3>2
    <2> QED
      BY <2>1, <2>2
  <1>6. ASSUME Len(initFunc') = 1 PROVE VarsStored' /\ StoredBeforeRead'
    <2> DEFINE s == Insts
               t == Insts'
    <2>1. /\ Len(initFunc) = 1 /\ s \in Seq(1 .. Len(defs)) /\ t \in Seq(1 .. Len(defs'))
          /\ Len(s) <= Len(t) /\ \A j \in 1 .. Len(s) : t[j] = s[j]
          /\ \A j \in 1 .. Len(t) : j > Len(s) => t[j] \notin DOMAIN defs
          /\ kind \in {"global", "local"} =>
               \A n \in DOMAIN defs' : n \notin DOMAIN defs => n \in ToSet(t)
      BY <1>6, InstsAdded
    <2>2. /\ \A n \in DOMAIN defs : IsVar(n) => n \in ToSet(s)
          /\ \A i \in DOMAIN s : \A v \in defs[s[i]].reads : \E j \in 1 .. i - 1 : s[j] = v
      BY <2>1 DEF InitOrder, VarsStored, StoredBeforeRead
    <2> HIDE DEF s, t
    <2>3. /\ Len(s) \in Nat /\ Len(t) \in Nat /\ DOMAIN s = 1 .. Len(s) /\ DOMAIN t = 1 .. Len(t)
          /\ \A j \in 1 .. Len(s) : s[j] \in DOMAIN defs
          /\ \A j \in 1 .. Len(t) : t[j] \in DOMAIN defs'
      <3> DEFINE A == DOMAIN defs
                 B == DOMAIN defs'
      <3>1. s \in Seq(A) /\ t \in Seq(B)
        BY <1>1, <2>1
      <3> HIDE DEF A, B
      <3>2. /\ Len(s) \in Nat /\ Len(t) \in Nat /\ DOMAIN s = 1 .. Len(s) /\ DOMAIN t = 1 .. Len(t)
            /\ \A j \in 1 .. Len(s) : s[j] \in A
            /\ \A j \in 1 .. Len(t) : t[j] \in B
        BY <3>1
      <3> QED
        BY <3>2 DEF A, B
    <2>4. \A v \in ToSet(s) : \E j \in 1 .. Len(s) : j \in DOMAIN t /\ t[j] = v
      BY <2>1, <2>3 DEF ToSet
    <2>5. \A n \in DOMAIN defs' : IsVar(n)' => n \in ToSet(t)
      <3> SUFFICES ASSUME NEW n \in DOMAIN defs', IsVar(n)' PROVE n \in ToSet(t)
        OBVIOUS
      <3>1. CASE n \in DOMAIN defs
        <4>1. IsVar(n)
          BY <1>1, <3>1 DEF IsVar
        <4> QED
          BY <2>2, <2>4, <3>1, <4>1 DEF ToSet
      <3>2. CASE n \notin DOMAIN defs
        BY <1>2, <2>1, <3>2 DEF IsVar
      <3> QED
        BY <3>1, <3>2
    <2>6. \A i \in DOMAIN t : \A v \in defs'[t[i]].reads : \E j \in 1 .. i - 1 : t[j] = v
      <3> SUFFICES ASSUME NEW i \in 1 .. Len(t), NEW v \in defs'[t[i]].reads
                   PROVE  \E j \in 1 .. i - 1 : t[j] = v
        BY <2>3
      <3>1. CASE i <= Len(s)
        <4>1. i \in 1 .. Len(s) /\ t[i] = s[i] /\ defs'[t[i]] = defs[s[i]]
          BY <1>1, <2>1, <2>3, <3>1
        <4>2. PICK j \in 1 .. i - 1 : s[j] = v
          BY <2>2, <2>3, <4>1
        <4>3. j \in 1 .. Len(s)
          BY <2>3, <4>1
        <4> QED
          BY <2>1, <4>2, <4>3
      <3>2. CASE i > Len(s)
        <4>1. t[i] \in DOMAIN defs' /\ t[i] \notin DOMAIN defs
          BY <2>1, <2>3, <3>2
        <4>2. v \in DOMAIN defs /\ IsVar(v)
          BY <1>2, <1>3, <4>1
        <4>3. PICK j \in 1 .. Len(s) : t[j] = v
          BY <2>2, <2>4, <4>2
        <4>4. j \in 1 .. i - 1
          BY <2>3, <3>2
        <4> QED
          BY <4>3, <4>4
      <3> QED
        BY <2>3, <3>1, <3>2
    <2> QED
      BY <2>5, <2>6 DEF VarsStored, StoredBeforeRead, t
  <1> QED
    BY <1>5, <1>6 DEF InitOrder

LEMMA OrderKept == ASSUME Inv, InitOrder, [Next]_vars PROVE InitOrder'
PROOF
  <1>1. CASE UNCHANGED <<defs, initFunc>>
    BY <1>1 DEF InitOrder, ReadsEarlier, VarsStored, StoredBeforeRead, IsVar, Insts
  <1>2. ASSUME NEW d \in Decls, Declare(d) PROVE InitOrder'
    <2>1. CASE status' = "failed" /\ UNCHANGED compiler
      BY <1>1, <2>1 DEF compiler
    <2>2. CASE \E kind, type, bound, params : Adds(d, kind, type, bound, params)
      BY <1>2, <2>2, OrderDeclare
    <2> QED
      BY <1>2, <2>1, <2>2, DeclareAdds
  <1> QED
    BY <1>1, <1>2, OnlyDeclare

\* While global-init is one block, no initialiser, init function or main reads a variable
\* before it is initialised, itself or through the functions it calls, for any packages
\* and any declarations (alloc.go:140, func.go:130, compiler.go:210).
THEOREM InitialisedFirst == Spec => []InitBeforeUse
PROOF
  <1>1. Inv /\ InitOrder => InitBeforeUse
    <2> SUFFICES ASSUME Inv, InitOrder, Len(initFunc) = 1
                 PROVE  /\ \A i \in DOMAIN Insts : \A v \in defs[Insts[i]].reads :
                             \E j \in 1 .. i - 1 : Insts[j] = v
                        /\ \A n \in DOMAIN defs : defs[n].kind = "main" =>
                             defs[n].reads \subseteq ToSet(Insts)
      BY DEF InitBeforeUse, Insts
    <2>1. StoredBeforeRead /\ VarsStored /\ ReadsEarlier
      BY DEF InitOrder
    <2>2. \A n \in DOMAIN defs : defs[n].reads \subseteq ToSet(Insts)
      <3> SUFFICES ASSUME NEW n \in DOMAIN defs, NEW v \in defs[n].reads
                   PROVE  v \in ToSet(Insts)
        OBVIOUS
      <3>1. DOMAIN defs = 1 .. Len(defs) /\ Len(defs) \in Nat
        BY DEF Inv, TypesRight
      <3>2. v \in 1 .. n - 1 /\ IsVar(v)
        BY <2>1 DEF ReadsEarlier
      <3>3. v \in DOMAIN defs
        BY <3>1, <3>2
      <3> QED
        BY <2>1, <3>2, <3>3 DEF VarsStored
    <2> QED
      BY <2>1, <2>2 DEF StoredBeforeRead
  <1>2. Init => Inv /\ InitOrder
    BY InvHolds, OrderInit
  <1>3. Inv /\ InitOrder /\ [Next]_vars => (Inv /\ InitOrder)'
    BY InvKeeps, OrderKept
  <1> QED
    BY <1>1, <1>2, <1>3, PTL DEF Spec

-----------------------------------------------------------------------------
(* Where packages are *)

\* Import statements lead to directory d under path p.
Site(d, p) ==
  \/ d = Root /\ p = Main
  \/ \E e \in Dirs : p \in ToSet(imports[e]) \ {External} /\ d \in ToSet(Found[e][p])

\* What is left to import comes from import statements; what has been was found.
FrameRight(f) ==
  /\ Site(f.dir, f.path)
  /\ ToSet(f.todo) \subseteq ToSet(imports[f.dir])
  /\ \A c \in ToSet(f.calls) : Site(c.dir, c.path)
  /\ \A p \in ToSet(imports[f.dir]) \ {External} : p \in ToSet(f.todo) \/ Found[f.dir][p] # <<>>

FramesRight == \A i \in DOMAIN stack : FrameRight(stack[i])

SitesRight ==
  \A n \in DOMAIN defs :
    IF defs[n].kind = "extern" THEN defs[n].path = External
                               ELSE Site(defs[n].dir, defs[n].path)

\* Declarations use the packages that their directory imports.
TextLegal ==
  \A d \in Dirs : \A i \in DOMAIN text[d] : \A r \in text[d][i].uses :
    r.pkg \in {Own} \cup ToSet(imports[d])

-----------------------------------------------------------------------------
(* What tables hold *)

\* Definition n is variable x of package p; that of the current package is of the
\* present run, and those of others are of earlier ones.
Entered(n, x, p) ==
  /\ defs[n].name = x /\ defs[n].path = p /\ defs[n].kind # "type"
  /\ defs[n].run <= runs
  /\ p = current => defs[n].run = runs
  /\ p # current /\ current # Own => defs[n].run < runs

TablesNamed ==
  \A p \in DOMAIN packages : \A x \in DOMAIN packages[p].vars :
    Entered(packages[p].vars[x], x, p)

ScopeNamed ==
  \A x \in DOMAIN scope : defs[scope[x]].name = x /\ defs[scope[x]].kind \in Scoped

NamesRight ==
  FramesRight /\ SitesRight /\ TextLegal /\ TablesNamed /\ ScopeNamed /\ RightBinding

\* No package imports its own path: c.packages is keyed by the path.
NoSelfImport ==
  \A layout \in Layouts :
    /\ Main \notin ToSet(layout[Root])
    /\ \A d \in Dirs : \A p \in ToSet(layout[d]) \ {External} : \A e \in ToSet(Found[d][p]) :
         p \notin ToSet(layout[e])

-----------------------------------------------------------------------------
(* Compiled once *)

Open   == {stack[i].dir : i \in DOMAIN stack}
Loaded == done \cup Open

\* Nothing that a call waits for is among the directories `loaded', nor is it twice what
\* the call waits for.
Fresh(f, loaded) ==
  /\ \A j \in DOMAIN f.calls :
       /\ f.calls[j].dir \notin loaded
       /\ \A k \in DOMAIN f.calls : f.calls[j].dir = f.calls[k].dir => j = k
       /\ f.calls[j].dir \notin LedTo(f.dir, f.todo)
       /\ f.calls[j].dir \in Deps(f.dir)
  /\ LedTo(f.dir, f.todo) \cap loaded = {}
  /\ Len(f.todo) <= Len(imports[f.dir])
  /\ \A j \in DOMAIN f.todo :
       f.todo[j] = imports[f.dir][Len(imports[f.dir]) - Len(f.todo) + j]

FramesFresh == \A i \in DOMAIN stack : Fresh(stack[i], Loaded)

\* No directory is loaded twice, and none is loaded but for an import.
LoadedOnce ==
  /\ \A i \in DOMAIN stack : stack[i].dir \notin done
  /\ \A i, j \in DOMAIN stack : stack[i].dir = stack[j].dir => i = j
  /\ \A e \in Loaded \ {Root} : \E d \in Loaded : e \in Deps(d)

\* The declarations of a package are those that have been compiled.
TextRead ==
  /\ \A d \in Dirs : d \notin Loaded => text[d] = <<>>
  /\ status = "running" => \A i \in DOMAIN stack :
       Len(text[stack[i].dir]) = IF stack[i].at = 0 THEN 0 ELSE stack[i].at - 1

\* Functions are declared.
FuncsDeclared ==
  \A n \in DOMAIN defs : defs[n].kind = "func" =>
    \E k \in DOMAIN text[defs[n].dir] : defs[n].name \in ToSet(text[defs[n].dir][k].names)

\* No two functions have the same package and the same name.
Pair(n) == <<defs[n].path, defs[n].name>>

PairsDiffer ==
  \A m, n \in {k \in DOMAIN defs : defs[k].kind = "func"} : Pair(m) = Pair(n) => m = n

OnceRight == FramesFresh /\ LoadedOnce /\ TextRead /\ FuncsDeclared /\ PairsDiffer

-----------------------------------------------------------------------------
(* The calls of compilePackage *)

\* The first element of a sequence, and the rest.
LEMMA HeadTail ==
  ASSUME NEW S, NEW s \in Seq(S), s # <<>>
  PROVE  /\ Len(s) \in Nat \ {0} /\ DOMAIN s = 1 .. Len(s) /\ Head(s) = s[1]
         /\ Len(Tail(s)) = Len(s) - 1 /\ DOMAIN Tail(s) = 1 .. Len(s) - 1
         /\ \A i \in 1 .. Len(s) - 1 : Tail(s)[i] = s[i + 1]
  OBVIOUS

\* The calls after a step, one by one.
LEMMA FramesAre ==
  ASSUME FramesRight, imports' = imports,
         \A i \in DOMAIN stack' : \E f : f = stack'[i] /\ FrameRight(f)
  PROVE  FramesRight'
PROOF
  <1>1. ASSUME NEW f, FrameRight(f) PROVE FrameRight(f)'
    BY <1>1 DEF FrameRight, Site
  <1>2. ASSUME NEW i \in DOMAIN stack' PROVE FrameRight(stack[i])'
    <2>1. PICK f : f = stack'[i] /\ FrameRight(f)
      OBVIOUS
    <2>2. FrameRight(f)'
      BY <1>1, <2>1
    <2> QED
      BY <2>1, <2>2 DEF FrameRight
  <1> QED
    BY <1>2 DEF FramesRight

\* The last call is another one, the rest are the same.
LEMMA FrameReplaced ==
  ASSUME Inv, status = "running", FramesRight, imports' = imports,
         NEW f \in FrameType, stack' = Replaced(f), FrameRight(f)
  PROVE  FramesRight'
PROOF
  <1>1. /\ DOMAIN stack' = 1 .. Len(stack) /\ Len(stack) \in Nat \ {0}
        /\ DOMAIN stack = 1 .. Len(stack)
        /\ \A i \in 1 .. Len(stack) - 1 : stack'[i] = stack[i]
        /\ stack'[Len(stack)] = f
    <2>1. Typed
      BY DEF Inv, IInv
    <2>2. Len(stack) \in Nat \ {0} /\ DOMAIN stack = 1 .. Len(stack)
      BY <2>1, TopType DEF Typed
    <2>3. /\ DOMAIN Replaced(f) = DOMAIN stack
          /\ \A i \in 1 .. Len(stack) - 1 : Replaced(f)[i] = stack[i]
          /\ Replaced(f)[Len(stack)] = f
      BY <2>1, ReplaceTop, SMTT(20)
    <2> QED
      BY <2>2, <2>3
  <1>2. \A i \in 1 .. Len(stack) : i = Len(stack) \/ i \in 1 .. Len(stack) - 1
    <2> DEFINE n == Len(stack)
    <2>1. n \in Nat \ {0}
      BY <1>1
    <2> HIDE DEF n
    <2>2. \A i \in 1 .. n : i = n \/ i \in 1 .. n - 1
      BY ONLY <2>1, SMTT(20)
    <2> QED
      BY <2>2 DEF n
  <1>3. ASSUME NEW i \in DOMAIN stack' PROVE \E g : g = stack'[i] /\ FrameRight(g)
    <2>1. CASE i = Len(stack)
      BY <1>1, <2>1
    <2>2. CASE i \in 1 .. Len(stack) - 1
      <3>1. stack'[i] = stack[i] /\ i \in DOMAIN stack
        BY <1>1, <1>3, <2>2
      <3> QED
        BY <3>1 DEF FramesRight
    <2> QED
      BY <1>1, <1>2, <2>1, <2>2
  <1> QED
    BY <1>3, FramesAre

\* The call at the top.
LEMMA TopRight ==
  ASSUME Inv, status = "running", FramesRight
  PROVE  FrameRight(Top) /\ Top \in FrameType
  BY TopType DEF Inv, IInv, FramesRight

LEMMA ImportFrames == ASSUME Inv, FramesRight, Import PROVE FramesRight'
PROOF
  <1> DEFINE p == Head(Top.todo)
             f == [Top EXCEPT !.todo = Tail(@), !.calls = Calls(p)]
  <1>1. status = "running" /\ Top.todo # <<>>
    BY DEF Import, Importing
  <1>2. FrameRight(Top) /\ Top \in FrameType
    BY <1>1, TopRight
  <1>3. CASE NotFound
    BY <1>3 DEF NotFound, Fail, source, FramesRight, FrameRight, Site
  <1>4. CASE ~(p # External /\ Calls(p) = <<>>) /\ stack' = Replaced(f) /\ UNCHANGED source
    <2>1. Top.todo \in Seq(Paths)
      BY <1>2 DEF FrameType
    <2>2. /\ f.dir = Top.dir /\ f.path = Top.path /\ f.todo = Tail(Top.todo)
          /\ f.calls = Calls(p)
      BY <1>2 DEF FrameType
    <2>3. stack' \in Seq(FrameType) /\ imports' = imports
      <3>1. IInv'
        BY ImportStep DEF Inv
      <3> QED
        BY <1>4, <3>1 DEF IInv, Typed, source
    <2>4. f \in FrameType
      <3>1. Len(stack) \in Nat \ {0} /\ stack \in Seq(FrameType)
        BY <1>1, TopType DEF Inv, IInv, Typed
      <3> HIDE DEF f
      <3>2. stack'[Len(stack)] = f /\ Len(stack) \in DOMAIN stack'
        BY <1>4, <3>1 DEF Replaced
      <3> QED
        BY <2>3, <3>2
    <2>5. p \in ToSet(Top.todo) /\ ToSet(Tail(Top.todo)) \subseteq ToSet(Top.todo)
          /\ \A q \in ToSet(Top.todo) : q = p \/ q \in ToSet(Tail(Top.todo))
      <3> DEFINE s == Top.todo
      <3>1. s \in Seq(Paths) /\ s # <<>>
        BY <1>1, <2>1
      <3> HIDE DEF s
      <3>2. /\ Len(s) \in Nat \ {0} /\ DOMAIN s = 1 .. Len(s) /\ Head(s) = s[1]
            /\ DOMAIN Tail(s) = 1 .. Len(s) - 1
            /\ \A i \in 1 .. Len(s) - 1 : Tail(s)[i] = s[i + 1]
        BY <3>1
      <3>3. Head(s) \in ToSet(s)
        BY <3>2 DEF ToSet
      <3>4. ToSet(Tail(s)) \subseteq ToSet(s)
        <4> SUFFICES ASSUME NEW i \in 1 .. Len(s) - 1 PROVE Tail(s)[i] \in ToSet(s)
          BY <3>2 DEF ToSet
        <4>1. i + 1 \in DOMAIN s
          BY <3>2
        <4> QED
          BY <3>2, <4>1 DEF ToSet
      <3>5. \A q \in ToSet(s) : q = Head(s) \/ q \in ToSet(Tail(s))
        <4> SUFFICES ASSUME NEW i \in 1 .. Len(s), i # 1 PROVE s[i] \in ToSet(Tail(s))
          BY <3>2 DEF ToSet
        <4>1. i - 1 \in 1 .. Len(s) - 1 /\ (i - 1) + 1 = i
          BY <3>2
        <4>2. Tail(s)[i - 1] = s[i]
          BY <3>2, <4>1
        <4> QED
          BY <3>2, <4>1, <4>2 DEF ToSet
      <3> QED
        BY <3>3, <3>4, <3>5 DEF s
    <2>6. p \in ToSet(imports[Top.dir])
      BY <1>2, <2>5 DEF FrameRight
    <2>7. \A c \in ToSet(Calls(p)) : Site(c.dir, c.path)
      <3> SUFFICES ASSUME NEW i \in DOMAIN Calls(p)
                   PROVE  Site(Calls(p)[i].dir, Calls(p)[i].path)
        BY DEF ToSet
      <3>1. p # External /\ i \in DOMAIN Found[Top.dir][p]
            /\ Calls(p)[i] = [dir |-> Found[Top.dir][p][i], path |-> p]
        BY DEF Calls
      <3>2. Top.dir \in Dirs /\ Found[Top.dir][p][i] \in ToSet(Found[Top.dir][p])
        BY <1>2, <3>1 DEF FrameType, ToSet
      <3> QED
        BY <2>6, <3>1, <3>2 DEF Site
    <2>8. p # External => Found[Top.dir][p] # <<>>
      <3> SUFFICES ASSUME p # External, Found[Top.dir][p] = <<>> PROVE FALSE
        OBVIOUS
      <3>1. Calls(p) = [i \in {} |-> [dir |-> Found[Top.dir][p][i], path |-> p]]
        BY DEF Calls
      <3>2. Calls(p) = <<>>
        BY <3>1
      <3> QED
        BY <1>4, <3>2
    <2> HIDE DEF f, p
    <2>9. FrameRight(f)
      BY <1>2, <2>2, <2>5, <2>7, <2>8 DEF FrameRight
    <2> QED
      BY <1>1, <1>4, <2>3, <2>4, <2>9, FrameReplaced
  <1> QED
    BY <1>3, <1>4 DEF Import

LEMMA LoadFrames == ASSUME Inv, FramesRight, Load PROVE FramesRight'
PROOF
  <1> DEFINE call == Head(Top.calls)
             g == [Top EXCEPT !.calls = Tail(@)]
             new == Frame(call.dir, call.path)
             n == Len(stack)
  <1>1. status = "running" /\ Top.calls # <<>> /\ UNCHANGED source
    BY DEF Load, Importing
  <1>2. FrameRight(Top) /\ Top \in FrameType
    BY <1>1, TopRight
  <1>3. CASE UNCHANGED stack
    BY <1>1, <1>3 DEF source, FramesRight, FrameRight, Site
  <1>4. CASE stack' = Append(Replaced(g), new)
    <2> DEFINE C == [dir : Dirs, path : Paths]
               s == Top.calls
    <2>1. s \in Seq(C) /\ s # <<>>
      BY <1>1, <1>2 DEF FrameType
    <2>2. /\ g.dir = Top.dir /\ g.path = Top.path
          /\ g.todo = Top.todo /\ g.calls = Tail(s)
      BY <1>2 DEF FrameType
    <2>3. new.dir = call.dir /\ new.path = call.path /\ new.todo = imports[call.dir]
          /\ new.calls = <<>>
      BY DEF Frame
    <2> HIDE DEF C, s
    <2>4. Head(s) \in ToSet(s) /\ ToSet(Tail(s)) \subseteq ToSet(s)
      <3>1. /\ Len(s) \in Nat \ {0} /\ DOMAIN s = 1 .. Len(s) /\ Head(s) = s[1]
            /\ DOMAIN Tail(s) = 1 .. Len(s) - 1
            /\ \A i \in 1 .. Len(s) - 1 : Tail(s)[i] = s[i + 1]
        BY ONLY <2>1, HeadTail
      <3>2. \A i \in 1 .. Len(s) - 1 : i + 1 \in DOMAIN s
        BY <3>1
      <3> QED
        BY <3>1, <3>2 DEF ToSet
    <2>5. FrameRight(g)
      <3> HIDE DEF g
      <3> QED
        <4>1. /\ Site(Top.dir, Top.path) /\ ToSet(Top.todo) \subseteq ToSet(imports[Top.dir])
              /\ \A p \in ToSet(imports[Top.dir]) \ {External} :
                   p \in ToSet(Top.todo) \/ Found[Top.dir][p] # <<>>
          BY <1>2 DEF FrameRight
        <4>2. \A c \in ToSet(s) : Site(c.dir, c.path)
          BY <1>2 DEF FrameRight, s
        <4>3. \A c \in ToSet(g.calls) : Site(c.dir, c.path)
          BY <2>2, <2>4, <4>2
        <4> QED
          BY <2>2, <4>1, <4>3 DEF FrameRight
    <2>6. FrameRight(new)
      <3>1. Site(call.dir, call.path)
        BY <1>2, <2>4 DEF FrameRight, s
      <3> HIDE DEF new
      <3>2. ToSet(new.calls) = {}
        BY <2>3 DEF ToSet
      <3>3. ToSet(new.todo) = ToSet(imports[new.dir])
        BY <2>3
      <3> QED
        BY <2>3, <3>1, <3>2, <3>3 DEF FrameRight
    <2>7. /\ n \in Nat \ {0} /\ n = Len(stack) /\ DOMAIN stack = 1 .. n /\ stack \in Seq(FrameType)
      BY <1>1, TopType DEF Inv, IInv, Typed
    <2> HIDE DEF g, new, n
    <2>8. /\ DOMAIN stack' = 1 .. n + 1
          /\ \A i \in 1 .. n - 1 : stack'[i] = stack[i]
          /\ stack'[n] = g /\ stack'[n + 1] = new
      <3> DEFINE S == FrameType \cup {g, new}
                 r == Replaced(g)
      <3>1. /\ r \in Seq(S) /\ Len(r) = n /\ new \in S
            /\ \A i \in 1 .. n - 1 : r[i] = stack[i]
            /\ r[n] = g
        BY <2>7 DEF Replaced
      <3> HIDE DEF S, r
      <3>2. stack' = Append(r, new)
        BY <1>4 DEF r
      <3> QED
        BY <2>7, <3>1, <3>2, AppendProperties, LenProperties
    <2>9. ASSUME NEW i \in DOMAIN stack' PROVE \E f : f = stack'[i] /\ FrameRight(f)
      <3>1. i = n + 1 \/ i = n \/ i \in 1 .. n - 1
        BY <2>7, <2>8, <2>9
      <3>2. i \in 1 .. n - 1 => i \in DOMAIN stack
        BY <2>7
      <3> QED
        BY <2>5, <2>6, <2>8, <3>1, <3>2 DEF FramesRight
    <2> QED
      BY <1>1, <2>9, FramesAre DEF source
  <1> QED
    BY <1>3, <1>4 DEF Load

LEMMA EndFrames == ASSUME Inv, FramesRight, EndCompile PROVE FramesRight'
PROOF
  <1> DEFINE n == Len(stack)
  <1>1. status = "running" /\ stack' = Front(stack) /\ imports' = imports
    BY DEF EndCompile, Compiling
  <1>2. n \in Nat \ {0} /\ stack \in Seq(FrameType) /\ n = Len(stack) /\ DOMAIN stack = 1 .. n
    BY <1>1, TopType DEF Inv, IInv, Typed
  <1>3. DOMAIN stack' = 1 .. n - 1 /\ \A i \in 1 .. n - 1 : stack'[i] = stack[i]
    <2>1. stack' = SubSeq(stack, 1, n - 1)
      BY <1>1 DEF Front
    <2>2. n - 1 \in Nat /\ n - 1 <= n
      BY <1>2
    <2> HIDE DEF n
    <2> QED
      BY <1>2, <2>1, <2>2
  <1> HIDE DEF n
  <1>4. \A i \in 1 .. n - 1 : i \in DOMAIN stack
    BY <1>2
  <1>5. ASSUME NEW i \in DOMAIN stack' PROVE \E f : f = stack'[i] /\ FrameRight(f)
    BY <1>3, <1>4, <1>5 DEF FramesRight
  <1> QED
    BY <1>1, <1>5, FramesAre

LEMMA StartFrames == ASSUME Inv, FramesRight, StartCompile PROVE FramesRight'
PROOF
  <1> DEFINE f == [Top EXCEPT !.at = 1]
  <1>1. status = "running" /\ stack' = Replaced(f) /\ imports' = imports
    BY DEF StartCompile, Importing, source
  <1>2. FrameRight(Top) /\ Top \in FrameType
    BY <1>1, TopRight
  <1>3. /\ f \in FrameType /\ f.dir = Top.dir /\ f.path = Top.path
        /\ f.todo = Top.todo /\ f.calls = Top.calls
    BY <1>2 DEF FrameType
  <1> HIDE DEF f
  <1>4. FrameRight(f)
    BY <1>2, <1>3 DEF FrameRight
  <1> QED
    BY <1>1, <1>3, <1>4, FrameReplaced

LEMMA DeclareFrames ==
  ASSUME Inv, FramesRight, NEW d \in Decls, Declare(d)
  PROVE  FramesRight'
PROOF
  <1> DEFINE f == [Top EXCEPT !.at = @ + 1]
  <1>1. status = "running" /\ stack' = Replaced(f) /\ imports' = imports
    BY DEF Declare, Compiling
  <1>2. FrameRight(Top) /\ Top \in FrameType
    BY <1>1, TopRight
  <1>3. /\ f \in FrameType /\ f.dir = Top.dir /\ f.path = Top.path
        /\ f.todo = Top.todo /\ f.calls = Top.calls
    BY <1>2 DEF FrameType
  <1> HIDE DEF f
  <1>4. FrameRight(f)
    BY <1>2, <1>3 DEF FrameRight
  <1> QED
    BY <1>1, <1>3, <1>4, FrameReplaced

\* Import statements never change.
LEMMA ImportsStay == [Next]_vars => imports' = imports
  BY DEF Next, Import, NotFound, Fail, Load, StartCompile, EndCompile, Assemble, Declare,
         vars, source

LEMMA FramesStay == ASSUME Inv, FramesRight, [Next]_vars PROVE FramesRight'
PROOF
  <1>1. CASE UNCHANGED <<stack, imports>>
    BY <1>1 DEF FramesRight, FrameRight, Site
  <1>2. CASE Assemble \/ UNCHANGED vars
    BY <1>1, <1>2 DEF Assemble, source, vars
  <1> QED
    BY <1>2, ImportFrames, LoadFrames, StartFrames, EndFrames, DeclareFrames DEF Next

-----------------------------------------------------------------------------
(* Declarations and where they are *)

\* What is declared uses what the directory imports, when it is chosen and when it is
\* compiled again.
LEMMA WrittenRight ==
  ASSUME Inv, TextLegal, NEW d \in Decls, Declare(d)
  PROVE  /\ TextLegal'
         /\ \A r \in d.uses : r.pkg \in {Own} \cup ToSet(imports[Top.dir])
PROOF
  <1>1. Written(d) /\ imports' = imports
    BY DEF Declare
  <1>2. Top \in FrameType
    BY Declared
  <1>3. Top.dir \in Dirs /\ Top.at \in Nat /\ text \in [Dirs -> Seq(Decl)]
    BY <1>2 DEF FrameType, Inv, IInv, Typed
  <1>4. CASE Top.at <= Len(text[Top.dir]) /\ d = text[Top.dir][Top.at] /\ text' = text
    <2>1. Top.at > 0
      BY DEF Declare, Compiling
    <2>2. Top.at \in DOMAIN text[Top.dir]
      BY <1>3, <1>4, <2>1
    <2> QED
      BY <1>1, <1>3, <1>4, <2>2 DEF TextLegal
  <1>5. CASE Legal(d) /\ text' = [text EXCEPT ![Top.dir] = Append(@, d)]
    <2>1. \A r \in d.uses : r.pkg \in {Own} \cup ToSet(imports[Top.dir])
      BY <1>5 DEF Legal
    <2> DEFINE s == text[Top.dir]
               S == Decl \cup {d}
    <2>2. s \in Seq(S) /\ d \in S
      BY <1>3
    <2>3. text' = [text EXCEPT ![Top.dir] = Append(s, d)]
      BY <1>5
    <2> HIDE DEF s, S
    <2>4. \A i \in DOMAIN Append(s, d) : Append(s, d)[i] = d \/ (i \in DOMAIN s /\ Append(s, d)[i] = s[i])
      BY <2>2
    <2>5. \A i \in DOMAIN s : \A r \in s[i].uses : r.pkg \in {Own} \cup ToSet(imports[Top.dir])
      BY <1>3 DEF TextLegal, s
    <2>6. \A i \in DOMAIN Append(s, d) : \A r \in Append(s, d)[i].uses :
            r.pkg \in {Own} \cup ToSet(imports[Top.dir])
      BY <2>1, <2>4, <2>5
    <2>7. /\ text'[Top.dir] = Append(s, d)
          /\ \A e \in Dirs : e # Top.dir => text'[e] = text[e]
      BY <1>3, <2>3
    <2>8. TextLegal'
      <3> SUFFICES ASSUME NEW e \in Dirs, NEW i \in DOMAIN text'[e], NEW r \in text'[e][i].uses
                   PROVE  r.pkg \in {Own} \cup ToSet(imports[e])
        BY <1>1 DEF TextLegal
      <3>1. CASE e = Top.dir
        BY <2>6, <2>7, <3>1
      <3>2. CASE e # Top.dir
        BY <2>7, <3>2 DEF TextLegal
      <3> QED
        BY <3>1, <3>2
    <2> QED
      BY <2>1, <2>8
  <1> QED
    BY <1>1, <1>4, <1>5 DEF Written

LEMMA TextStays == ASSUME Inv, TextLegal, [Next]_vars PROVE TextLegal'
PROOF
  <1>1. CASE UNCHANGED <<text, imports>>
    BY <1>1 DEF TextLegal
  <1>2. CASE ~\E d \in Decls : Declare(d)
    <2>1. UNCHANGED <<text, imports>>
      BY <1>2 DEF Next, Import, NotFound, Fail, Load, StartCompile, EndCompile, Assemble,
                  vars, source
    <2> QED
      BY <1>1, <2>1
  <1> QED
    BY <1>2, WrittenRight

\* Definitions are of the package that is compiled.
LEMMA SitesStay == ASSUME Inv, FramesRight, SitesRight, [Next]_vars PROVE SitesRight'
PROOF
  <1>1. imports' = imports
    BY ImportsStay
  <1>2. CASE defs' = defs
    BY <1>1, <1>2 DEF SitesRight, Site
  <1>3. ASSUME NEW d \in Decls, Declare(d), NEW kind, NEW type, NEW bound, NEW params,
               Adds(d, kind, type, bound, params)
        PROVE  SitesRight'
    <2>1. kind # "extern" /\ status = "running" /\ current = Top.path
      BY <1>3, Declared DEF Adds
    <2>2. Site(Top.dir, Top.path)
      BY <2>1, TopRight DEF FrameRight
    <2> SUFFICES ASSUME NEW n \in DOMAIN defs'
                 PROVE  IF defs'[n].kind = "extern" THEN defs'[n].path = External
                                                    ELSE Site(defs'[n].dir, defs'[n].path)
      BY <1>1 DEF SitesRight, Site
    <2>3. CASE n \in DOMAIN defs
      BY <1>3, <2>3, Longer DEF SitesRight
    <2>4. CASE n \notin DOMAIN defs
      <3>1. defs'[n].kind = kind /\ defs'[n].path = current /\ defs'[n].dir = Top.dir
        BY <1>3, <2>4, AddedFields
      <3> QED
        BY <2>1, <2>2, <3>1
    <2> QED
      BY <2>3, <2>4
  <1>4. ASSUME NEW d \in Decls, Declare(d) PROVE SitesRight'
    BY <1>2, <1>3, <1>4, DeclareAdds DEF compiler
  <1> QED
    BY <1>2, <1>4, OnlyDeclare

-----------------------------------------------------------------------------
(* Tables and the scope *)

\* The tables after a step, entry by entry.
LEMMA TablesAre ==
  ASSUME \A p \in DOMAIN packages' : \A x \in DOMAIN packages'[p].vars :
           \E v : v = packages'[p].vars[x] /\ Entered(v, x, p)'
  PROVE  TablesNamed'
PROOF
  <1>1. ASSUME NEW p \in DOMAIN packages', NEW x \in DOMAIN packages'[p].vars,
               NEW v, v = packages'[p].vars[x], Entered(v, x, p)'
        PROVE  /\ defs'[packages'[p].vars[x]].name = x
               /\ defs'[packages'[p].vars[x]].path = p
               /\ defs'[packages'[p].vars[x]].kind # "type"
               /\ defs'[packages'[p].vars[x]].run <= runs'
               /\ p = current' => defs'[packages'[p].vars[x]].run = runs'
               /\ p # current' /\ current' # Own => defs'[packages'[p].vars[x]].run < runs'
    BY <1>1 DEF Entered
  <1> QED
    BY <1>1 DEF TablesNamed, Entered

\* A new run of Compile: the definitions that the tables hold are of earlier ones.
LEMMA StartTables == ASSUME Inv, TablesNamed, StartCompile PROVE TablesNamed'
PROOF
  <1>1. /\ packages' = [p \in DOMAIN packages \cup {Top.path} |->
                          IF p = Top.path THEN NewPkg ELSE packages[p]]
        /\ current' = Top.path /\ runs' = runs + 1 /\ defs' = defs
    BY DEF StartCompile, CurrentName
  <1>2. runs \in Nat
    BY DEF Inv, TypesRight
  <1>3. DOMAIN defs = 1 .. Len(defs) /\ \A n \in DOMAIN defs : defs[n].run \in Nat
    <2> DEFINE D == DefTypes(Len(defs))
    <2>1. defs \in Seq(D)
      BY DEF Inv, TypesRight
    <2>2. \A e \in D : e.run \in Nat
      BY DEF DefTypes
    <2> HIDE DEF D
    <2> QED
      BY <2>1, <2>2
  <1> SUFFICES ASSUME NEW p \in DOMAIN packages', NEW x \in DOMAIN packages'[p].vars
               PROVE  \E v : v = packages'[p].vars[x] /\ Entered(v, x, p)'
    BY TablesAre
  <1>4. p # Top.path /\ p \in DOMAIN packages /\ packages'[p] = packages[p]
    <2>1. DOMAIN NewPkg.vars = {}
      BY DEF NewPkg
    <2> QED
      BY <1>1, <2>1
  <1>5. PICK v : v = packages[p].vars[x]
    OBVIOUS
  <1>6. Entered(v, x, p) /\ v \in DOMAIN defs
    BY <1>3, <1>4, <1>5, TablesRight DEF TablesNamed
  <1>7. defs[v].run \in Nat /\ defs[v].run <= runs
    BY <1>3, <1>6 DEF Entered
  <1>8. defs[v].run < runs + 1 /\ defs[v].run <= runs + 1
    BY <1>2, <1>7
  <1>9. Entered(v, x, p)'
    BY <1>1, <1>4, <1>6, <1>8 DEF Entered
  <1> QED
    BY <1>4, <1>5, <1>9

\* The table of a package after a declaration: what it was, and in that of the present
\* package the names that are declared, unless they are types or go into the scope.
LEMMA TablePlaced ==
  ASSUME Inv, NEW d \in Decls, Declare(d), NEW kind, Placed(d, kind),
         NEW p \in DOMAIN packages', NEW x \in DOMAIN packages'[p].vars
  PROVE  /\ p \in DOMAIN packages
         /\ \/ x \in DOMAIN packages[p].vars /\ packages'[p].vars[x] = packages[p].vars[x]
            \/ /\ p = current /\ kind \notin Scoped \cup {"type"}
               /\ \E i \in 1 .. Len(d.names) :
                    d.names[i] = x /\ packages'[p].vars[x] = Len(defs) + i
PROOF
  <1>1. /\ d.names \in Seq(Idents) /\ current \in DOMAIN packages /\ Len(defs) \in Nat
    BY Declared
  <1>2. \A q \in DOMAIN packages :
          packages[q] \in [vars : Tables(Len(defs)), types : Tables(Len(defs))]
    BY TablesRight
  <1>3. CASE packages' = packages
    BY <1>3
  <1>4. CASE packages' = DefinePkgType(d.names)
    <2>1. DOMAIN packages' = DOMAIN packages /\ packages'[p].vars = packages[p].vars
      BY <1>1, <1>2, <1>4 DEF DefinePkgType
    <2> QED
      BY <2>1
  <1>5. CASE packages' = DefinePkgVar(d.names) /\ kind \notin Scoped \cup {"type"}
    <2>1. DOMAIN packages' = DOMAIN packages
          /\ packages'[p].vars = IF p = current THEN Defining(packages[p].vars, d.names, Next1)
                                 ELSE packages[p].vars
      BY <1>1, <1>2, <1>5 DEF DefinePkgVar
    <2>2. CASE p # current
      BY <2>1, <2>2
    <2>3. CASE p = current
      <3> DEFINE n == Next1
                 f == packages[p].vars
                 names == d.names
      <3>1. n \in Nat \ {0} /\ n - 1 = Len(defs) /\ names \in Seq(Idents)
            /\ packages'[p].vars = Defining(f, names, n)
        BY <1>1, <2>1, <2>3 DEF Next1
      <3> HIDE DEF n, f, names
      <3>2. /\ DOMAIN Defining(f, names, n) = DOMAIN f \cup ToSet(names)
            /\ \A y \in ToSet(names) :
                 \E i \in 1 .. Len(names) : names[i] = y /\ Defining(f, names, n)[y] = n - 1 + i
            /\ \A y \in DOMAIN f \ ToSet(names) : Defining(f, names, n)[y] = f[y]
        BY ONLY <3>1, DefiningNames
      <3>3. x \in ToSet(names) \/ x \in DOMAIN f \ ToSet(names)
        BY <3>1, <3>2
      <3>4. \/ x \in DOMAIN f /\ Defining(f, names, n)[x] = f[x]
            \/ \E i \in 1 .. Len(names) :
                 names[i] = x /\ Defining(f, names, n)[x] = Len(defs) + i
        BY ONLY <3>1, <3>2, <3>3
      <3> QED
        BY <1>5, <2>1, <2>3, <3>1, <3>4 DEF f, names
    <2> QED
      BY <2>2, <2>3
  <1> QED
    BY <1>3, <1>4, <1>5 DEF Placed

LEMMA DeclareTables ==
  ASSUME Inv, TablesNamed, NEW d \in Decls, Declare(d),
         NEW kind, NEW type, NEW bound, NEW params, Adds(d, kind, type, bound, params)
  PROVE  TablesNamed'
PROOF
  <1>1. Placed(d, kind) /\ current' = current /\ runs' = runs
    BY DEF Adds
  <1>2. /\ DOMAIN defs = 1 .. Len(defs) /\ Len(defs) \in Nat /\ Len(defs') \in Nat
        /\ \A n \in DOMAIN defs : defs'[n] = defs[n]
    BY Longer
  <1>3. /\ \A i \in 1 .. Len(d.names) :
             defs'[Len(defs) + i] = Def(kind, d.form, d.names[i], type, bound, params)
    BY Added
  <1>4. runs \in Nat
    BY DEF Inv, TypesRight
  <1> SUFFICES ASSUME NEW p \in DOMAIN packages', NEW x \in DOMAIN packages'[p].vars
               PROVE  \E v : v = packages'[p].vars[x] /\ Entered(v, x, p)'
    BY TablesAre
  <1>5. p \in DOMAIN packages
    BY <1>1, TablePlaced
  <1>6. PICK v : v = packages'[p].vars[x]
    OBVIOUS
  <1>7. CASE x \in DOMAIN packages[p].vars /\ v = packages[p].vars[x]
    <2>1. v \in DOMAIN defs /\ Entered(v, x, p)
      BY <1>2, <1>5, <1>7, TablesRight DEF TablesNamed
    <2>2. Entered(v, x, p)'
      BY <1>1, <1>2, <2>1 DEF Entered
    <2> QED
      BY <1>6, <2>2
  <1>8. CASE /\ p = current /\ kind \notin Scoped \cup {"type"}
             /\ \E i \in 1 .. Len(d.names) : d.names[i] = x /\ v = Len(defs) + i
    <2>1. PICK i \in 1 .. Len(d.names) : d.names[i] = x /\ v = Len(defs) + i
      BY <1>8
    <2>2. defs'[v] = [kind |-> kind, form |-> d.form, name |-> d.names[i], type |-> type,
                      params |-> params, bound |-> bound, reads |-> Reads(bound),
                      path |-> current, dir |-> Top.dir, run |-> runs]
      BY <1>3, <2>1 DEF Def
    <2>3. /\ defs'[v].kind = kind /\ defs'[v].name = x /\ defs'[v].path = current
          /\ defs'[v].run = runs
      BY <2>1, <2>2
    <2>4. runs <= runs
      BY <1>4
    <2>5. Entered(v, x, p)'
      BY <1>1, <1>8, <2>3, <2>4 DEF Entered
    <2> QED
      BY <1>6, <2>5
  <1> QED
    BY <1>1, <1>6, <1>7, <1>8, TablePlaced

LEMMA TablesStay == ASSUME Inv, TablesNamed, [Next]_vars PROVE TablesNamed'
PROOF
  <1>1. CASE UNCHANGED <<packages, defs, runs, current>>
    BY <1>1 DEF TablesNamed, Entered
  <1>2. CASE ~StartCompile /\ ~\E d \in Decls : Declare(d)
    <2>1. UNCHANGED <<packages, defs, runs, current>>
      BY <1>2 DEF Next, Import, NotFound, Fail, Load, EndCompile, Assemble, vars, compiler
    <2> QED
      BY <1>1, <2>1
  <1>3. ASSUME NEW d \in Decls, Declare(d) PROVE TablesNamed'
    BY <1>1, <1>3, DeclareTables, DeclareAdds DEF compiler
  <1> QED
    BY <1>2, <1>3, StartTables

\* The scope after a declaration.
LEMMA ScopePlaced ==
  ASSUME Inv, NEW d \in Decls, Declare(d), NEW kind, Placed(d, kind),
         NEW x \in DOMAIN scope'
  PROVE  \/ x \in DOMAIN scope /\ scope'[x] = scope[x]
         \/ /\ kind \in Scoped
            /\ \E i \in 1 .. Len(d.names) : d.names[i] = x /\ scope'[x] = Len(defs) + i
PROOF
  <1>1. /\ d.names \in Seq(Idents) /\ Len(defs) \in Nat
    BY Declared
  <1>2. CASE scope' = scope
    BY <1>2
  <1>3. CASE scope' = Defining(scope, d.names, Next1) /\ kind \in Scoped
    <2> DEFINE n == Next1
               f == scope
               names == d.names
    <2>1. n \in Nat \ {0} /\ n - 1 = Len(defs) /\ names \in Seq(Idents)
          /\ scope' = Defining(f, names, n)
      BY <1>1, <1>3 DEF Next1
    <2> HIDE DEF n, f, names
    <2>2. /\ DOMAIN Defining(f, names, n) = DOMAIN f \cup ToSet(names)
          /\ \A y \in ToSet(names) :
               \E i \in 1 .. Len(names) : names[i] = y /\ Defining(f, names, n)[y] = n - 1 + i
          /\ \A y \in DOMAIN f \ ToSet(names) : Defining(f, names, n)[y] = f[y]
      BY <2>1, DefiningNames
    <2>3. \/ x \in DOMAIN f /\ Defining(f, names, n)[x] = f[x]
          \/ \E i \in 1 .. Len(names) :
               names[i] = x /\ Defining(f, names, n)[x] = Len(defs) + i
      BY <2>1, <2>2
    <2> QED
      BY <1>3, <2>1, <2>3 DEF f, names
  <1> QED
    BY <1>2, <1>3 DEF Placed, SetVar

LEMMA ScopeStays == ASSUME Inv, ScopeNamed, [Next]_vars PROVE ScopeNamed'
PROOF
  <1>1. CASE UNCHANGED <<scope, defs>>
    BY <1>1 DEF ScopeNamed
  <1>2. ASSUME NEW d \in Decls, Declare(d), NEW kind, NEW type, NEW bound, NEW params,
               Adds(d, kind, type, bound, params)
        PROVE  ScopeNamed'
    <2>1. Placed(d, kind)
      BY <1>2 DEF Adds
    <2>2. /\ DOMAIN defs = 1 .. Len(defs)
          /\ \A n \in DOMAIN defs : defs'[n] = defs[n]
      BY <1>2, Longer
    <2>3. \A i \in 1 .. Len(d.names) :
            defs'[Len(defs) + i] = Def(kind, d.form, d.names[i], type, bound, params)
      BY <1>2, Added
    <2>4. \A i \in 1 .. Len(d.names) :
            defs'[Len(defs) + i].name = d.names[i] /\ defs'[Len(defs) + i].kind = kind
      <3> TAKE i \in 1 .. Len(d.names)
      <3>1. defs'[Len(defs) + i] =
              [kind |-> kind, form |-> d.form, name |-> d.names[i], type |-> type,
               params |-> params, bound |-> bound, reads |-> Reads(bound),
               path |-> current, dir |-> Top.dir, run |-> runs]
        BY <2>3 DEF Def
      <3> QED
        BY <3>1
    <2> SUFFICES ASSUME NEW x \in DOMAIN scope'
                 PROVE  defs'[scope'[x]].name = x /\ defs'[scope'[x]].kind \in Scoped
      BY DEF ScopeNamed
    <2>5. CASE x \in DOMAIN scope /\ scope'[x] = scope[x]
      BY <2>2, <2>5, TablesRight DEF ScopeNamed
    <2>6. CASE /\ kind \in Scoped
               /\ \E i \in 1 .. Len(d.names) : d.names[i] = x /\ scope'[x] = Len(defs) + i
      BY <2>4, <2>6
    <2> QED
      BY <1>2, <2>1, <2>5, <2>6, ScopePlaced
  <1>3. ASSUME NEW d \in Decls, Declare(d) PROVE ScopeNamed'
    BY <1>1, <1>2, <1>3, DeclareAdds DEF compiler
  <1> QED
    BY <1>1, <1>3, OnlyDeclare

-----------------------------------------------------------------------------
(* RightBinding *)

\* What a name b[1] is bound to in definition n, if it is as Go has it.
BindsRight(n, b) ==
  /\ b[2] # Param /\ defs[b[2]].name = b[1].name /\ defs[b[2]].kind # "type"
  /\ b[1].pkg = Own => defs[b[2]].run = defs[n].run
  /\ b[1].pkg # Own =>
       /\ b[1].name \notin Private
       /\ defs[b[2]].path = b[1].pkg /\ defs[b[2]].run # defs[n].run
       /\ Unshared /\ b[1].pkg # External =>
            defs[b[2]].dir \in ToSet(Found[defs[n].dir][b[1].pkg])

\* RightBinding, name by name.
LEMMA BindingIs ==
  RightBinding <=>
    \A n \in DOMAIN defs : \A b \in defs[n].bound :
      Unshadowed(n, b[1].name) => BindsRight(n, b)
  BY DEF RightBinding, BindsRight

\* A package does not import its own path.
LEMMA NotItself ==
  ASSUME NoSelfImport, Inv, NEW d \in Dirs, NEW p, Site(d, p)
  PROVE  p \notin ToSet(imports[d])
PROOF
  <1>1. imports \in Layouts
    BY DEF Inv, TypesRight
  <1> QED
    BY <1>1 DEF NoSelfImport, Site

\* A package that is imported once is where the import statement leads.
LEMMA UniqueSite ==
  ASSUME Inv, Unshared, NEW d \in Dirs, NEW p \in ToSet(imports[d]) \ {External},
         Found[d][p] # <<>>, NEW e, Site(e, p)
  PROVE  e \in ToSet(Found[d][p])
PROOF
  <1>1. imports \in [Dirs -> Seq(Paths)] /\ Found \in [Dirs -> [Paths -> Seq(Dirs)]]
    BY PackagesAssumption DEF Inv, IInv, Typed
  <1>2. PICK i \in DOMAIN imports[d] : imports[d][i] = p
    BY DEF ToSet
  <1>3. p \in Paths
    BY <1>1, <1>2
  <1>4. 1 \in DOMAIN Found[d][p] /\ Targets(d, i) = Found[d][p]
    BY <1>1, <1>2, <1>3 DEF Targets
  <1>5. p # Main
    BY <1>2, <1>4 DEF Unshared
  <1>6. PICK f \in Dirs : p \in ToSet(imports[f]) \ {External} /\ e \in ToSet(Found[f][p])
    BY <1>5 DEF Site
  <1>7. PICK j \in DOMAIN imports[f] : imports[f][j] = p
    BY <1>6 DEF ToSet
  <1>8. Targets(f, j) = Found[f][p]
    BY <1>7 DEF Targets
  <1>9. PICK n \in DOMAIN Targets(f, j) : Targets(f, j)[n] = e
    BY <1>6, <1>8 DEF ToSet
  <1>10. <<d, i, 1>> = <<f, j, n>>
    BY <1>2, <1>4, <1>7, <1>9 DEF Unshared
  <1>11. d = f
    BY <1>10
  <1> QED
    BY <1>6, <1>11

\* What the names of a declaration may be bound to.
LEMMA BoundIn ==
  ASSUME Inv, NEW d \in Decls, Declare(d), NEW kind, NEW type, NEW bound, NEW params,
         Adds(d, kind, type, bound, params), NEW b \in bound
  PROVE  /\ b[1] \in d.uses /\ b[1] \in Refs
         /\ b[2] \in Lookup(packages, params, b[1]) \/ b[2] \in Lookup(packages', params, b[1])
PROOF
  <1>1. bound # {}
    OBVIOUS
  <1>2. bound = Bound(packages, params, d.uses) \/ bound = Bound(packages', params, d.uses)
    BY <1>1 DEF Adds, BoundRight
  <1>3. /\ b[1] \in d.uses
        /\ b[2] \in Lookup(packages, params, b[1]) \/ b[2] \in Lookup(packages', params, b[1])
    BY <1>2 DEF Bound
  <1> QED
    BY <1>3, Declared

\* A name that is found in no scope is found in a table, where it was entered.
LEMMA FoundInTable ==
  ASSUME Inv, TablesNamed, NEW d \in Decls, Declare(d), NEW kind, NEW type, NEW bound, NEW params,
         Adds(d, kind, type, bound, params), NEW b \in bound,
         b[1].name \notin params, b[1].name \notin DOMAIN scope
  PROVE  /\ b[2] \in DOMAIN defs' /\ b[2] # Param /\ ~Hidden(b[1])
         /\ \E v, x, p : v = b[2] /\ x = b[1].name /\ p = Owner(b[1]) /\ Entered(v, x, p)'
PROOF
  <1>1. Placed(d, kind) /\ current' = current /\ runs' = runs
    BY DEF Adds
  <1>2. /\ DOMAIN defs = 1 .. Len(defs) /\ DOMAIN defs' = 1 .. Len(defs')
        /\ Len(defs) \in Nat /\ Len(defs') \in Nat
        /\ \A n \in DOMAIN defs : n \in DOMAIN defs' /\ defs'[n] = defs[n]
    BY Longer
  <1>3. PICK v, x, p : v = b[2] /\ x = b[1].name /\ p = Owner(b[1])
    OBVIOUS
  <1>4. CASE b[2] \in Lookup(packages, params, b[1])
    <2>1. /\ p \in DOMAIN packages /\ ~Hidden(b[1]) /\ x \in DOMAIN packages[p].vars
          /\ v = packages[p].vars[x]
      BY <1>3, <1>4 DEF Lookup
    <2>2. v \in DOMAIN defs /\ Entered(v, x, p)
      BY <1>2, <2>1, TablesRight DEF TablesNamed
    <2>3. Entered(v, x, p)'
      BY <1>1, <1>2, <2>2 DEF Entered
    <2>4. v # Param
      BY <1>2, <2>2 DEF Param
    <2> QED
      BY <1>2, <1>3, <2>1, <2>2, <2>3, <2>4
  <1>5. CASE b[2] \in Lookup(packages', params, b[1])
    <2>1. /\ p \in DOMAIN packages' /\ ~Hidden(b[1]) /\ x \in DOMAIN packages'[p].vars
          /\ v = packages'[p].vars[x]
      BY <1>3, <1>5 DEF Lookup
    <2>2. TablesNamed'
      BY DeclareTables
    <2>3. Entered(v, x, p)'
      BY <2>1, <2>2 DEF TablesNamed, Entered
    <2>4. v \in DOMAIN defs' /\ v # Param
      <3>1. \/ p \in DOMAIN packages /\ x \in DOMAIN packages[p].vars /\ v = packages[p].vars[x]
            \/ \E i \in 1 .. Len(d.names) : v = Len(defs) + i
        BY <1>1, <2>1, TablePlaced
      <3>2. CASE p \in DOMAIN packages /\ x \in DOMAIN packages[p].vars /\ v = packages[p].vars[x]
        BY <1>2, <3>2, TablesRight DEF Param
      <3>3. CASE \E i \in 1 .. Len(d.names) : v = Len(defs) + i
        <4>1. Len(defs') = Len(defs) + Len(d.names) /\ Len(d.names) \in Nat
          BY Added, Declared
        <4>2. PICK i \in 1 .. Len(d.names) : v = Len(defs) + i
          BY <3>3
        <4>3. v \in 1 .. Len(defs')
          BY <1>2, <4>1, <4>2
        <4> QED
          BY <1>2, <4>3 DEF Param
      <3> QED
        BY <3>1, <3>2, <3>3
    <2> QED
      BY <1>3, <2>1, <2>3, <2>4
  <1> QED
    BY <1>4, <1>5, BoundIn

LEMMA NewBinding ==
  ASSUME NoSelfImport, Inv, NamesRight, NEW d \in Decls, Declare(d),
         NEW kind, NEW type, NEW bound, NEW params, Adds(d, kind, type, bound, params),
         NEW n \in DOMAIN defs', n \notin DOMAIN defs, NEW b \in bound,
         Unshadowed(n, b[1].name)'
  PROVE  BindsRight(n, b)'
PROOF
  <1>1. /\ defs'[n].params = params /\ defs'[n].dir = Top.dir /\ defs'[n].run = runs
    BY AddedFields
  <1>2. /\ DOMAIN defs = 1 .. Len(defs) /\ DOMAIN defs' = 1 .. Len(defs')
        /\ Len(defs) \in Nat /\ Len(defs') \in Nat
        /\ \A m \in DOMAIN defs : defs'[m] = defs[m]
    BY Longer
  <1>3. FrameRight(Top) /\ Top \in FrameType /\ Compiling /\ current = Top.path
        /\ current \in Paths
    BY TopRight, Declared DEF NamesRight
  <1>4. Top.dir \in Dirs
    BY <1>3 DEF FrameType
  <1>5. b[1] \in d.uses /\ b[1] \in Refs
    BY BoundIn
  <1>6. b[1].pkg \in {Own} \cup ToSet(imports[Top.dir])
    BY <1>5, WrittenRight DEF NamesRight
  <1>7. b[1].name \notin params
    BY <1>1 DEF Unshadowed
  <1>8. b[1].name \notin DOMAIN scope
    <2> SUFFICES ASSUME b[1].name \in DOMAIN scope PROVE FALSE
      OBVIOUS
    <2>1. PICK m : m = scope[b[1].name]
      OBVIOUS
    <2>2. m \in 1 .. Len(defs)
      BY <2>1, TablesRight
    <2>3. m \in 1 .. n
      BY <1>2, <2>2
    <2>4. defs'[m].name = b[1].name /\ defs'[m].kind \in {"const", "local"}
      BY <1>2, <2>1, <2>2 DEF NamesRight, ScopeNamed, Scoped
    <2> QED
      BY <2>3, <2>4 DEF Unshadowed
  <1>9. /\ b[2] \in DOMAIN defs' /\ b[2] # Param /\ ~Hidden(b[1])
        /\ \E v, x, p : v = b[2] /\ x = b[1].name /\ p = Owner(b[1]) /\ Entered(v, x, p)'
    BY <1>7, <1>8, FoundInTable DEF NamesRight
  <1>10. runs' = runs /\ current' = current /\ imports' = imports /\ runs \in Nat
    BY DEF Adds, Declare, Inv, TypesRight
  <1>11. current # Own
    BY <1>3, PackagesAssumption
  <1>12. PICK v : v = b[2]
    OBVIOUS
  <1>13. /\ defs'[v].name = b[1].name /\ defs'[v].path = Owner(b[1]) /\ defs'[v].kind # "type"
         /\ Owner(b[1]) = current => defs'[v].run = runs
         /\ Owner(b[1]) # current => defs'[v].run < runs
    BY <1>9, <1>10, <1>11, <1>12 DEF Entered
  <1>14. CASE b[1].pkg = Own
    <2>1. defs'[v].run = runs
      BY <1>13, <1>14 DEF Owner
    <2> QED
      BY <1>1, <1>9, <1>12, <1>13, <1>14, <2>1 DEF BindsRight
  <1>15. CASE b[1].pkg # Own
    <2>1. Owner(b[1]) = b[1].pkg /\ b[1].pkg \in ToSet(imports[Top.dir])
      BY <1>6, <1>15 DEF Owner
    <2>2. b[1].pkg # current
      BY <1>3, <1>4, <2>1, NotItself DEF FrameRight
    <2>3. defs'[v].run < runs
      BY <1>13, <2>1, <2>2
    <2>4. defs'[v].run # runs
      BY <1>10, <2>3
    <2>5. b[1].name \notin Private
      BY <1>9, <1>15 DEF Hidden
    <2>6. ASSUME Unshared, b[1].pkg # External
          PROVE  defs'[v].dir \in ToSet(Found[Top.dir][b[1].pkg])
      <3>1. SitesRight'
        BY SitesStay DEF NamesRight, Next
      <3>2. defs'[v].kind # "extern"
        BY <1>9, <1>12, <1>13, <2>1, <2>6, <3>1 DEF SitesRight
      <3>3. Site(defs'[v].dir, b[1].pkg)
        BY <1>9, <1>10, <1>12, <1>13, <2>1, <3>1, <3>2 DEF SitesRight, Site
      <3>4. Top.todo = <<>>
        <4>1. Len(stack) \in DOMAIN stack /\ Top = stack[Len(stack)]
          BY <1>3, TopType DEF Inv, IInv, Compiling
        <4> QED
          BY <1>3, <4>1 DEF Inv, IInv, Started, ImportsDone, Compiling
      <3>5. ToSet(Top.todo) = {}
        BY <3>4 DEF ToSet
      <3>6. Found[Top.dir][b[1].pkg] # <<>>
        BY <1>3, <2>1, <2>6, <3>5 DEF FrameRight
      <3> QED
        BY <1>4, <2>1, <2>6, <3>3, <3>6, UniqueSite
    <2>7. Unshared' = Unshared
      BY <1>10 DEF Unshared, Targets
    <2> QED
      BY <1>1, <1>9, <1>12, <1>13, <1>15, <2>1, <2>4, <2>5, <2>6, <2>7 DEF BindsRight
  <1> QED
    BY <1>14, <1>15

\* What names were bound to before stays that.
LEMMA OldBinding ==
  ASSUME Inv, RightBinding, NEW d \in Decls, Declare(d),
         NEW kind, NEW type, NEW bound, NEW params, Adds(d, kind, type, bound, params),
         NEW n \in DOMAIN defs, NEW b \in defs[n].bound, Unshadowed(n, b[1].name)'
  PROVE  BindsRight(n, b)'
PROOF
  <1>1. /\ DOMAIN defs = 1 .. Len(defs) /\ Len(defs) \in Nat
        /\ \A m \in DOMAIN defs : defs'[m] = defs[m]
    BY Longer
  <1>2. \A m \in 1 .. n : m \in DOMAIN defs
    BY <1>1
  <1>3. Unshadowed(n, b[1].name)
    BY <1>1, <1>2 DEF Unshadowed
  <1>4. BindsRight(n, b)
    BY <1>3, BindingIs
  <1>5. b[2] \in 0 .. Len(defs)
    <2> DEFINE D == DefTypes(Len(defs))
    <2>1. defs \in Seq(D)
      BY DEF Inv, TypesRight
    <2>2. \A e \in D : e.bound \subseteq Refs \X (0 .. Len(defs))
      BY DEF DefTypes
    <2> HIDE DEF D
    <2>3. b \in Refs \X (0 .. Len(defs))
      BY <2>1, <2>2
    <2> QED
      BY <2>3
  <1>6. b[2] \in DOMAIN defs
    BY <1>1, <1>4, <1>5 DEF BindsRight, Param
  <1>7. imports' = imports
    BY DEF Declare
  <1>8. Unshared' = Unshared
    BY <1>7 DEF Unshared, Targets
  <1> QED
    BY <1>1, <1>4, <1>6, <1>8 DEF BindsRight

LEMMA BindingStays ==
  ASSUME NoSelfImport, Inv, NamesRight, [Next]_vars
  PROVE  RightBinding'
PROOF
  <1>1. CASE defs' = defs
    <2>1. imports' = imports
      BY ImportsStay
    <2>2. Unshared' = Unshared
      BY <2>1 DEF Unshared, Targets
    <2> QED
      BY <1>1, <2>2 DEF NamesRight, RightBinding, Unshadowed
  <1>2. ASSUME NEW d \in Decls, Declare(d), NEW kind, NEW type, NEW bound, NEW params,
               Adds(d, kind, type, bound, params)
        PROVE  RightBinding'
    <2>1. ASSUME NEW n \in DOMAIN defs', NEW b \in defs'[n].bound, Unshadowed(n, b[1].name)'
          PROVE  BindsRight(n, b)'
      <3>1. CASE n \in DOMAIN defs
        <4>1. b \in defs[n].bound
          BY <1>2, <3>1, Longer
        <4> QED
          BY <1>2, <2>1, <3>1, <4>1, OldBinding DEF NamesRight
      <3>2. CASE n \notin DOMAIN defs
        <4>1. b \in bound
          BY <1>2, <3>2, AddedFields
        <4> QED
          BY <1>2, <2>1, <3>2, <4>1, NewBinding
      <3> QED
        BY <3>1, <3>2
    <2> QED
      BY <2>1 DEF RightBinding, BindsRight
  <1>3. ASSUME NEW d \in Decls, Declare(d) PROVE RightBinding'
    BY <1>1, <1>2, <1>3, DeclareAdds DEF compiler
  <1> QED
    BY <1>1, <1>3, OnlyDeclare

LEMMA NamesInit == Init => NamesRight
PROOF
  <1> SUFFICES ASSUME Init PROVE NamesRight
    OBVIOUS
  <1> DEFINE externals == SetToSeq(ExternalVars)
             n == Cardinality(ExternalVars)
             table == Defining(<<>>, externals, 1)
             pkg == [NewPkg EXCEPT !.vars = table]
             fr == Frame(Root, Main)
  <1>1. n \in Nat /\ externals \in [1 .. n -> ExternalVars]
    BY ExternalsType
  <1>2. /\ text = [d \in Dirs |-> <<>>] /\ stack = <<fr>>
        /\ packages = [p \in {External} |-> pkg]
        /\ current = Own /\ scope = <<>> /\ runs = 0
        /\ defs = [i \in DOMAIN externals |-> Extern(externals[i])]
    BY DEF Init
  <1>3. externals \in Seq(Idents) /\ Len(externals) = n
    <2>1. externals \in [1 .. n -> Idents]
      BY <1>1, PackagesAssumption
    <2> HIDE DEF externals, n
    <2> QED
      BY <1>1, <2>1, IsSequence
  <1>4. FrameRight(fr)
    <2>1. /\ fr.dir = Root /\ fr.path = Main /\ fr.todo = imports[Root] /\ fr.calls = <<>>
      BY DEF Frame
    <2>2. ToSet(<<>>) = {}
      BY DEF ToSet
    <2> QED
      BY <2>1, <2>2 DEF FrameRight, Site
  <1> HIDE DEF externals, n, fr
  <1>5. FramesRight
    BY <1>2, <1>4 DEF FramesRight
  <1>6. /\ DOMAIN defs = 1 .. n
        /\ \A i \in 1 .. n : defs[i] = Extern(externals[i])
    BY <1>1, <1>2
  <1>7. SitesRight
    BY <1>6 DEF SitesRight, Extern
  <1>8. TextLegal
    BY <1>2 DEF TextLegal
  <1>9. TablesNamed
    <2> SUFFICES ASSUME NEW x \in DOMAIN table
                 PROVE  Entered(table[x], x, External)
      <3>1. DOMAIN packages = {External} /\ packages[External].vars = table
        BY <1>2 DEF NewPkg
      <3> HIDE DEF table
      <3> QED
        BY <3>1 DEF TablesNamed
    <2>1. /\ DOMAIN table = DOMAIN <<>> \cup ToSet(externals)
          /\ \A y \in ToSet(externals) :
               \E i \in 1 .. Len(externals) : externals[i] = y /\ table[y] = 1 - 1 + i
      <3> DEFINE one   == 1
                 empty == <<>>
      <3>1. one \in Nat \ {0}
        OBVIOUS
      <3> HIDE DEF one, empty
      <3>2. /\ DOMAIN Defining(empty, externals, one) = DOMAIN empty \cup ToSet(externals)
            /\ \A y \in ToSet(externals) :
                 \E i \in 1 .. Len(externals) :
                   externals[i] = y /\ Defining(empty, externals, one)[y] = one - 1 + i
            /\ \A y \in DOMAIN empty \ ToSet(externals) : Defining(empty, externals, one)[y] = empty[y]
        BY ONLY <1>3, <3>1, DefiningNames
      <3> QED
        BY <3>2 DEF one, empty
    <2> HIDE DEF table
    <2>2. x \in ToSet(externals)
      BY <2>1
    <2>3. PICK i \in 1 .. n : externals[i] = x /\ table[x] = i
      <3>1. PICK i \in 1 .. n : externals[i] = x /\ table[x] = 1 - 1 + i
        BY <1>3, <2>1, <2>2
      <3>2. 1 - 1 + i = i
        OBVIOUS
      <3> QED
        BY <3>1, <3>2
    <2>4. /\ defs[i].name = x /\ defs[i].path = External /\ defs[i].kind = "extern"
          /\ defs[i].run = 0
      BY <1>6, <2>3 DEF Extern
    <2>5. External # Own
      BY PackagesAssumption
    <2> QED
      BY <1>2, <2>3, <2>4, <2>5 DEF Entered
  <1>10. ScopeNamed
    BY <1>2 DEF ScopeNamed
  <1>11. RightBinding
    BY <1>6 DEF RightBinding, Extern
  <1> QED
    BY <1>5, <1>7, <1>8, <1>9, <1>10, <1>11 DEF NamesRight

\* A name that nothing shadows is bound to the declaration that Go binds it to, for any
\* imports in which no package imports its own path, and any declarations
\* (compiler.go:266-292, package.go:30-37).
THEOREM NamesMean == ASSUME NoSelfImport PROVE Spec => []RightBinding
PROOF
  <1>1. Init => Inv /\ NamesRight
    BY InvHolds, NamesInit
  <1>2. Inv /\ NamesRight /\ [Next]_vars => (Inv /\ NamesRight)'
    <2> SUFFICES ASSUME Inv, NamesRight, [Next]_vars PROVE (Inv /\ NamesRight)'
      OBVIOUS
    <2>1. /\ FramesRight /\ SitesRight /\ TextLegal /\ TablesNamed /\ ScopeNamed
      BY DEF NamesRight
    <2>2. FramesRight' /\ SitesRight' /\ TextLegal' /\ TablesNamed' /\ ScopeNamed'
      BY <2>1, FramesStay, SitesStay, TextStays, TablesStay, ScopeStays
    <2>3. RightBinding'
      BY BindingStays
    <2>4. Inv'
      BY InvKeeps
    <2> QED
      BY <2>2, <2>3, <2>4 DEF NamesRight
  <1>3. Inv /\ NamesRight => RightBinding
    BY DEF NamesRight
  <1> QED
    BY <1>1, <1>2, <1>3, PTL DEF Spec

-----------------------------------------------------------------------------
(* A package that is imported once *)

\* Import statements in order: what statement i of d leads to.
LEMMA LedBy ==
  ASSUME Inv, NEW d \in Dirs
  PROVE  /\ imports[d] \in Seq(Paths)
         /\ \A e \in Deps(d) : \E i \in DOMAIN imports[d] : \E m \in DOMAIN Targets(d, i) :
              Targets(d, i)[m] = e
PROOF
  <1>1. imports[d] \in Seq(Paths)
    BY DEF Inv, IInv, Typed
  <1> SUFFICES ASSUME NEW e \in Deps(d)
               PROVE  \E i \in DOMAIN imports[d] : \E m \in DOMAIN Targets(d, i) :
                        Targets(d, i)[m] = e
    BY <1>1
  <1>2. PICK p \in ToSet(imports[d]) \ {External} : e \in ToSet(Found[d][p])
    BY DEF Deps, LedTo
  <1>3. PICK i \in DOMAIN imports[d] : imports[d][i] = p
    BY DEF ToSet
  <1>4. Targets(d, i) = Found[d][p]
    BY <1>2, <1>3 DEF Targets
  <1>5. PICK m \in DOMAIN Found[d][p] : Found[d][p][m] = e
    BY <1>2 DEF ToSet
  <1> QED
    BY <1>4, <1>5

\* No two directories import the same one, and none imports the program.
LEMMA OneImporter ==
  ASSUME Inv, Unshared, NEW d \in Dirs, NEW e \in Deps(d)
  PROVE  e # Root /\ \A f \in Dirs : e \in Deps(f) => f = d
PROOF
  <1>1. PICK i \in DOMAIN imports[d] : \E m \in DOMAIN Targets(d, i) : Targets(d, i)[m] = e
    BY LedBy
  <1>2. PICK m \in DOMAIN Targets(d, i) : Targets(d, i)[m] = e
    BY <1>1
  <1>3. e # Root
    BY <1>2 DEF Unshared
  <1>4. ASSUME NEW f \in Dirs, e \in Deps(f) PROVE f = d
    <2>1. PICK j \in DOMAIN imports[f] : \E n \in DOMAIN Targets(f, j) : Targets(f, j)[n] = e
      BY <1>4, LedBy
    <2>2. PICK n \in DOMAIN Targets(f, j) : Targets(f, j)[n] = e
      BY <2>1
    <2>3. <<d, i, m>> = <<f, j, n>>
      BY <1>2, <2>2 DEF Unshared
    <2> QED
      BY <2>3
  <1> QED
    BY <1>3, <1>4

\* No two directories have the same path.
LEMMA OneSite ==
  ASSUME Inv, Unshared, NEW p, NEW d, NEW e, Site(d, p), Site(e, p)
  PROVE  d = e
PROOF
  <1>1. ASSUME NEW f \in Dirs, NEW c, p \in ToSet(imports[f]) \ {External}, c \in ToSet(Found[f][p])
        PROVE  \E i \in DOMAIN imports[f] : \E m \in DOMAIN Targets(f, i) :
                 imports[f][i] = p /\ Targets(f, i)[m] = c
    <2>1. PICK i \in DOMAIN imports[f] : imports[f][i] = p
      BY <1>1 DEF ToSet
    <2>2. Targets(f, i) = Found[f][p]
      BY <1>1, <2>1 DEF Targets
    <2> QED
      BY <1>1, <2>1, <2>2 DEF ToSet
  <1>2. ASSUME NEW f \in Dirs, NEW c, p \in ToSet(imports[f]) \ {External}, c \in ToSet(Found[f][p])
        PROVE  p # Main
    BY <1>1, <1>2 DEF Unshared
  <1>3. CASE p = Main
    BY <1>2, <1>3 DEF Site
  <1>4. CASE p # Main
    <2>1. PICK f \in Dirs : p \in ToSet(imports[f]) \ {External} /\ d \in ToSet(Found[f][p])
      BY <1>4 DEF Site
    <2>2. PICK g \in Dirs : p \in ToSet(imports[g]) \ {External} /\ e \in ToSet(Found[g][p])
      BY <1>4 DEF Site
    <2>3. PICK i \in DOMAIN imports[f] : \E m \in DOMAIN Targets(f, i) :
            imports[f][i] = p /\ Targets(f, i)[m] = d
      BY <1>1, <2>1
    <2>4. PICK m \in DOMAIN Targets(f, i) : imports[f][i] = p /\ Targets(f, i)[m] = d
      BY <2>3
    <2>5. PICK j \in DOMAIN imports[g] : \E n \in DOMAIN Targets(g, j) :
            imports[g][j] = p /\ Targets(g, j)[n] = e
      BY <1>1, <2>2
    <2>6. PICK n \in DOMAIN Targets(g, j) : imports[g][j] = p /\ Targets(g, j)[n] = e
      BY <2>5
    <2>7. <<f, i, m>> = <<g, j, n>>
      BY <2>4, <2>6 DEF Unshared
    <2> QED
      BY <2>4, <2>6, <2>7
  <1> QED
    BY <1>3, <1>4

\* What later import statements lead to, earlier ones do not.
LEMMA LaterStatements ==
  ASSUME Inv, Unshared, NEW d \in Dirs, NEW s \in Seq(Paths), s # <<>>,
         Len(s) <= Len(imports[d]),
         \A j \in DOMAIN s : s[j] = imports[d][Len(imports[d]) - Len(s) + j],
         Head(s) # External
  PROVE  LET found == Found[d][Head(s)]
         IN  /\ \A m, n \in DOMAIN found : found[m] = found[n] => m = n
             /\ \A m \in DOMAIN found :
                  found[m] \in LedTo(d, s) /\ found[m] \notin LedTo(d, Tail(s))
PROOF
  <1> DEFINE found == Found[d][Head(s)]
             k == Len(imports[d]) - Len(s)
  <1>1. imports[d] \in Seq(Paths)
    BY LedBy
  <1>2. /\ Len(s) \in Nat \ {0} /\ Head(s) = s[1] /\ DOMAIN s = 1 .. Len(s)
        /\ DOMAIN Tail(s) = 1 .. Len(s) - 1
        /\ \A j \in 1 .. Len(s) - 1 : Tail(s)[j] = s[j + 1]
    OBVIOUS
  <1>3. k \in Nat /\ k + Len(s) = Len(imports[d]) /\ DOMAIN imports[d] = 1 .. Len(imports[d])
        /\ Len(imports[d]) \in Nat
    <2> DEFINE l == Len(s)
               n == Len(imports[d])
    <2>1. l \in Nat /\ n \in Nat /\ l <= n
      BY <1>1, <1>2
    <2> HIDE DEF l, n
    <2>2. n - l \in Nat /\ n - l + l = n
      BY <2>1
    <2> QED
      BY <1>1, <2>1, <2>2 DEF l, n
  <1>4. \A j \in 1 .. Len(s) : s[j] = imports[d][k + j]
    BY <1>2
  <1> HIDE DEF k
  <1>5. \A j \in 1 .. Len(s) : k + j \in DOMAIN imports[d]
    BY <1>2, <1>3
  <1>6. 1 \in 1 .. Len(s)
    BY <1>2
  <1>7. k + 1 \in DOMAIN imports[d] /\ imports[d][k + 1] = Head(s)
    BY <1>2, <1>4, <1>5, <1>6
  <1>8. Targets(d, k + 1) = found
    BY <1>7 DEF Targets
  <1>9. ASSUME NEW m \in DOMAIN found, NEW n \in DOMAIN found, found[m] = found[n] PROVE m = n
    <2>1. <<d, k + 1, m>> = <<d, k + 1, n>>
      BY <1>7, <1>8, <1>9 DEF Unshared
    <2> QED
      BY <2>1
  <1>10. ASSUME NEW m \in DOMAIN found PROVE found[m] \in LedTo(d, s)
    <2>1. Head(s) \in ToSet(s) /\ found[m] \in ToSet(found)
      BY <1>2, <1>6 DEF ToSet
    <2> QED
      BY <2>1 DEF LedTo
  <1>11. ASSUME NEW m \in DOMAIN found, found[m] \in LedTo(d, Tail(s)) PROVE FALSE
    <2>1. PICK q \in ToSet(Tail(s)) \ {External} : found[m] \in ToSet(Found[d][q])
      BY <1>11 DEF LedTo
    <2>2. PICK j \in 1 .. Len(s) - 1 : Tail(s)[j] = q
      BY <1>2, <2>1 DEF ToSet
    <2>3. j + 1 \in 1 .. Len(s)
      BY <1>2
    <2>4. imports[d][k + (j + 1)] = q /\ k + (j + 1) \in DOMAIN imports[d]
      BY <1>2, <1>4, <1>5, <2>2, <2>3
    <2>5. Targets(d, k + (j + 1)) = Found[d][q]
      BY <2>1, <2>4 DEF Targets
    <2>6. PICK n \in DOMAIN Found[d][q] : Found[d][q][n] = found[m]
      BY <2>1 DEF ToSet
    <2>7. <<d, k + 1, m>> = <<d, k + (j + 1), n>>
      BY <1>7, <1>8, <2>4, <2>5, <2>6 DEF Unshared
    <2>8. k + 1 = k + (j + 1)
      BY <2>7
    <2> QED
      BY <1>3, <2>8
  <1> QED
    BY <1>9, <1>10, <1>11

\* The calls after a step, one by one.
LEMMA FreshAre ==
  ASSUME imports' = imports, NEW loaded, Loaded' = loaded,
         \A i \in DOMAIN stack' : \E f : f = stack'[i] /\ Fresh(f, loaded)
  PROVE  FramesFresh'
PROOF
  <1>1. ASSUME NEW i \in DOMAIN stack' PROVE Fresh(stack[i], Loaded)'
    <2>1. PICK f : f = stack'[i] /\ Fresh(f, loaded)
      OBVIOUS
    <2>2. Deps(f.dir)' = Deps(f.dir)
      BY DEF Deps
    <2> QED
      BY <2>1, <2>2 DEF Fresh, Deps
  <1> QED
    BY <1>1 DEF FramesFresh

\* A step after which nothing has been loaded or defined.
LEMMA OnceKept ==
  ASSUME OnceRight, UNCHANGED <<imports, text, done, stack, defs>>,
         status' = "running" => status = "running"
  PROVE  OnceRight'
PROOF
  <1>1. Loaded' = Loaded
    BY DEF Loaded, Open
  <1>2. FramesFresh'
    <2>1. ASSUME NEW i \in DOMAIN stack' PROVE \E f : f = stack'[i] /\ Fresh(f, Loaded)
      BY <2>1 DEF OnceRight, FramesFresh
    <2> QED
      BY <1>1, <2>1, FreshAre
  <1>3. LoadedOnce'
    BY <1>1 DEF OnceRight, LoadedOnce, Deps
  <1>4. TextRead'
    BY <1>1 DEF OnceRight, TextRead
  <1>5. FuncsDeclared' /\ PairsDiffer'
    BY DEF OnceRight, FuncsDeclared, PairsDiffer, Pair
  <1> QED
    BY <1>2, <1>3, <1>4, <1>5 DEF OnceRight

\* The last call goes on.
LEMMA OnceReplaced ==
  ASSUME Inv, status = "running", FramesFresh, LoadedOnce, imports' = imports, done' = done,
         NEW f \in FrameType, f.dir = Top.dir, stack' = Replaced(f), Fresh(f, Loaded)
  PROVE  /\ DOMAIN stack' = DOMAIN stack /\ stack'[Len(stack)] = f
         /\ \A i \in DOMAIN stack : /\ stack'[i].dir = stack[i].dir
                                    /\ i # Len(stack) => stack'[i] = stack[i]
         /\ Loaded' = Loaded /\ FramesFresh' /\ LoadedOnce'
PROOF
  <1>1. /\ DOMAIN stack' = DOMAIN stack /\ stack'[Len(stack)] = f
        /\ \A i \in 1 .. Len(stack) - 1 : stack'[i] = stack[i]
        /\ Top = stack[Len(stack)]
    <2>1. Typed
      BY DEF Inv, IInv
    <2>2. Top = stack[Len(stack)]
      BY <2>1, TopType
    <2>3. /\ DOMAIN Replaced(f) = DOMAIN stack
          /\ \A i \in 1 .. Len(stack) - 1 : Replaced(f)[i] = stack[i]
          /\ Replaced(f)[Len(stack)] = f
      BY <2>1, ReplaceTop, SMTT(20)
    <2> QED
      BY <2>2, <2>3
  <1>2. \A i \in DOMAIN stack : i = Len(stack) \/ i \in 1 .. Len(stack) - 1
    <2> DEFINE n == Len(stack)
    <2>1. n \in Nat \ {0} /\ DOMAIN stack = 1 .. n
      BY TopType DEF Inv, IInv, Typed
    <2> HIDE DEF n
    <2>2. \A i \in 1 .. n : i = n \/ i \in 1 .. n - 1
      BY ONLY <2>1
    <2> QED
      BY <2>1, <2>2 DEF n
  <1>3. \A i \in DOMAIN stack : /\ stack'[i].dir = stack[i].dir
                                /\ i # Len(stack) => stack'[i] = stack[i]
    BY <1>1, <1>2
  <1>4. Loaded' = Loaded
    BY <1>1, <1>3 DEF Loaded, Open
  <1>5. FramesFresh'
    <2>1. ASSUME NEW i \in DOMAIN stack' PROVE \E g : g = stack'[i] /\ Fresh(g, Loaded)
      <3>1. CASE i = Len(stack)
        BY <1>1, <3>1
      <3>2. CASE i # Len(stack)
        BY <1>1, <1>3, <2>1, <3>2 DEF FramesFresh
      <3> QED
        BY <3>1, <3>2
    <2> QED
      BY <1>4, <2>1, FreshAre
  <1>6. LoadedOnce'
    BY <1>1, <1>3, <1>4 DEF LoadedOnce, Deps
  <1> QED
    BY <1>1, <1>3, <1>4, <1>5, <1>6

\* The top of the stack is fresh.
LEMMA TopFresh ==
  ASSUME Inv, status = "running", FramesFresh
  PROVE  /\ Fresh(Top, Loaded) /\ Top \in FrameType /\ Top.dir \in Dirs
         /\ Len(stack) \in DOMAIN stack /\ Top = stack[Len(stack)] /\ Top.dir \in Loaded
PROOF
  <1>1. Len(stack) \in DOMAIN stack /\ Top = stack[Len(stack)] /\ Top \in FrameType
    BY TopType DEF Inv, IInv
  <1> QED
    BY <1>1 DEF FramesFresh, Loaded, Open, FrameType

\* Directories are loaded.
LEMMA LoadedDirs == ASSUME Inv PROVE Loaded \subseteq Dirs
PROOF
  <1>1. done \subseteq Dirs /\ stack \in Seq(FrameType)
    BY DEF Inv, IInv, Typed
  <1>2. \A f \in FrameType : f.dir \in Dirs
    BY DEF FrameType
  <1> HIDE DEF FrameType
  <1>3. \A i \in DOMAIN stack : stack[i].dir \in Dirs
    BY <1>1, <1>2
  <1> QED
    BY <1>1, <1>3 DEF Loaded, Open

\* What a call has left to import is what its directory imports.
LEMMA LedToDeps ==
  ASSUME Inv, NEW f \in FrameType, NEW loaded, Fresh(f, loaded)
  PROVE  LedTo(f.dir, f.todo) \subseteq Deps(f.dir)
PROOF
  <1> DEFINE s == f.todo
             d == f.dir
             n == Len(imports[d])
             l == Len(s)
  <1>1. d \in Dirs /\ s \in Seq(Paths)
    BY DEF FrameType
  <1>2. l <= n /\ \A j \in DOMAIN s : s[j] = imports[d][n - l + j]
    BY DEF Fresh
  <1>3. n \in Nat /\ l \in Nat /\ DOMAIN imports[d] = 1 .. n /\ DOMAIN s = 1 .. l
    BY <1>1, LedBy
  <1> HIDE DEF n, l
  <1>4. \A j \in 1 .. l : n - l + j \in 1 .. n
    BY <1>2, <1>3
  <1>5. \A q \in ToSet(s) : q \in ToSet(imports[d])
    BY <1>2, <1>3, <1>4 DEF ToSet
  <1> QED
    BY <1>5 DEF LedTo, Deps

LEMMA ImportOnce == ASSUME Inv, Unshared, OnceRight, Import PROVE OnceRight'
PROOF
  <1> DEFINE p == Head(Top.todo)
             f == [Top EXCEPT !.todo = Tail(@), !.calls = Calls(p)]
  <1>1. /\ status = "running" /\ Top.at = 0 /\ Top.todo # <<>>
        /\ FramesFresh /\ LoadedOnce /\ TextRead /\ FuncsDeclared /\ PairsDiffer
    BY DEF Import, Importing, OnceRight
  <1>2. CASE NotFound
    BY <1>2, OnceKept DEF NotFound, Fail, source, compiler
  <1>3. CASE stack' = Replaced(f) /\ UNCHANGED <<source, compiler, status>>
    <2>1. /\ Fresh(Top, Loaded) /\ Top \in FrameType /\ Top.dir \in Dirs
          /\ Len(stack) \in DOMAIN stack /\ Top = stack[Len(stack)]
      BY <1>1, TopFresh
    <2> DEFINE s == Top.todo
               d == Top.dir
    <2>2. s \in Seq(Paths) /\ s # <<>>
      BY <1>1, <2>1 DEF FrameType
    <2>3. /\ f.dir = d /\ f.todo = Tail(s) /\ f.calls = Calls(p) /\ f.at = 0
      BY <1>1, <2>1 DEF FrameType
    <2>4. f \in FrameType
      <3>1. stack' \in Seq(FrameType)
        BY <1>3, ImportStep DEF Inv, IInv, Typed
      <3>2. Len(stack) \in Nat \ {0} /\ stack \in Seq(FrameType)
        BY <1>1, TopType DEF Inv, IInv, Typed
      <3> HIDE DEF f
      <3>3. stack'[Len(stack)] = f /\ Len(stack) \in DOMAIN stack'
        BY <1>3, <3>2 DEF Replaced
      <3> QED
        BY <3>1, <3>3
    <2>5. /\ LedTo(d, s) \cap Loaded = {} /\ Len(s) <= Len(imports[d])
          /\ \A j \in DOMAIN s : s[j] = imports[d][Len(imports[d]) - Len(s) + j]
      BY <2>1 DEF Fresh
    <2>6. LedTo(d, s) \subseteq Deps(d)
      BY <2>1, LedToDeps
    <2>7. ToSet(Tail(s)) \subseteq ToSet(s) /\ Len(Tail(s)) <= Len(imports[d])
          /\ \A j \in DOMAIN Tail(s) :
               Tail(s)[j] = imports[d][Len(imports[d]) - Len(Tail(s)) + j]
      <3> DEFINE n == Len(imports[d])
                 l == Len(s)
      <3>1. n \in Nat /\ l \in Nat \ {0} /\ l <= n
        BY <2>1, <2>2, <2>5, LedBy
      <3>2. /\ Len(Tail(s)) = l - 1 /\ DOMAIN Tail(s) = 1 .. l - 1 /\ DOMAIN s = 1 .. l
            /\ \A j \in 1 .. l - 1 : Tail(s)[j] = s[j + 1]
        BY <2>2
      <3>3. \A j \in 1 .. l : s[j] = imports[d][n - l + j]
        BY <2>5, <3>2
      <3> HIDE DEF n, l
      <3>4. /\ l - 1 <= n
            /\ \A j \in 1 .. l - 1 : j + 1 \in 1 .. l /\ n - l + (j + 1) = n - (l - 1) + j
        BY <3>1
      <3>5. ToSet(Tail(s)) \subseteq ToSet(s)
        BY <3>2, <3>4 DEF ToSet
      <3>6. \A j \in 1 .. l - 1 : Tail(s)[j] = imports[d][n - (l - 1) + j]
        BY <3>2, <3>3, <3>4
      <3> QED
        BY <3>2, <3>4, <3>5, <3>6 DEF n
    <2>8. LedTo(d, Tail(s)) \subseteq LedTo(d, s)
      BY <2>7 DEF LedTo
    <2>9. ASSUME NEW j \in DOMAIN Calls(p)
          PROVE  /\ Calls(p)[j].dir \notin Loaded
                 /\ \A k \in DOMAIN Calls(p) : Calls(p)[j].dir = Calls(p)[k].dir => j = k
                 /\ Calls(p)[j].dir \notin LedTo(d, Tail(s))
                 /\ Calls(p)[j].dir \in Deps(d)
      <3>1. p # External /\ DOMAIN Calls(p) = DOMAIN Found[d][p]
            /\ \A k \in DOMAIN Calls(p) : Calls(p)[k].dir = Found[d][p][k]
        <4>1. p # External
          BY <2>9 DEF Calls
        <4>2. Calls(p) = [i \in DOMAIN Found[d][p] |-> [dir |-> Found[d][p][i], path |-> p]]
          BY <4>1, SMTT(20) DEF Calls
        <4> HIDE DEF d, p
        <4> QED
          BY <4>1, <4>2, SMTT(20)
      <3>2. /\ \A m, n \in DOMAIN Found[d][p] : Found[d][p][m] = Found[d][p][n] => m = n
            /\ \A m \in DOMAIN Found[d][p] :
                 /\ Found[d][p][m] \in LedTo(d, s) /\ Found[d][p][m] \notin LedTo(d, Tail(s))
        BY <2>1, <2>2, <2>5, <3>1, LaterStatements
      <3> QED
        BY <2>5, <2>6, <3>1, <3>2
    <2> HIDE DEF f, s, d, p
    <2>10. Fresh(f, Loaded)
      BY <2>3, <2>5, <2>7, <2>8, <2>9 DEF Fresh
    <2>11. /\ DOMAIN stack' = DOMAIN stack /\ stack'[Len(stack)] = f
           /\ \A i \in DOMAIN stack : /\ stack'[i].dir = stack[i].dir
                                      /\ i # Len(stack) => stack'[i] = stack[i]
           /\ Loaded' = Loaded /\ FramesFresh' /\ LoadedOnce'
      BY <1>1, <1>3, <2>3, <2>4, <2>10, OnceReplaced DEF source, d
    <2>12. TextRead'
      <3>1. \A i \in DOMAIN stack : stack'[i].at = stack[i].at
        BY <1>1, <2>1, <2>3, <2>11
      <3> QED
        BY <1>1, <1>3, <2>11, <3>1 DEF TextRead, source
    <2>13. FuncsDeclared' /\ PairsDiffer'
      BY <1>1, <1>3 DEF FuncsDeclared, PairsDiffer, Pair, source, compiler
    <2> QED
      BY <2>11, <2>12, <2>13 DEF OnceRight
  <1> QED
    BY <1>2, <1>3 DEF Import

LEMMA StartOnce == ASSUME Inv, OnceRight, StartCompile PROVE OnceRight'
PROOF
  <1> DEFINE f == [Top EXCEPT !.at = 1]
  <1>1. /\ status = "running" /\ Top.at = 0 /\ stack' = Replaced(f)
        /\ UNCHANGED <<imports, text, done, defs, status>>
        /\ FramesFresh /\ LoadedOnce /\ TextRead /\ FuncsDeclared /\ PairsDiffer
    BY DEF StartCompile, Importing, OnceRight, source
  <1>2. /\ Fresh(Top, Loaded) /\ Top \in FrameType
        /\ Len(stack) \in DOMAIN stack /\ Top = stack[Len(stack)]
    BY <1>1, TopFresh
  <1>3. /\ f \in FrameType /\ f.dir = Top.dir /\ f.at = 1
        /\ f.todo = Top.todo /\ f.calls = Top.calls
    BY <1>2 DEF FrameType
  <1> HIDE DEF f
  <1>4. Fresh(f, Loaded)
    BY <1>2, <1>3 DEF Fresh
  <1>5. /\ DOMAIN stack' = DOMAIN stack /\ stack'[Len(stack)] = f
        /\ \A i \in DOMAIN stack : /\ stack'[i].dir = stack[i].dir
                                   /\ i # Len(stack) => stack'[i] = stack[i]
        /\ Loaded' = Loaded /\ FramesFresh' /\ LoadedOnce'
    BY <1>1, <1>3, <1>4, OnceReplaced
  <1>6. TextRead'
    <2>1. Len(text[Top.dir]) = 0
      BY <1>1, <1>2 DEF TextRead
    <2>2. ASSUME NEW i \in DOMAIN stack
          PROVE  Len(text[stack'[i].dir]) = IF stack'[i].at = 0 THEN 0 ELSE stack'[i].at - 1
      <3>1. CASE i = Len(stack)
        BY <1>2, <1>3, <1>5, <2>1, <3>1
      <3>2. CASE i # Len(stack)
        BY <1>1, <1>5, <3>2 DEF TextRead
      <3> QED
        BY <3>1, <3>2
    <2> QED
      BY <1>1, <1>5, <2>2 DEF TextRead
  <1>7. FuncsDeclared' /\ PairsDiffer'
    BY <1>1 DEF FuncsDeclared, PairsDiffer, Pair
  <1> QED
    BY <1>5, <1>6, <1>7 DEF OnceRight

LEMMA EndOnce == ASSUME Inv, OnceRight, EndCompile PROVE OnceRight'
PROOF
  <1> DEFINE n == Len(stack)
  <1>1. /\ status = "running" /\ stack' = Front(stack) /\ done' = done \cup {Top.dir}
        /\ UNCHANGED <<imports, text, defs>>
        /\ FramesFresh /\ LoadedOnce /\ TextRead /\ FuncsDeclared /\ PairsDiffer
    BY DEF EndCompile, Compiling, OnceRight, compiler
  <1>2. /\ n \in Nat \ {0} /\ stack \in Seq(FrameType) /\ n = Len(stack) /\ DOMAIN stack = 1 .. n
        /\ Top = stack[n]
    BY <1>1, TopType DEF Inv, IInv, Typed
  <1>3. DOMAIN stack' = 1 .. n - 1 /\ \A i \in 1 .. n - 1 : stack'[i] = stack[i]
    <2>1. stack' = SubSeq(stack, 1, n - 1)
      BY <1>1 DEF Front
    <2>2. n - 1 \in Nat /\ n - 1 <= n
      BY <1>2
    <2> HIDE DEF n
    <2> QED
      BY <1>2, <2>1, <2>2
  <1> HIDE DEF n
  <1>4. /\ n \in DOMAIN stack
        /\ \A i \in DOMAIN stack : i = n \/ i \in 1 .. n - 1
        /\ \A i \in 1 .. n - 1 : i \in DOMAIN stack /\ i # n
    BY <1>2
  <1>5. Loaded' = Loaded
    <2>1. Open = Open' \cup {Top.dir}
      BY <1>2, <1>3, <1>4 DEF Open
    <2> QED
      BY <1>1, <2>1 DEF Loaded
  <1>6. FramesFresh'
    <2>1. ASSUME NEW i \in DOMAIN stack' PROVE \E f : f = stack'[i] /\ Fresh(f, Loaded)
      BY <1>1, <1>3, <1>4, <2>1 DEF FramesFresh
    <2> QED
      BY <1>1, <1>5, <2>1, FreshAre
  <1>7. LoadedOnce'
    <2>1. \A i \in DOMAIN stack' : stack'[i].dir \notin done'
      BY <1>1, <1>2, <1>3, <1>4 DEF LoadedOnce
    <2>2. \A i, j \in DOMAIN stack' : stack'[i].dir = stack'[j].dir => i = j
      BY <1>1, <1>3, <1>4 DEF LoadedOnce
    <2> QED
      BY <1>1, <1>5, <2>1, <2>2 DEF LoadedOnce, Deps
  <1>8. TextRead'
    BY <1>1, <1>3, <1>4, <1>5 DEF TextRead
  <1>9. FuncsDeclared' /\ PairsDiffer'
    BY <1>1 DEF FuncsDeclared, PairsDiffer, Pair
  <1> QED
    BY <1>6, <1>7, <1>8, <1>9 DEF OnceRight

LEMMA LoadOnce == ASSUME Inv, Unshared, OnceRight, Load PROVE OnceRight'
PROOF
  <1> DEFINE call == Head(Top.calls)
             e == call.dir
             g == [Top EXCEPT !.calls = Tail(@)]
             new == Frame(call.dir, call.path)
             n == Len(stack)
             d == Top.dir
  <1>1. /\ status = "running" /\ Top.at = 0 /\ Top.calls # <<>> /\ UNCHANGED <<source, compiler>>
        /\ FramesFresh /\ LoadedOnce /\ TextRead /\ FuncsDeclared /\ PairsDiffer
    BY DEF Load, Importing, OnceRight
  <1>2. CASE status' = "overflow" /\ UNCHANGED stack
    BY <1>1, <1>2, OnceKept DEF source, compiler
  <1>3. CASE stack' = Append(Replaced(g), new) /\ status' = status
    <2>1. /\ Fresh(Top, Loaded) /\ Top \in FrameType /\ d \in Dirs
          /\ n \in DOMAIN stack /\ Top = stack[n] /\ d \in Loaded
      BY <1>1, TopFresh
    <2> DEFINE C == [dir : Dirs, path : Paths]
               s == Top.calls
    <2>2. s \in Seq(C) /\ s # <<>>
      BY <1>1, <2>1 DEF FrameType
    <2>3. /\ g.dir = d /\ g.todo = Top.todo /\ g.calls = Tail(s) /\ g.at = 0
      BY <1>1, <2>1 DEF FrameType
    <2>4. new.dir = e /\ new.todo = imports[e] /\ new.calls = <<>> /\ new.at = 0
      BY DEF Frame
    <2> HIDE DEF C
    <2>5. /\ Len(s) \in Nat \ {0} /\ DOMAIN s = 1 .. Len(s) /\ Head(s) = s[1]
          /\ DOMAIN Tail(s) = 1 .. Len(s) - 1
          /\ \A i \in 1 .. Len(s) - 1 : Tail(s)[i] = s[i + 1]
      BY <2>2
    <2>6. s[1].dir = e /\ 1 \in DOMAIN s /\ e \in Dirs
      <3>1. s[1] \in C
        BY <2>2, <2>5
      <3> QED
        BY <2>5, <3>1 DEF C
    <2>7. /\ \A j \in DOMAIN s :
               /\ s[j].dir \notin Loaded
               /\ \A k \in DOMAIN s : s[j].dir = s[k].dir => j = k
               /\ s[j].dir \notin LedTo(d, Top.todo) /\ s[j].dir \in Deps(d)
          /\ LedTo(d, Top.todo) \cap Loaded = {}
      BY <2>1 DEF Fresh
    <2>8. e \notin Loaded /\ e \in Deps(d) /\ e \notin LedTo(d, Top.todo)
      BY <2>6, <2>7
    <2>9. \A f \in Dirs : e \in Deps(f) => f = d
      BY <2>1, <2>8, OneImporter
    <2> HIDE DEF e, d, s
    <2>10. Fresh(g, Loaded \cup {e})
      <3>1. ASSUME NEW j \in 1 .. Len(s) - 1
            PROVE  j + 1 \in DOMAIN s /\ Tail(s)[j] = s[j + 1] /\ j + 1 # 1
        BY <2>5
      <3>2. ASSUME NEW j \in DOMAIN Tail(s)
            PROVE  /\ Tail(s)[j].dir \notin Loaded \cup {e}
                   /\ \A k \in DOMAIN Tail(s) : Tail(s)[j].dir = Tail(s)[k].dir => j = k
                   /\ Tail(s)[j].dir \notin LedTo(d, Top.todo)
                   /\ Tail(s)[j].dir \in Deps(d)
        <4>1. j + 1 \in DOMAIN s /\ Tail(s)[j] = s[j + 1] /\ j + 1 # 1 /\ j \in Int
          BY <2>5, <3>1, <3>2
        <4>2. Tail(s)[j].dir # e
          BY <2>6, <2>7, <4>1
        <4>3. ASSUME NEW k \in DOMAIN Tail(s), Tail(s)[j].dir = Tail(s)[k].dir PROVE j = k
          <5>1. k + 1 \in DOMAIN s /\ Tail(s)[k] = s[k + 1] /\ k \in Int
            BY <2>5, <3>1
          <5>2. j + 1 = k + 1
            BY <2>7, <4>1, <4>3, <5>1
          <5> QED
            BY <4>1, <5>1, <5>2
        <4> QED
          BY <2>7, <4>1, <4>2, <4>3
      <3>3. LedTo(d, Top.todo) \cap (Loaded \cup {e}) = {}
        BY <2>7, <2>8
      <3> HIDE DEF g
      <3> QED
        BY <2>1, <2>3, <3>2, <3>3 DEF Fresh, d
    <2>11. Fresh(new, Loaded \cup {e})
      <3>1. imports[e] \in Seq(Paths)
        BY <2>6, LedBy
      <3>2. LedTo(e, imports[e]) = Deps(e)
        BY DEF Deps
      <3>3. ASSUME NEW x \in Deps(e) PROVE x \notin Loaded \cup {e}
        <4>1. x # Root /\ \A f \in Dirs : x \in Deps(f) => f = e
          BY <2>6, <3>3, OneImporter
        <4>2. x \notin Loaded
          <5> SUFFICES ASSUME x \in Loaded PROVE FALSE
            OBVIOUS
          <5>1. PICK f \in Loaded : x \in Deps(f)
            BY <1>1, <4>1 DEF LoadedOnce
          <5>2. f \in Dirs
            BY LoadedDirs
          <5> QED
            BY <2>8, <4>1, <5>1, <5>2
        <4>3. x # e
          BY <2>1, <2>8, <4>1 DEF d
        <4> QED
          BY <4>2, <4>3
      <3>4. \A j \in 1 .. Len(imports[e]) : j = Len(imports[e]) - Len(imports[e]) + j
        <4> DEFINE l == Len(imports[e])
        <4>1. l \in Nat
          BY <3>1
        <4> HIDE DEF l
        <4>2. \A j \in 1 .. l : j = l - l + j
          BY <4>1
        <4> QED
          BY <4>2 DEF l
      <3>5. DOMAIN imports[e] = 1 .. Len(imports[e]) /\ Len(imports[e]) <= Len(imports[e])
        BY <3>1
      <3>6. DOMAIN <<>> = {}
        OBVIOUS
      <3> HIDE DEF new
      <3> QED
        BY <2>4, <3>2, <3>3, <3>4, <3>5, <3>6 DEF Fresh
    <2>12. /\ n \in Nat \ {0} /\ n = Len(stack) /\ DOMAIN stack = 1 .. n /\ stack \in Seq(FrameType)
      BY <1>1, TopType DEF Inv, IInv, Typed
    <2> HIDE DEF g, new, n
    <2>13. /\ DOMAIN stack' = 1 .. n + 1
           /\ \A i \in 1 .. n - 1 : stack'[i] = stack[i]
           /\ stack'[n] = g /\ stack'[n + 1] = new
      <3> DEFINE S == FrameType \cup {g, new}
                 r == Replaced(g)
      <3>1. /\ r \in Seq(S) /\ Len(r) = n /\ new \in S
            /\ \A i \in 1 .. n - 1 : r[i] = stack[i]
            /\ r[n] = g
        BY <2>12 DEF Replaced
      <3> HIDE DEF S, r
      <3>2. stack' = Append(r, new)
        BY <1>3 DEF r
      <3> QED
        BY <2>12, <3>1, <3>2, AppendProperties, LenProperties
    <2>14. /\ \A i \in DOMAIN stack' : i = n + 1 \/ i \in 1 .. n
           /\ \A i \in 1 .. n : i \in DOMAIN stack' /\ (i = n \/ i \in 1 .. n - 1) /\ i # n + 1
           /\ n + 1 \in DOMAIN stack' /\ n \in 1 .. n
      BY <2>12, <2>13
    <2>15. /\ \A i \in 1 .. n : stack'[i].dir = stack[i].dir /\ stack'[i].at = stack[i].at
           /\ stack'[n + 1].dir = e /\ stack'[n + 1].at = 0
      BY <1>1, <2>1, <2>3, <2>4, <2>13, <2>14 DEF d
    <2>16. Loaded' = Loaded \cup {e}
      <3>1. Open' = Open \cup {e}
        <4>1. Open = {stack[i].dir : i \in 1 .. n} /\ Open' = {stack'[i].dir : i \in DOMAIN stack'}
          BY <2>12 DEF Open
        <4>2. ASSUME NEW x \in Open' PROVE x \in Open \cup {e}
          <5>1. PICK i \in DOMAIN stack' : x = stack'[i].dir
            BY <4>1
          <5> QED
            BY <2>14, <2>15, <4>1, <5>1
        <4>3. ASSUME NEW x \in Open PROVE x \in Open'
          <5>1. PICK i \in 1 .. n : x = stack[i].dir
            BY <4>1
          <5> QED
            BY <2>14, <2>15, <4>1, <5>1
        <4>4. e \in Open'
          BY <2>14, <2>15, <4>1
        <4> QED
          BY <4>2, <4>3, <4>4
      <3> QED
        BY <1>1, <3>1 DEF Loaded, source
    <2>17. FramesFresh'
      <3>1. ASSUME NEW i \in 1 .. n - 1 PROVE Fresh(stack[i], Loaded \cup {e})
        <4>1. i \in DOMAIN stack /\ i # n
          BY <2>12
        <4>2. Fresh(stack[i], Loaded) /\ stack[i].dir \in Dirs /\ stack[i] \in FrameType
          <5>1. stack[i] \in FrameType
            BY <2>12, <4>1
          <5>2. stack[i].dir \in Dirs
            BY <5>1 DEF FrameType
          <5> QED
            BY <1>1, <4>1, <5>1, <5>2 DEF FramesFresh
        <4>3. stack[i].dir # d
          BY <1>1, <2>1, <4>1 DEF LoadedOnce, d
        <4>4. e \notin Deps(stack[i].dir)
          BY <2>9, <4>2, <4>3
        <4>5. LedTo(stack[i].dir, stack[i].todo) \subseteq Deps(stack[i].dir)
          <5> DEFINE f == stack[i]
          <5>1. f \in FrameType /\ Fresh(f, Loaded)
            BY <4>2
          <5> HIDE DEF f
          <5>2. LedTo(f.dir, f.todo) \subseteq Deps(f.dir)
            BY <5>1, LedToDeps
          <5> QED
            BY <5>2 DEF f
        <4> QED
          BY <4>2, <4>4, <4>5 DEF Fresh
      <3>2. ASSUME NEW i \in DOMAIN stack' PROVE \E f : f = stack'[i] /\ Fresh(f, Loaded \cup {e})
        BY <2>10, <2>11, <2>13, <2>14, <3>1, <3>2
      <3> QED
        BY <1>1, <2>16, <3>2, FreshAre DEF source
    <2>18. LoadedOnce'
      <3>1. done' = done /\ imports' = imports
        BY <1>1 DEF source
      <3>2. \A i \in 1 .. n : stack[i].dir \in Loaded
        BY <2>12 DEF Loaded, Open
      <3>3. \A i \in DOMAIN stack' : stack'[i].dir \notin done'
        <4>1. \A i \in 1 .. n : stack[i].dir \notin done
          BY <1>1, <2>12 DEF LoadedOnce
        <4>2. e \notin done
          BY <2>8 DEF Loaded
        <4> QED
          BY <2>14, <2>15, <3>1, <4>1, <4>2
      <3>4. \A i, j \in DOMAIN stack' : stack'[i].dir = stack'[j].dir => i = j
        <4>1. \A i, j \in 1 .. n : stack[i].dir = stack[j].dir => i = j
          BY <1>1, <2>12 DEF LoadedOnce
        <4> QED
          BY <2>8, <2>14, <2>15, <3>2, <4>1
      <3>5. \A x \in Loaded' \ {Root} : \E f \in Loaded' : x \in Deps(f)
        BY <1>1, <2>1, <2>8, <2>16 DEF LoadedOnce, d
      <3> QED
        BY <3>1, <3>3, <3>4, <3>5 DEF LoadedOnce, Deps
    <2>19. TextRead'
      <3>1. text' = text /\ text[e] = <<>>
        BY <1>1, <2>6, <2>8 DEF source, TextRead
      <3>2. Len(text[e]) = 0
        BY <3>1
      <3>3. \A x \in Dirs : x \notin Loaded' => text[x] = <<>>
        BY <1>1, <2>16 DEF TextRead
      <3>4. \A i \in DOMAIN stack' :
              Len(text[stack'[i].dir]) = IF stack'[i].at = 0 THEN 0 ELSE stack'[i].at - 1
        <4>1. \A i \in 1 .. n :
                Len(text[stack[i].dir]) = IF stack[i].at = 0 THEN 0 ELSE stack[i].at - 1
          BY <1>1, <2>12 DEF TextRead
        <4>2. CASE status = "running"
          BY <2>14, <2>15, <3>2, <4>1
        <4> QED
          BY <1>1, <4>2
      <3> QED
        BY <3>1, <3>3, <3>4 DEF TextRead
    <2>20. FuncsDeclared' /\ PairsDiffer'
      BY <1>1 DEF FuncsDeclared, PairsDiffer, Pair, source, compiler
    <2> QED
      BY <2>17, <2>18, <2>19, <2>20 DEF OnceRight
  <1> QED
    BY <1>2, <1>3 DEF Load

\* A declaration that is compiled is a new one: it is the next of its directory.
LEMMA WrittenNew ==
  ASSUME Inv, OnceRight, NEW d \in Decls, Declare(d)
  PROVE  /\ Top.dir \in Dirs /\ Top.dir \in Loaded /\ text[Top.dir] \in Seq(Decl)
         /\ Len(text[Top.dir]) = Top.at - 1 /\ Top.at \in Nat \ {0}
         /\ Legal(d) /\ text' = [text EXCEPT ![Top.dir] = Append(@, d)]
PROOF
  <1>1. /\ status = "running" /\ Top.at > 0 /\ Written(d)
        /\ FramesFresh /\ LoadedOnce /\ TextRead
    BY DEF Declare, Compiling, OnceRight
  <1>2. /\ Top \in FrameType /\ Top.dir \in Dirs /\ Top.dir \in Loaded
        /\ Len(stack) \in DOMAIN stack /\ Top = stack[Len(stack)]
    BY <1>1, TopFresh
  <1>3. Top.at \in Nat \ {0}
    BY <1>1, <1>2 DEF FrameType
  <1>4. Len(text[Top.dir]) = Top.at - 1
    BY <1>1, <1>2, <1>3 DEF TextRead
  <1>5. text[Top.dir] \in Seq(Decl)
    BY <1>2 DEF Inv, IInv, Typed
  <1>6. ~(Top.at <= Len(text[Top.dir]))
    BY <1>3, <1>4
  <1> QED
    BY <1>1, <1>2, <1>3, <1>4, <1>5, <1>6 DEF Written

\* The declarations of the directory, and of the others, after that.
LEMMA TextGrown ==
  ASSUME Inv, OnceRight, NEW d \in Decls, Declare(d)
  PROVE  /\ \A e \in Dirs \ {Top.dir} : text'[e] = text[e]
         /\ Len(text'[Top.dir]) = Top.at
         /\ \A k \in DOMAIN text[Top.dir] :
              k \in DOMAIN text'[Top.dir] /\ text'[Top.dir][k] = text[Top.dir][k]
         /\ Top.at \in DOMAIN text'[Top.dir] /\ text'[Top.dir][Top.at] = d
PROOF
  <1> DEFINE s == text[Top.dir]
             n == Top.at
             S == Decl \cup {d}
  <1>1. /\ Top.dir \in Dirs /\ s \in Seq(S) /\ d \in S /\ Len(s) = n - 1 /\ n \in Nat \ {0}
        /\ text' = [text EXCEPT ![Top.dir] = Append(s, d)]
    BY WrittenNew
  <1>2. text \in [Dirs -> Seq(Decl)]
    BY DEF Inv, IInv, Typed
  <1>3. /\ text'[Top.dir] = Append(s, d)
        /\ \A e \in Dirs \ {Top.dir} : text'[e] = text[e]
    BY <1>1, <1>2
  <1> HIDE DEF s, n, S
  <1>4. /\ Len(Append(s, d)) = n /\ DOMAIN Append(s, d) = 1 .. n /\ DOMAIN s = 1 .. n - 1
        /\ \A k \in 1 .. n - 1 : Append(s, d)[k] = s[k]
        /\ Append(s, d)[n] = d
    BY <1>1
  <1>5. n \in 1 .. n /\ \A k \in 1 .. n - 1 : k \in 1 .. n
    BY <1>1
  <1> QED
    BY <1>3, <1>4, <1>5 DEF s, n

\* Of a declaration of a function there is one definition, that it is not in the package yet.
LEMMA NewPair ==
  ASSUME Inv, Unshared, FramesRight, SitesRight, OnceRight, NEW d \in Decls, Declare(d),
         NEW kind, NEW type, NEW bound, NEW params, Adds(d, kind, type, bound, params),
         kind = "func"
  PROVE  /\ \A n \in DOMAIN defs' : n \notin DOMAIN defs => n = Len(defs) + 1
         /\ \A m, n \in DOMAIN defs' :
              m \in DOMAIN defs /\ n \notin DOMAIN defs /\ defs'[m].kind = "func"
                => Pair(m)' # Pair(n)'
PROOF
  <1>1. /\ d.names \in Seq(Idents) /\ Len(defs) \in Nat /\ current = Top.path
        /\ status = "running"
    BY Declared
  <1>2. d.form = "func" /\ kind = FuncKind(d.names[1])
    <2>1. kind \in Functions /\ kind \notin {"global", "local"}
      BY DEF Functions
    <2>2. BoundRight(d, kind, bound, params)
      BY DEF Adds
    <2> QED
      BY <2>1, <2>2 DEF BoundRight
  <1>3. Len(d.names) = 1
    BY <1>2, Declared
  <1>4. d.names[1] # InitName /\ d.names[1] \in ToSet(d.names)
    <2>1. d.names[1] # InitName
      BY <1>2 DEF FuncKind
    <2>2. 1 \in DOMAIN d.names
      BY <1>1, <1>3
    <2> QED
      BY <2>1, <2>2 DEF ToSet
  <1>5. ASSUME NEW n \in DOMAIN defs', n \notin DOMAIN defs
        PROVE  n = Len(defs) + 1 /\ defs'[n].name = d.names[1] /\ defs'[n].path = current
    <2>1. /\ \E i \in 1 .. Len(d.names) : n = Len(defs) + i /\ defs'[n].name = d.names[i]
          /\ defs'[n].path = current
      BY <1>5, AddedFields
    <2>2. \A i \in 1 .. Len(d.names) : i = 1
      BY <1>3
    <2> QED
      BY <2>1, <2>2
  <1>6. ASSUME NEW m \in DOMAIN defs, defs[m].kind = "func", defs[m].path = current
        PROVE  defs[m].name # d.names[1]
    <2>1. Site(defs[m].dir, current)
      BY <1>6 DEF SitesRight
    <2>2. Site(Top.dir, current)
      BY <1>1, TopRight DEF FrameRight
    <2>3. defs[m].dir = Top.dir
      BY <2>1, <2>2, OneSite
    <2>4. PICK k \in DOMAIN text[Top.dir] : defs[m].name \in ToSet(text[Top.dir][k].names)
      BY <1>6, <2>3 DEF OnceRight, FuncsDeclared
    <2>5. ToSet(d.names) \cap UNION {ToSet(text[Top.dir][i].names) : i \in DOMAIN text[Top.dir]}
            \subseteq {InitName}
      BY WrittenNew DEF Legal
    <2> QED
      BY <1>4, <2>4, <2>5
  <1>7. ASSUME NEW m \in DOMAIN defs', NEW n \in DOMAIN defs', m \in DOMAIN defs,
               n \notin DOMAIN defs, defs'[m].kind = "func"
        PROVE  <<defs'[m].path, defs'[m].name>> # <<defs'[n].path, defs'[n].name>>
    <2>1. defs'[m] = defs[m]
      BY <1>7, Longer
    <2> QED
      BY <1>5, <1>6, <1>7, <2>1
  <1> QED
    BY <1>5, <1>7 DEF Pair

LEMMA DeclareOnce ==
  ASSUME Inv, Unshared, FramesRight, SitesRight, OnceRight, NEW d \in Decls, Declare(d)
  PROVE  OnceRight'
PROOF
  <1> DEFINE f == [Top EXCEPT !.at = @ + 1]
  <1>1. /\ status = "running" /\ stack' = Replaced(f) /\ imports' = imports /\ done' = done
        /\ FramesFresh /\ LoadedOnce /\ TextRead /\ FuncsDeclared /\ PairsDiffer
    BY DEF Declare, Compiling, OnceRight
  <1>2. /\ Fresh(Top, Loaded) /\ Top \in FrameType /\ Top.dir \in Dirs /\ Top.dir \in Loaded
        /\ Len(stack) \in DOMAIN stack /\ Top = stack[Len(stack)]
    BY <1>1, TopFresh
  <1>3. /\ f \in FrameType /\ f.dir = Top.dir /\ f.at = Top.at + 1
        /\ f.todo = Top.todo /\ f.calls = Top.calls
    BY <1>2 DEF FrameType
  <1> HIDE DEF f
  <1>4. Fresh(f, Loaded)
    BY <1>2, <1>3 DEF Fresh
  <1>5. /\ DOMAIN stack' = DOMAIN stack /\ stack'[Len(stack)] = f
        /\ \A i \in DOMAIN stack : /\ stack'[i].dir = stack[i].dir
                                   /\ i # Len(stack) => stack'[i] = stack[i]
        /\ Loaded' = Loaded /\ FramesFresh' /\ LoadedOnce'
    BY <1>1, <1>3, <1>4, OnceReplaced
  <1>6. /\ \A e \in Dirs \ {Top.dir} : text'[e] = text[e]
        /\ Len(text'[Top.dir]) = Top.at
        /\ \A k \in DOMAIN text[Top.dir] :
             k \in DOMAIN text'[Top.dir] /\ text'[Top.dir][k] = text[Top.dir][k]
        /\ Top.at \in DOMAIN text'[Top.dir] /\ text'[Top.dir][Top.at] = d
    BY TextGrown
  <1>7. Top.at \in Nat \ {0}
    BY WrittenNew
  <1>8. stack \in Seq(FrameType)
    BY DEF Inv, IInv, Typed
  <1>9. TextRead'
    <2>1. ASSUME NEW i \in DOMAIN stack
          PROVE  Len(text'[stack'[i].dir]) = IF stack'[i].at = 0 THEN 0 ELSE stack'[i].at - 1
      <3>1. CASE i = Len(stack)
        <4>1. Len(text'[f.dir]) = f.at - 1 /\ f.at # 0
          BY <1>3, <1>6, <1>7
        <4> QED
          BY <1>5, <3>1, <4>1
      <3>2. CASE i # Len(stack)
        <4>1. stack[i].dir # Top.dir
          BY <1>1, <1>2, <3>2 DEF LoadedOnce
        <4>2. stack[i] \in FrameType
          BY <1>8
        <4>3. stack[i].dir \in Dirs
          BY <4>2 DEF FrameType
        <4>4. text'[stack[i].dir] = text[stack[i].dir]
          BY <1>6, <4>1, <4>3
        <4>5. Len(text[stack[i].dir]) = IF stack[i].at = 0 THEN 0 ELSE stack[i].at - 1
          BY <1>1 DEF TextRead
        <4> QED
          BY <1>5, <3>2, <4>4, <4>5
      <3> QED
        BY <3>1, <3>2
    <2>2. \A e \in Dirs : e \notin Loaded => text'[e] = <<>>
      BY <1>1, <1>2, <1>6 DEF TextRead
    <2> QED
      BY <1>5, <2>1, <2>2 DEF TextRead
  <1>10. ASSUME NEW m \in DOMAIN defs, defs[m].kind = "func"
         PROVE  \E k \in DOMAIN text'[defs[m].dir] :
                  defs[m].name \in ToSet(text'[defs[m].dir][k].names)
    <2>1. PICK k \in DOMAIN text[defs[m].dir] : defs[m].name \in ToSet(text[defs[m].dir][k].names)
      BY <1>1, <1>10 DEF FuncsDeclared
    <2>2. CASE defs[m].dir = Top.dir
      BY <1>6, <2>1, <2>2
    <2>3. CASE defs[m].dir # Top.dir
      <3>1. defs[m].dir \in Dirs
        <4> DEFINE D == DefTypes(Len(defs))
        <4>1. defs \in Seq(D)
          BY DEF Inv, TypesRight
        <4>2. \A x \in D : x.dir \in Dirs
          BY DEF DefTypes
        <4> HIDE DEF D
        <4> QED
          BY <4>1, <4>2
      <3> QED
        BY <1>6, <2>1, <2>3, <3>1
    <2> QED
      BY <2>2, <2>3
  <1>11. CASE defs' = defs
    <2>1. FuncsDeclared'
      BY <1>10, <1>11 DEF FuncsDeclared
    <2>2. PairsDiffer'
      BY <1>1, <1>11 DEF PairsDiffer, Pair
    <2> QED
      BY <1>5, <1>9, <2>1, <2>2 DEF OnceRight
  <1>12. ASSUME NEW kind, NEW type, NEW bound, NEW params, Adds(d, kind, type, bound, params)
         PROVE  OnceRight'
    <2>1. \A m \in DOMAIN defs : defs'[m] = defs[m]
      BY <1>12, Longer
    <2>2. ASSUME NEW n \in DOMAIN defs', n \notin DOMAIN defs
          PROVE  /\ defs'[n].kind = kind /\ defs'[n].dir = Top.dir
                 /\ defs'[n].name \in ToSet(d.names)
      <3>1. /\ \E i \in 1 .. Len(d.names) : n = Len(defs) + i /\ defs'[n].name = d.names[i]
            /\ defs'[n].kind = kind /\ defs'[n].dir = Top.dir
        BY <1>12, <2>2, AddedFields
      <3>2. DOMAIN d.names = 1 .. Len(d.names)
        BY Declared
      <3> QED
        BY <3>1, <3>2 DEF ToSet
    <2>3. FuncsDeclared'
      <3> SUFFICES ASSUME NEW n \in DOMAIN defs', defs'[n].kind = "func"
                   PROVE  \E k \in DOMAIN text'[defs'[n].dir] :
                            defs'[n].name \in ToSet(text'[defs'[n].dir][k].names)
        BY DEF FuncsDeclared
      <3>1. CASE n \in DOMAIN defs
        BY <1>10, <2>1, <3>1
      <3>2. CASE n \notin DOMAIN defs
        BY <1>6, <2>2, <3>2
      <3> QED
        BY <3>1, <3>2
    <2>4. PairsDiffer'
      <3> SUFFICES ASSUME NEW m \in DOMAIN defs', NEW n \in DOMAIN defs',
                          defs'[m].kind = "func", defs'[n].kind = "func",
                          Pair(m)' = Pair(n)'
                   PROVE  m = n
        BY DEF PairsDiffer
      <3>1. CASE m \in DOMAIN defs /\ n \in DOMAIN defs
        <4>1. Pair(m) = Pair(n) /\ defs[m].kind = "func" /\ defs[n].kind = "func"
          BY <2>1, <3>1 DEF Pair
        <4> QED
          BY <1>1, <3>1, <4>1 DEF PairsDiffer
      <3>2. CASE m \notin DOMAIN defs \/ n \notin DOMAIN defs
        <4>1. kind = "func"
          BY <2>2, <3>2
        <4>2. /\ \A k \in DOMAIN defs' : k \notin DOMAIN defs => k = Len(defs) + 1
              /\ \A j, k \in DOMAIN defs' :
                   j \in DOMAIN defs /\ k \notin DOMAIN defs /\ defs'[j].kind = "func"
                     => Pair(j)' # Pair(k)'
          BY <1>12, <4>1, NewPair
        <4> QED
          BY <3>2, <4>2
      <3> QED
        BY <3>1, <3>2
    <2> QED
      BY <1>5, <1>9, <2>3, <2>4 DEF OnceRight
  <1> QED
    BY <1>11, <1>12, DeclareAdds DEF compiler

LEMMA OnceInit == Init /\ Unshared => OnceRight
PROOF
  <1> SUFFICES ASSUME Init, Unshared PROVE OnceRight
    OBVIOUS
  <1> DEFINE fr == Frame(Root, Main)
             externals == SetToSeq(ExternalVars)
  <1>1. /\ text = [d \in Dirs |-> <<>>] /\ stack = <<fr>> /\ done = {}
        /\ defs = [i \in DOMAIN externals |-> Extern(externals[i])]
        /\ Root \in Dirs /\ imports[Root] \in Seq(Paths) /\ Inv
    BY PackagesAssumption, InvHolds, LedBy DEF Init
  <1>2. fr.dir = Root /\ fr.todo = imports[Root] /\ fr.calls = <<>> /\ fr.at = 0
    BY DEF Frame
  <1> HIDE DEF fr, externals
  <1>3. DOMAIN stack = {1} /\ stack[1] = fr
    BY <1>1
  <1>4. Loaded = {Root}
    BY <1>1, <1>2, <1>3 DEF Loaded, Open
  <1>5. Fresh(fr, Loaded)
    <2>1. LedTo(Root, imports[Root]) \cap Loaded = {}
      BY <1>1, <1>4, OneImporter DEF Deps
    <2>2. /\ Len(imports[Root]) <= Len(imports[Root])
          /\ \A j \in 1 .. Len(imports[Root]) : j = Len(imports[Root]) - Len(imports[Root]) + j
      <3> DEFINE l == Len(imports[Root])
      <3>1. l \in Nat
        BY <1>1
      <3> HIDE DEF l
      <3>2. l <= l /\ \A j \in 1 .. l : j = l - l + j
        BY <3>1
      <3> QED
        BY <3>2 DEF l
    <2>3. DOMAIN <<>> = {} /\ DOMAIN imports[Root] = 1 .. Len(imports[Root])
      BY <1>1
    <2> QED
      BY <1>2, <2>1, <2>2, <2>3 DEF Fresh
  <1>6. FramesFresh
    BY <1>3, <1>5 DEF FramesFresh
  <1>7. LoadedOnce
    BY <1>1, <1>3, <1>4 DEF LoadedOnce
  <1>8. TextRead
    <2>1. text[Root] = <<>> /\ Len(<<>>) = 0
      BY <1>1
    <2> QED
      BY <1>1, <1>2, <1>3, <2>1 DEF TextRead
  <1>9. \A n \in DOMAIN defs : defs[n].kind # "func"
    BY <1>1 DEF Extern
  <1>10. FuncsDeclared /\ PairsDiffer
    BY <1>9 DEF FuncsDeclared, PairsDiffer
  <1> QED
    BY <1>6, <1>7, <1>8, <1>10 DEF OnceRight

\* While no package is imported from two places, no function is compiled twice, and two
\* have the same symbol only when their packages and names differ and join alike, for any
\* other imports and any declarations (func.go:97-101, 132).
THEOREM SymbolsDiffer == Spec => []OneSymbolEach
PROOF
  <1> DEFINE Once == Unshared => OnceRight
             Now  == Inv /\ FramesRight /\ SitesRight /\ Once
  <1>1. Init => Now
    BY InvHolds, NamesInit, OnceInit DEF NamesRight
  <1>2. Now /\ [Next]_vars => Now'
    <2> SUFFICES ASSUME Now, [Next]_vars PROVE Now'
      OBVIOUS
    <2>1. Inv' /\ FramesRight' /\ SitesRight'
      BY InvKeeps, FramesStay, SitesStay
    <2>2. imports' = imports
      BY ImportsStay
    <2>3. Unshared' = Unshared
      BY <2>2 DEF Unshared, Targets
    <2>4. ASSUME Unshared PROVE OnceRight'
      <3>1. OnceRight
        BY <2>4
      <3>2. CASE UNCHANGED vars
        BY <3>1, <3>2, OnceKept DEF vars, source, compiler
      <3>3. CASE Assemble
        BY <3>1, <3>3, OnceKept DEF Assemble, source, compiler
      <3> QED
        BY <2>4, <3>1, <3>2, <3>3, ImportOnce, LoadOnce, StartOnce, EndOnce, DeclareOnce DEF Next
    <2> QED
      BY <2>1, <2>3, <2>4
  <1>3. Now => OneSymbolEach
    <2> SUFFICES ASSUME Now, Unshared, NEW m \in ModuleFuncs, NEW n \in ModuleFuncs,
                        Symbol(m) = Symbol(n), m # n
                 PROVE  Ambiguous(m, n)
      BY DEF OneSymbolEach
    <2>1. Pair(m) # Pair(n)
      BY DEF OnceRight, PairsDiffer, ModuleFuncs
    <2> QED
      BY <2>1 DEF Pair, Ambiguous, Symbol
  <1> QED
    BY <1>1, <1>2, <1>3, PTL DEF Spec

=============================================================================
