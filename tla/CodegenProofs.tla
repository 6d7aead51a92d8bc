--------------------------- MODULE CodegenProofs ---------------------------
(***************************************************************************)
(* Theorems about Codegen, for programs of any length and nesting, inside  *)
(* and outside the supported subset.                                       *)
(***************************************************************************)
EXTENDS Codegen, SequenceTheorems, WellFoundedInduction, TLAPS

-----------------------------------------------------------------------------
(* Sequences                                                                 *)

\* The number before a positive one.
LEMMA Before ==
  ASSUME NEW n \in Nat \ {0}
  PROVE  n - 1 \in 0 .. n - 1 /\ (n - 1) + 1 = n /\ n - 1 # n
OBVIOUS

\* Front and Last of a non-empty sequence.
LEMMA FrontType ==
  ASSUME NEW S, NEW s \in Seq(S), s # << >>
  PROVE  /\ Front(s) \in Seq(S)
         /\ Len(Front(s)) = Len(s) - 1
         /\ \A i \in 1 .. Len(s) - 1 : Front(s)[i] = s[i]
         /\ Last(s) \in S
         /\ Last(s) = s[Len(s)]
         /\ Len(s) \in Nat \ {0}
<1>1. Len(s) \in Nat \ {0}
  BY EmptySeq
<1>2. \A i \in 1 .. Len(s) - 1 : s[i] \in S
  BY <1>1, ElementOfSeq
<1>3. /\ SubSeq(s, 1, Len(s) - 1) \in Seq(S)
      /\ Len(SubSeq(s, 1, Len(s) - 1)) = IF 1 <= Len(s) - 1 THEN Len(s) - 1 - 1 + 1 ELSE 0
      /\ \A i \in 1 .. Len(s) - 1 - 1 + 1 : SubSeq(s, 1, Len(s) - 1)[i] = s[1 + i - 1]
  BY <1>1, <1>2, SubSeqProperties
<1>4. Len(Front(s)) = Len(s) - 1
  <2>1. \A n \in Nat \ {0} : (IF 1 <= n - 1 THEN n - 1 - 1 + 1 ELSE 0) = n - 1
    OBVIOUS
  <2>2. Len(Front(s)) = IF 1 <= Len(s) - 1 THEN Len(s) - 1 - 1 + 1 ELSE 0
    BY <1>3, Zenon DEF Front
  <2> QED
    BY <1>1, <2>1, <2>2
<1>5. \A i \in 1 .. Len(s) - 1 : Front(s)[i] = s[i]
  <2> TAKE i \in 1 .. Len(s) - 1
  <2>1. Len(s) - 1 - 1 + 1 = Len(s) - 1 /\ 1 + i - 1 = i
    BY <1>1
  <2> QED
    BY <1>3, <2>1 DEF Front
<1>6. Last(s) = s[Len(s)] /\ s[Len(s)] \in S
  BY <1>1, ElementOfSeq DEF Last
<1> QED
  BY <1>1, <1>3, <1>4, <1>5, <1>6 DEF Front

\* Front of any sequence.
LEMMA FrontSeq ==
  ASSUME NEW S, NEW s \in Seq(S)
  PROVE  Front(s) \in Seq(S)
<1>1. CASE s = << >>
  BY <1>1, SubSeqEmpty, EmptySeq DEF Front
<1>2. CASE s # << >>
  BY <1>2, FrontType
<1> QED
  BY <1>1, <1>2

\* Append, in the form the steps below use.
LEMMA AppendType ==
  ASSUME NEW S, NEW s \in Seq(S), NEW e \in S
  PROVE  /\ Append(s, e) \in Seq(S)
         /\ Len(Append(s, e)) = Len(s) + 1
         /\ \A i \in 1 .. Len(s) : Append(s, e)[i] = s[i]
         /\ Append(s, e)[Len(s) + 1] = e
         /\ Last(Append(s, e)) = e
         /\ Append(s, e) # << >>
BY AppendProperties DEF Last

-----------------------------------------------------------------------------
(* Blocks                                                                    *)

\* The terminators of llir that the compiler makes.
LEMMA TermTypes ==
  /\ NoTerm \in Term /\ Unreachable \in Term /\ RetVoid \in Term /\ RetVal \in Term
  /\ \A b \in Block : Br(b) \in Term
  /\ \A t, f \in Block : CondBr(t, f) \in Term
  /\ \A bs \in Seq(Block) : Switch(bs) \in Term
BY DEF Term, TermKinds, NoTerm, Unreachable, RetVoid, RetVal, Br, CondBr, Switch

\* A block built by NewBlock or BlockOf is a basic block.
LEMMA BlockTypes ==
  ASSUME NEW f \in Nat \ {0}, NEW c \in Seq(Item), NEW t \in Term
  PROVE  BlockOf(f, c, t) \in BasicBlock /\ NewBlock(f) \in BasicBlock
BY TermTypes DEF BasicBlock, BlockOf, NewBlock

\* cs is bs after instructions, terminators and blocks were added to it.
Grows(bs, cs) ==
  /\ cs \in Seq(BasicBlock)
  /\ Len(bs) <= Len(cs)
  /\ \A b \in 1 .. Len(bs) : cs[b].fn = bs[b].fn

\* Grows (no block disappears or changes its function) is a preorder: transitive.
LEMMA GrowsTrans ==
  ASSUME NEW bs \in Seq(BasicBlock), NEW cs, NEW ds, Grows(bs, cs), Grows(cs, ds)
  PROVE  Grows(bs, ds)
<1>1. Len(bs) \in Nat /\ Len(cs) \in Nat /\ Len(ds) \in Nat
  BY LenProperties DEF Grows
<1> QED
  BY <1>1 DEF Grows

\* Grows is a preorder: reflexive.
LEMMA GrowsRefl ==
  ASSUME NEW bs \in Seq(BasicBlock)
  PROVE  Grows(bs, bs)
BY LenProperties DEF Grows

\* An instruction is added to a block of the function it is in.
LEMMA EmitGrows ==
  ASSUME NEW bs \in Seq(BasicBlock), NEW b \in 1 .. Len(bs), NEW item \in Item
  PROVE  /\ Grows(bs, Emit(bs, b, item))
         /\ Len(Emit(bs, b, item)) = Len(bs)
<1> DEFINE e == [bs[b] EXCEPT !.code = Append(@, item)]
<1>1. bs[b] \in BasicBlock /\ Len(bs) \in Nat
  BY ElementOfSeq, LenProperties
<1>2. e \in BasicBlock /\ e.fn = bs[b].fn
  BY <1>1, AppendProperties DEF BasicBlock
<1>3. Emit(bs, b, item) = [bs EXCEPT ![b] = e]
  BY DEF Emit
<1> HIDE DEF e
<1> QED
  BY <1>1, <1>2, <1>3, ExceptSeq DEF Grows

\* Setting a terminator moves no block to another function.
LEMMA TerminateGrows ==
  ASSUME NEW bs \in Seq(BasicBlock), NEW b \in 1 .. Len(bs), NEW t \in Term
  PROVE  /\ Grows(bs, Terminate(bs, b, t))
         /\ Len(Terminate(bs, b, t)) = Len(bs)
<1> DEFINE e == [bs[b] EXCEPT !.term = t]
<1>1. bs[b] \in BasicBlock /\ Len(bs) \in Nat
  BY ElementOfSeq, LenProperties
<1>2. e \in BasicBlock /\ e.fn = bs[b].fn
  BY <1>1 DEF BasicBlock
<1>3. Terminate(bs, b, t) = [bs EXCEPT ![b] = e]
  BY DEF Terminate
<1> HIDE DEF e
<1> QED
  BY <1>1, <1>2, <1>3, ExceptSeq DEF Grows

\* New blocks leave the earlier ones alone.
LEMMA ConcatGrows ==
  ASSUME NEW bs \in Seq(BasicBlock), NEW made \in Seq(BasicBlock)
  PROVE  /\ Grows(bs, bs \o made)
         /\ Len(bs \o made) = Len(bs) + Len(made)
         /\ \A i \in 1 .. Len(made) : (bs \o made)[Len(bs) + i] = made[i]
<1>1. Len(bs) \in Nat /\ Len(made) \in Nat
  BY LenProperties
<1>2. /\ bs \o made \in Seq(BasicBlock)
      /\ Len(bs \o made) = Len(bs) + Len(made)
      /\ \A i \in 1 .. Len(bs) + Len(made) :
           (bs \o made)[i] = IF i <= Len(bs) THEN bs[i] ELSE made[i - Len(bs)]
  BY ConcatProperties
<1> QED
  BY <1>1, <1>2 DEF Grows

-----------------------------------------------------------------------------
(* Ownership: which function the blocks a call holds on to belong to         *)

\* The function that is compiled while f is the innermost call.
OwnerOf(f, bs) == CASE f.kind = "func"   -> f.fn
                    [] f.kind = "append" -> bs[f.add].fn
                    [] OTHER             -> bs[f.after].fn

OwnerAt(i, fs, bs) == IF i = 0 THEN 0 ELSE OwnerOf(fs[i], bs)

\* Block b exists and belongs to function f.
In(b, f, bs) == b \in 1 .. Len(bs) /\ bs[b].fn = f

\* What call f, made while function `outer' was compiled, holds on to; 0 is the
\* package level, m the number of functions.
FrameOwned(f, outer, bs, m) ==
  /\ f.kind = "func"   => /\ f.fn \in 1 .. m
                          /\ f.prevFunc = outer
                          /\ outer = 0 => f.prevBlock = 0
                          /\ outer # 0 => In(f.prevBlock, outer, bs)
  /\ f.kind = "if"     => outer # 0 /\ In(f.tru, outer, bs) /\ In(f.fls, outer, bs)
                            /\ In(f.after, outer, bs)
  /\ f.kind = "for"    => outer # 0 /\ In(f.cond, outer, bs) /\ In(f.post, outer, bs)
                            /\ In(f.after, outer, bs)
  /\ f.kind = "switch" => outer # 0 /\ In(f.pre, outer, bs) /\ In(f.dflt, outer, bs)
                            /\ In(f.after, outer, bs)
  /\ f.kind = "append" => outer # 0 /\ In(f.add, outer, bs)

Owned(fs, bs, m, cf, cb) ==
  /\ \A i \in 1 .. Len(fs) : FrameOwned(fs[i], OwnerAt(i - 1, fs, bs), bs, m)
  /\ cf = OwnerAt(Len(fs), fs, bs)
  /\ cf = 0 => cb = 0
  /\ cf # 0 => In(cb, cf, bs)

\* A frame is of the record type its kind names.
LEMMA FrameKinds ==
  ASSUME NEW f \in Frame
  PROVE  /\ f.kind \in {"if", "for", "switch", "append", "func"}
         /\ f.kind = "if"     => f \in IfFrame
         /\ f.kind = "for"    => f \in ForFrame
         /\ f.kind = "switch" => f \in SwitchFrame
         /\ f.kind = "append" => f \in AppendFrame
         /\ f.kind = "func"   => f \in FuncFrame
BY DEF Frame, IfFrame, ForFrame, SwitchFrame, AppendFrame, FuncFrame

\* A block stays in its function.
LEMMA InGrows ==
  ASSUME NEW bs \in Seq(BasicBlock), NEW cs, Grows(bs, cs), NEW b, NEW f, In(b, f, bs)
  PROVE  In(b, f, cs)
<1>1. Len(bs) \in Nat /\ Len(cs) \in Nat
  BY LenProperties DEF Grows
<1> QED
  BY <1>1 DEF In, Grows

\* cs is bs with n more blocks, all of function f.
Added(bs, cs, n, f) ==
  /\ Grows(bs, cs)
  /\ Len(cs) = Len(bs) + n
  /\ \A i \in 1 .. n : In(Len(bs) + i, f, cs)

\* made are n blocks of function f.
AllOf(made, n, f) ==
  /\ made \in Seq(BasicBlock)
  /\ Len(made) = n
  /\ \A i \in 1 .. n : made[i].fn = f

\* Added(bs, cs, n, f): cs is bs with n blocks of function f more; none to start with.
LEMMA AddedNone ==
  ASSUME NEW bs \in Seq(BasicBlock), NEW f
  PROVE  Added(bs, bs, 0, f)
BY GrowsRefl, LenProperties DEF Added

\* An instruction adds no block.
LEMMA AddedEmit ==
  ASSUME NEW bs \in Seq(BasicBlock), NEW cs, NEW n \in Nat, NEW f, Added(bs, cs, n, f),
         NEW b \in 1 .. Len(bs) + n, NEW item \in Item
  PROVE  Added(bs, Emit(cs, b, item), n, f)
<1>1. cs \in Seq(BasicBlock) /\ b \in 1 .. Len(cs)
  BY DEF Added, Grows
<1>2. Grows(cs, Emit(cs, b, item)) /\ Len(Emit(cs, b, item)) = Len(cs)
  BY <1>1, EmitGrows
<1>3. \A i \in 1 .. n : In(Len(bs) + i, f, Emit(cs, b, item))
  BY <1>1, <1>2, InGrows DEF Added
<1> QED
  BY <1>2, <1>3, GrowsTrans DEF Added

\* A terminator adds no block.
LEMMA AddedTerminate ==
  ASSUME NEW bs \in Seq(BasicBlock), NEW cs, NEW n \in Nat, NEW f, Added(bs, cs, n, f),
         NEW b \in 1 .. Len(bs) + n, NEW t \in Term
  PROVE  Added(bs, Terminate(cs, b, t), n, f)
<1>1. cs \in Seq(BasicBlock) /\ b \in 1 .. Len(cs)
  BY DEF Added, Grows
<1>2. Grows(cs, Terminate(cs, b, t)) /\ Len(Terminate(cs, b, t)) = Len(cs)
  BY <1>1, TerminateGrows
<1>3. \A i \in 1 .. n : In(Len(bs) + i, f, Terminate(cs, b, t))
  BY <1>1, <1>2, InGrows DEF Added
<1> QED
  BY <1>2, <1>3, GrowsTrans DEF Added

\* Blocks added in two steps.
LEMMA AddedTrans ==
  ASSUME NEW bs \in Seq(BasicBlock), NEW cs, NEW ds, NEW n \in Nat, NEW m \in Nat, NEW f,
         Added(bs, cs, n, f), Added(cs, ds, m, f)
  PROVE  Added(bs, ds, n + m, f)
<1>1. /\ cs \in Seq(BasicBlock) /\ Len(bs) \in Nat
      /\ Len(cs) = Len(bs) + n /\ Len(ds) = Len(cs) + m
  BY LenProperties DEF Added, Grows
<1>2. Grows(bs, ds)
  BY GrowsTrans DEF Added
<1>3. \A i \in 1 .. n : In(Len(bs) + i, f, ds)
  BY <1>1, InGrows DEF Added
<1>4. \A i \in 1 .. m : In(Len(bs) + (n + i), f, ds)
  <2> TAKE i \in 1 .. m
  <2>1. Len(cs) + i = Len(bs) + (n + i)
    BY <1>1
  <2> QED
    BY <2>1 DEF Added
<1>5. \A i \in 1 .. n + m : In(Len(bs) + i, f, ds)
  <2> TAKE i \in 1 .. n + m
  <2>1. CASE i \in 1 .. n
    BY <2>1, <1>3
  <2>2. CASE i \notin 1 .. n
    <3>1. i - n \in 1 .. m /\ n + (i - n) = i
      BY <2>2
    <3> QED
      BY <3>1, <1>4
  <2> QED
    BY <2>1, <2>2
<1>6. Len(ds) = Len(bs) + (n + m)
  BY <1>1
<1> QED
  BY <1>2, <1>5, <1>6 DEF Added

\* Blocks added at the end.
LEMMA AddedConcat ==
  ASSUME NEW bs \in Seq(BasicBlock), NEW cs, NEW n \in Nat, NEW m \in Nat, NEW f, NEW made,
         Added(bs, cs, n, f), AllOf(made, m, f)
  PROVE  Added(bs, cs \o made, n + m, f)
<1>1. cs \in Seq(BasicBlock) /\ Len(cs) \in Nat /\ made \in Seq(BasicBlock) /\ Len(made) = m
  BY LenProperties DEF Added, Grows, AllOf
<1>2. /\ Grows(cs, cs \o made)
      /\ Len(cs \o made) = Len(cs) + m
      /\ \A i \in 1 .. m : (cs \o made)[Len(cs) + i] = made[i]
  BY <1>1, ConcatGrows
<1>3. \A i \in 1 .. m : In(Len(cs) + i, f, cs \o made)
  <2> TAKE i \in 1 .. m
  <2>1. Len(cs) + i \in 1 .. Len(cs) + m
    BY <1>1
  <2> QED
    BY <2>1, <1>2 DEF In, AllOf
<1>4. Added(cs, cs \o made, m, f)
  BY <1>2, <1>3 DEF Added
<1> QED
  BY <1>4, AddedTrans

\* The function an open call compiles does not change while blocks are added.
LEMMA OwnerGrows ==
  ASSUME NEW bs \in Seq(BasicBlock), NEW cs, Grows(bs, cs), NEW f \in Frame,
         NEW outer, NEW m, FrameOwned(f, outer, bs, m)
  PROVE  /\ OwnerOf(f, cs) = OwnerOf(f, bs)
         /\ OwnerOf(f, bs) = IF f.kind = "func" THEN f.fn ELSE outer
BY FrameKinds DEF OwnerOf, FrameOwned, Grows, In

\* An open call keeps its blocks while blocks and functions are added.
LEMMA FrameOwnedGrows ==
  ASSUME NEW bs \in Seq(BasicBlock), NEW cs, Grows(bs, cs), NEW f \in Frame,
         NEW outer, NEW m \in Nat, NEW n \in Nat, m <= n, FrameOwned(f, outer, bs, m)
  PROVE  FrameOwned(f, outer, cs, n)
BY InGrows DEF FrameOwned

\* The open calls are not disturbed by new blocks, instructions and functions.
LEMMA OwnedGrows ==
  ASSUME NEW fs \in Seq(Frame), NEW bs \in Seq(BasicBlock), NEW cs, Grows(bs, cs),
         NEW m \in Nat, NEW n \in Nat, m <= n, NEW cf, NEW cb, NEW b,
         Owned(fs, bs, m, cf, cb),
         cf = 0 => b = 0,
         cf # 0 => In(b, cf, cs)
  PROVE  Owned(fs, cs, n, cf, b)
<1>1. Len(fs) \in Nat /\ \A i \in 1 .. Len(fs) : fs[i] \in Frame
  BY LenProperties, ElementOfSeq
<1>2. \A i \in 0 .. Len(fs) : OwnerAt(i, fs, cs) = OwnerAt(i, fs, bs)
  <2> SUFFICES ASSUME NEW i \in 1 .. Len(fs)
               PROVE  OwnerOf(fs[i], cs) = OwnerOf(fs[i], bs)
    BY <1>1 DEF OwnerAt
  <2> QED
    BY <1>1, OwnerGrows DEF Owned
<1>3. \A i \in 1 .. Len(fs) : i - 1 \in 0 .. Len(fs)
  BY <1>1
<1>4. \A i \in 1 .. Len(fs) : FrameOwned(fs[i], OwnerAt(i - 1, fs, bs), cs, n)
  BY <1>1, FrameOwnedGrows DEF Owned
<1> QED
  BY <1>1, <1>2, <1>3, <1>4 DEF Owned

\* A call made now.
LEMMA OwnedPush ==
  ASSUME NEW fs \in Seq(Frame), NEW bs \in Seq(BasicBlock), NEW m, NEW cf, NEW cb,
         Owned(fs, bs, m, cf, cb),
         NEW f \in Frame, FrameOwned(f, cf, bs, m),
         NEW b, In(b, OwnerOf(f, bs), bs), OwnerOf(f, bs) # 0
  PROVE  Owned(Append(fs, f), bs, m, OwnerOf(f, bs), b)
<1> DEFINE gs == Append(fs, f)
<1>1. /\ Len(fs) \in Nat
      /\ Len(gs) = Len(fs) + 1
      /\ \A i \in 1 .. Len(fs) : gs[i] = fs[i]
      /\ gs[Len(fs) + 1] = f
  BY LenProperties, AppendProperties
<1> HIDE DEF gs
<1>2. \A i \in 0 .. Len(fs) : OwnerAt(i, gs, bs) = OwnerAt(i, fs, bs)
  BY <1>1 DEF OwnerAt
<1>3. OwnerAt(Len(gs), gs, bs) = OwnerOf(f, bs)
  BY <1>1 DEF OwnerAt
<1>4. ASSUME NEW i \in 1 .. Len(gs)
      PROVE  FrameOwned(gs[i], OwnerAt(i - 1, gs, bs), bs, m)
  <2>1. CASE i \in 1 .. Len(fs)
    <3>1. i - 1 \in 0 .. Len(fs)
      BY <2>1, <1>1
    <3> QED
      BY <2>1, <3>1, <1>1, <1>2 DEF Owned
  <2>2. CASE i = Len(fs) + 1
    <3>1. i - 1 = Len(fs) /\ Len(fs) \in 0 .. Len(fs)
      BY <2>2, <1>1
    <3>2. OwnerAt(i - 1, gs, bs) = cf
      BY <3>1, <1>2 DEF Owned
    <3> QED
      BY <3>2, <2>2, <1>1
  <2> QED
    BY <2>1, <2>2, <1>1
<1> QED
  BY <1>3, <1>4 DEF Owned, gs

\* The innermost call returns.
LEMMA OwnedPop ==
  ASSUME NEW fs \in Seq(Frame), fs # << >>, NEW bs \in Seq(BasicBlock), NEW m,
         NEW cf, NEW cb, Owned(fs, bs, m, cf, cb),
         NEW outer, outer = OwnerAt(Len(fs) - 1, fs, bs),
         NEW b, outer = 0 => b = 0, outer # 0 => In(b, outer, bs)
  PROVE  Owned(Front(fs), bs, m, outer, b)
<1>1. /\ Len(fs) \in Nat \ {0}
      /\ Len(Front(fs)) = Len(fs) - 1
      /\ \A i \in 1 .. Len(fs) - 1 : Front(fs)[i] = fs[i]
  BY FrontType, Zenon
<1>2. \A i \in 0 .. Len(fs) - 1 : OwnerAt(i, Front(fs), bs) = OwnerAt(i, fs, bs)
  BY <1>1 DEF OwnerAt
<1>3. ASSUME NEW i \in 1 .. Len(fs) - 1
      PROVE  FrameOwned(Front(fs)[i], OwnerAt(i - 1, Front(fs), bs), bs, m)
  <2>1. i - 1 \in 0 .. Len(fs) - 1 /\ i \in 1 .. Len(fs)
    BY <1>1
  <2> QED
    BY <2>1, <1>1, <1>2 DEF Owned
<1>4. Len(fs) - 1 \in 0 .. Len(fs) - 1
  BY ONLY <1>1, Before, Zenon
<1> QED
  BY <1>1, <1>2, <1>3, <1>4 DEF Owned

\* The innermost call goes on with other local variables.
LEMMA OwnedTop ==
  ASSUME NEW fs \in Seq(Frame), fs # << >>, NEW bs \in Seq(BasicBlock), NEW m,
         NEW cf, NEW cb, Owned(fs, bs, m, cf, cb),
         NEW g \in Frame, FrameOwned(g, OwnerAt(Len(fs) - 1, fs, bs), bs, m),
         OwnerOf(g, bs) = OwnerOf(fs[Len(fs)], bs),
         NEW b, In(b, OwnerOf(g, bs), bs), OwnerOf(g, bs) # 0
  PROVE  Owned([fs EXCEPT ![Len(fs)] = g], bs, m, cf, b)
<1> DEFINE gs == [fs EXCEPT ![Len(fs)] = g]
<1>1. Len(fs) \in Nat \ {0} /\ Len(fs) \in 1 .. Len(fs)
  BY EmptySeq
<1>2. /\ Len(gs) = Len(fs)
      /\ \A i \in 1 .. Len(fs) : gs[i] = IF i = Len(fs) THEN g ELSE fs[i]
  BY <1>1, ExceptSeq
<1> HIDE DEF gs
<1>3. \A i \in 0 .. Len(fs) : OwnerAt(i, gs, bs) = OwnerAt(i, fs, bs)
  BY <1>1, <1>2 DEF OwnerAt
<1>4. ASSUME NEW i \in 1 .. Len(fs)
      PROVE  FrameOwned(gs[i], OwnerAt(i - 1, gs, bs), bs, m)
  <2>1. i - 1 \in 0 .. Len(fs)
    BY <1>1
  <2> QED
    BY <2>1, <1>2, <1>3 DEF Owned
<1>5. cf = OwnerOf(g, bs) /\ OwnerAt(Len(fs), gs, bs) = cf
  BY <1>1, <1>3 DEF Owned, OwnerAt
<1> QED
  BY <1>2, <1>4, <1>5 DEF Owned, gs

-----------------------------------------------------------------------------
(* Steps: what an action has to show, by what it does to the call stack      *)

OwnedNow ==
  /\ Owned(frames, blocks, Len(funcs), contextFunc, contextBlock)
  /\ In(2, Main, blocks)
  /\ 2 <= Len(funcs)

\* What an action may use while a function is being compiled.
LEMMA Context ==
  ASSUME TypeOK, OwnedNow, frames # << >>
  PROVE  /\ contextFunc \in Nat \ {0}
         /\ contextBlock \in 1 .. Len(blocks)
         /\ In(contextBlock, contextFunc, blocks)
         /\ blocks[contextBlock].fn = contextFunc
         /\ Top \in Frame
         /\ Top = frames[Len(frames)]
         /\ FrameOwned(Top, OwnerAt(Len(frames) - 1, frames, blocks), blocks, Len(funcs))
         /\ contextFunc = OwnerOf(Top, blocks)
         /\ Len(frames) \in Nat \ {0}
<1>1. /\ Len(frames) \in Nat \ {0} /\ Top \in Frame /\ Top = frames[Len(frames)]
      /\ Len(blocks) \in Nat /\ Len(funcs) \in Nat
  <2>1. frames \in Seq(Frame) /\ blocks \in Seq(BasicBlock) /\ funcs \in Seq(Func)
    BY DEF TypeOK
  <2>2. Len(blocks) \in Nat /\ Len(funcs) \in Nat
    BY <2>1, LenProperties
  <2> QED
    BY <2>1, <2>2, FrontType DEF Top
<1>2. FrameOwned(Top, OwnerAt(Len(frames) - 1, frames, blocks), blocks, Len(funcs))
  BY <1>1 DEF OwnedNow, Owned
<1>3. contextFunc = OwnerOf(Top, blocks)
  BY <1>1 DEF OwnedNow, Owned, OwnerAt
<1>4. contextFunc # 0
  <2>1. CASE Top.kind = "func"
    BY <2>1, <1>2, <1>3 DEF OwnerOf, FrameOwned
  <2>2. CASE Top.kind # "func"
    <3>1. contextFunc = OwnerAt(Len(frames) - 1, frames, blocks)
      BY <2>2, <1>1, <1>2, <1>3, FrameKinds DEF OwnerOf, FrameOwned, In
    <3> QED
      BY <3>1, <2>2, <1>1, <1>2, FrameKinds DEF FrameOwned
  <2> QED
    BY <2>1, <2>2
<1>5. In(contextBlock, contextFunc, blocks)
  BY <1>4 DEF OwnedNow, Owned
<1> QED
  BY <1>1, <1>2, <1>3, <1>4, <1>5 DEF In, TypeOK

\* What the counters and heights range over.
LEMMA Numbers ==
  ASSUME TypeOK, OwnedNow
  PROVE  /\ Here \in Nat \ {0}
         /\ Len(blocks) \in Nat /\ 2 <= Len(blocks)
         /\ Len(funcs) \in Nat /\ 2 <= Len(funcs)
         /\ Len(frames) \in Nat
         /\ \A n \in Nat \ {0} : Fresh(n) = Len(blocks) + n /\ Fresh(n) \in Block
         /\ Heights \in Height
<1>1. /\ Len(blocks) \in Nat /\ Len(funcs) \in Nat /\ Len(frames) \in Nat /\ Len(src) \in Nat
      /\ Len(contextFuncRetVals) \in Nat /\ Len(contextBlockVariables) \in Nat
      /\ Len(contextLoopBreak) \in Nat /\ Len(contextCondAfter) \in Nat
  BY LenProperties DEF TypeOK
<1>2. 2 <= Len(blocks) /\ 2 <= Len(funcs)
  BY <1>1 DEF OwnedNow, In
<1>3. Heights \in Height
  BY <1>1 DEF Heights, Height
<1>4. Here \in Nat \ {0}
  BY <1>1 DEF Here
<1>6. \A n \in Nat \ {0} : Fresh(n) = Len(blocks) + n /\ Fresh(n) \in Block
  BY <1>1 DEF Fresh, Block
<1> QED
  BY <1>1, <1>2, <1>3, <1>4, <1>6

\* A token put at the end keeps src a program.
LEMMA PutType ==
  ASSUME TypeOK, NEW op \in Ops, NEW of \in Nat, NEW form \in Forms, Put(op, of, form)
  PROVE  src' \in Seq(Token)
BY AppendProperties DEF TypeOK, Put, Token

\* A step that opens and closes no call keeps the ownership.
LEMMA KeepStep ==
  ASSUME TypeOK, OwnedNow, Grows(blocks, blocks'),
         frames' = frames, funcs' = funcs, contextFunc' = contextFunc, frames # << >>,
         In(contextBlock', contextFunc, blocks')
  PROVE  OwnedNow'
<1>1. Len(blocks) \in Nat /\ Len(blocks') \in Nat /\ Len(funcs) \in Nat
  BY LenProperties DEF TypeOK, Grows
<1>2. Owned(frames, blocks', Len(funcs), contextFunc, contextBlock')
  BY <1>1, Context, OwnedGrows DEF TypeOK, OwnedNow
<1>3. In(2, Main, blocks') /\ 2 <= Len(funcs')
  BY <1>1, InGrows DEF TypeOK, OwnedNow
<1> QED
  BY <1>2, <1>3 DEF OwnedNow

\* A call that takes its blocks from its own function may be opened.
LEMMA PushStep ==
  ASSUME TypeOK, OwnedNow, Grows(blocks, blocks'),
         NEW f \in Frame, frames' = Append(frames, f),
         Len(funcs') \in Nat, Len(funcs) <= Len(funcs'),
         FrameOwned(f, contextFunc, blocks', Len(funcs')),
         contextFunc' = OwnerOf(f, blocks'), contextFunc' # 0,
         In(contextBlock', contextFunc', blocks')
  PROVE  OwnedNow'
<1>1. Len(blocks) \in Nat /\ Len(blocks') \in Nat /\ Len(funcs) \in Nat
  BY LenProperties DEF TypeOK, Grows
<1>2. /\ contextFunc = 0 => contextBlock = 0
      /\ contextFunc # 0 => In(contextBlock, contextFunc, blocks')
  BY InGrows DEF OwnedNow, Owned, TypeOK
<1>3. Owned(frames, blocks', Len(funcs'), contextFunc, contextBlock)
  BY <1>1, <1>2, OwnedGrows DEF TypeOK, OwnedNow
<1>4. Owned(frames', blocks', Len(funcs'), contextFunc', contextBlock')
  BY <1>3, OwnedPush DEF TypeOK, Grows
<1>5. In(2, Main, blocks') /\ 2 <= Len(funcs')
  BY <1>1, InGrows DEF TypeOK, OwnedNow
<1> QED
  BY <1>4, <1>5 DEF OwnedNow

\* A call may be closed when the context goes back to its caller.
LEMMA PopStep ==
  ASSUME TypeOK, OwnedNow, Grows(blocks, blocks'),
         frames # << >>, frames' = Front(frames), Len(funcs') = Len(funcs),
         contextFunc' = OwnerAt(Len(frames) - 1, frames, blocks),
         contextFunc' = 0 => contextBlock' = 0,
         contextFunc' # 0 => In(contextBlock', contextFunc', blocks')
  PROVE  OwnedNow'
<1>1. /\ Len(blocks) \in Nat /\ Len(blocks') \in Nat /\ Len(funcs) \in Nat
      /\ Len(frames) \in Nat \ {0} /\ \A i \in 1 .. Len(frames) : frames[i] \in Frame
  BY LenProperties, EmptySeq, ElementOfSeq DEF TypeOK, Grows
<1>2. In(contextBlock, contextFunc, blocks') /\ contextFunc # 0
  BY Context, InGrows DEF TypeOK
<1>3. Owned(frames, blocks', Len(funcs), contextFunc, contextBlock)
  BY <1>1, <1>2, OwnedGrows DEF TypeOK, OwnedNow
<1>4. OwnerAt(Len(frames) - 1, frames, blocks') = OwnerAt(Len(frames) - 1, frames, blocks)
  <2>1. CASE Len(frames) - 1 = 0
    BY <2>1 DEF OwnerAt
  <2>2. CASE Len(frames) - 1 \in 1 .. Len(frames)
    <3>1. FrameOwned(frames[Len(frames) - 1], OwnerAt(Len(frames) - 1 - 1, frames, blocks),
                     blocks, Len(funcs))
      BY <2>2 DEF OwnedNow, Owned
    <3>2. OwnerOf(frames[Len(frames) - 1], blocks') = OwnerOf(frames[Len(frames) - 1], blocks)
      BY <2>2, <3>1, <1>1, OwnerGrows DEF TypeOK
    <3> QED
      BY <3>2 DEF OwnerAt
  <2>3. Len(frames) - 1 = 0 \/ Len(frames) - 1 \in 1 .. Len(frames)
    <3>1. \A n \in Nat \ {0} : n - 1 = 0 \/ n - 1 \in 1 .. n
      OBVIOUS
    <3>2. Len(frames) \in Nat \ {0}
      BY <1>1
    <3> QED
      BY ONLY <3>1, <3>2
  <2> QED
    BY <2>1, <2>2, <2>3
<1>5. Owned(frames', blocks', Len(funcs), contextFunc', contextBlock')
  BY <1>3, <1>4, OwnedPop DEF TypeOK, Grows
<1>6. In(2, Main, blocks') /\ 2 <= Len(funcs')
  BY <1>1, InGrows DEF TypeOK, OwnedNow
<1> QED
  BY <1>5, <1>6 DEF OwnedNow

\* The innermost call may change its local variables within its function.
LEMMA TopStep ==
  ASSUME TypeOK, OwnedNow, Grows(blocks, blocks'), frames # << >>,
         NEW g \in Frame, frames' = [frames EXCEPT ![Len(frames)] = g],
         funcs' = funcs, contextFunc' = contextFunc,
         FrameOwned(g, OwnerAt(Len(frames) - 1, frames, blocks), blocks, Len(funcs)),
         OwnerOf(g, blocks) = OwnerOf(Top, blocks),
         In(contextBlock', contextFunc, blocks')
  PROVE  OwnedNow'
<1>1. Len(blocks) \in Nat /\ Len(blocks') \in Nat /\ Len(funcs) \in Nat /\ frames' \in Seq(Frame)
  BY LenProperties, ExceptSeq, Context DEF TypeOK, Grows
<1>2. Owned(frames', blocks, Len(funcs), contextFunc, contextBlock)
  BY <1>1, Context, OwnedTop DEF TypeOK, OwnedNow
<1>3. Owned(frames', blocks', Len(funcs), contextFunc, contextBlock')
  <2>1. contextFunc # 0 /\ blocks \in Seq(BasicBlock) /\ Len(funcs) <= Len(funcs)
    BY <1>1, Context DEF TypeOK
  <2> QED
    BY <1>1, <1>2, <2>1, OwnedGrows
<1>4. In(2, Main, blocks') /\ 2 <= Len(funcs')
  BY <1>1, InGrows DEF TypeOK, OwnedNow
<1> QED
  BY <1>3, <1>4 DEF OwnedNow

-----------------------------------------------------------------------------
(* The actions                                                               *)

\* The instructions emitted for the token compiled now.
LEMMA ItemTypes ==
  ASSUME TypeOK, OwnedNow
  PROVE  \A tag \in Tags : /\ [at |-> Here, tag |-> tag] \in Item
                           /\ <<[at |-> Here, tag |-> tag]>> \in Seq(Item)
BY Numbers DEF Item

\* A straight-line statement (compileAllocNode, compileAssignNode, compileCallNode) keeps
\* the types and the ownership.
LEMMA StmtStep ==
  ASSUME TypeOK, OwnedNow, Stmt
  PROVE  TypeOK' /\ OwnedNow'
<1>1. frames # << >>
  BY DEF Stmt, StatementAllowed, CanStand
<1>2. Grows(blocks, blocks')
  BY <1>1, ItemTypes, Context, EmitGrows DEF Stmt, TypeOK, Tags
<1>3. In(contextBlock', contextFunc, blocks')
  <2>1. In(contextBlock, contextFunc, blocks) /\ contextBlock' = contextBlock
    BY <1>1, Context DEF Stmt
  <2> QED
    BY <1>2, <2>1, InGrows DEF TypeOK
<1>4. OwnedNow'
  BY <1>1, <1>2, <1>3, KeepStep DEF Stmt
<1>5. src' \in Seq(Token)
  <2>1. Put("stmt", 0, "plain")
    BY DEF Stmt
  <2> QED
    BY <2>1, PutType DEF Ops, Forms
<1> QED
  BY <1>2, <1>4, <1>5 DEF Stmt, TypeOK, Grows, stacks

\* Blocks of function f, one to four of them.
LEMMA MadeOf ==
  ASSUME NEW f \in Nat \ {0}
  PROVE  /\ NewBlock(f) \in BasicBlock /\ NewBlock(f).fn = f
         /\ \A c \in Seq(Item), t \in Term :
              BlockOf(f, c, t) \in BasicBlock /\ BlockOf(f, c, t).fn = f
         /\ \A x \in BasicBlock : x.fn = f => AllOf(<<x>>, 1, f)
         /\ \A x, y \in BasicBlock : x.fn = f /\ y.fn = f => AllOf(<<x, y>>, 2, f)
         /\ \A x, y, z \in BasicBlock :
              x.fn = f /\ y.fn = f /\ z.fn = f => AllOf(<<x, y, z>>, 3, f)
         /\ \A x, y, z, w \in BasicBlock :
              x.fn = f /\ y.fn = f /\ z.fn = f /\ w.fn = f => AllOf(<<x, y, z, w>>, 4, f)
<1>1. NewBlock(f) \in BasicBlock /\ NewBlock(f).fn = f
  <2>1. << >> \in Seq(Item) /\ NoTerm \in Term
    BY TermTypes
  <2> QED
    BY <2>1 DEF NewBlock, BlockOf, BasicBlock
<1>2. \A c \in Seq(Item), t \in Term :
        BlockOf(f, c, t) \in BasicBlock /\ BlockOf(f, c, t).fn = f
  BY BlockTypes DEF BlockOf
<1>3. \A x \in BasicBlock : x.fn = f => AllOf(<<x>>, 1, f)
  BY DEF AllOf
<1>4. \A x, y \in BasicBlock : x.fn = f /\ y.fn = f => AllOf(<<x, y>>, 2, f)
  BY DEF AllOf
<1>5. \A x, y, z \in BasicBlock :
        x.fn = f /\ y.fn = f /\ z.fn = f => AllOf(<<x, y, z>>, 3, f)
  BY DEF AllOf
<1>6. \A x, y, z, w \in BasicBlock :
        x.fn = f /\ y.fn = f /\ z.fn = f /\ w.fn = f => AllOf(<<x, y, z, w>>, 4, f)
  BY DEF AllOf
<1> QED
  BY <1>1, <1>2, <1>3, <1>4, <1>5, <1>6

\* The two blocks of a bounds check.
LEMMA CheckedAdds ==
  ASSUME NEW bs \in Seq(BasicBlock), NEW cs, NEW n \in Nat, NEW f \in Nat \ {0},
         Added(bs, cs, n, f), NEW b \in 1 .. Len(bs) + n, NEW at \in Nat
  PROVE  Added(bs, Checked(cs, b, at, f), n + 2, f)
<1> DEFINE outside == BlockOf(f, <<[at |-> at, tag |-> "panic"]>>, Unreachable)
           cmp     == Emit(cs, b, [at |-> at, tag |-> "index"])
           t       == CondBr(Len(cs) + 1, Len(cs) + 2)
<1>1. Len(bs) \in Nat /\ Len(cs) \in Nat
  BY LenProperties DEF Added, Grows
<1>2. /\ [at |-> at, tag |-> "index"] \in Item
      /\ <<[at |-> at, tag |-> "panic"]>> \in Seq(Item)
  BY DEF Item, Tags
<1>3. t \in Term
  BY <1>1, TermTypes DEF Block
<1>4. AllOf(<<outside, NewBlock(f)>>, 2, f)
  <2>1. outside \in BasicBlock /\ outside.fn = f
    BY <1>2, TermTypes, MadeOf
  <2> HIDE DEF outside
  <2> QED
    BY <2>1, MadeOf
<1>5. Added(bs, cmp, n, f)
  BY <1>2, AddedEmit
<1> HIDE DEF cmp, t, outside
<1>6. Added(bs, cmp \o <<outside, NewBlock(f)>>, n + 2, f)
  BY <1>4, <1>5, AddedConcat
<1>7. b \in 1 .. Len(bs) + (n + 2) /\ n + 2 \in Nat
  BY <1>1
<1>8. Added(bs, Terminate(cmp \o <<outside, NewBlock(f)>>, b, t), n + 2, f)
  BY <1>3, <1>6, <1>7, AddedTerminate
<1> QED
  BY <1>8 DEF Checked, WithCheck, cmp, t, outside

\* What the actions below use of the numbers of blocks.
LEMMA Now ==
  ASSUME TypeOK, OwnedNow, frames # << >>
  PROVE  /\ blocks \in Seq(BasicBlock)
         /\ contextFunc \in Nat \ {0}
         /\ blocks[contextBlock].fn = contextFunc
         /\ contextBlock \in 1 .. Len(blocks) + 0
         /\ Added(blocks, blocks, 0, contextFunc)
         /\ \A n \in Nat : contextBlock \in 1 .. Len(blocks) + n
         /\ \A n \in Nat \ {0} : Fresh(n) = Len(blocks) + n /\ Fresh(n) \in Block
         /\ Len(blocks) \in Nat
         /\ Here \in Nat
         /\ \A tag \in Tags : /\ [at |-> Here, tag |-> tag] \in Item
                              /\ <<[at |-> Here, tag |-> tag]>> \in Seq(Item)
<1>1. /\ blocks \in Seq(BasicBlock)
      /\ contextFunc \in Nat \ {0}
      /\ blocks[contextBlock].fn = contextFunc
      /\ contextBlock \in 1 .. Len(blocks)
      /\ Len(blocks) \in Nat
      /\ Here \in Nat
  BY Context, Numbers DEF TypeOK
<1>2. Added(blocks, blocks, 0, contextFunc)
  BY <1>1, AddedNone
<1>3. /\ contextBlock \in 1 .. Len(blocks) + 0
      /\ \A n \in Nat : contextBlock \in 1 .. Len(blocks) + n
  BY <1>1
<1>4. \A n \in Nat \ {0} : Fresh(n) = Len(blocks) + n /\ Fresh(n) \in Block
  BY Numbers
<1>5. \A tag \in Tags : /\ [at |-> Here, tag |-> tag] \in Item
                       /\ <<[at |-> Here, tag |-> tag]>> \in Seq(Item)
  BY ItemTypes
<1> QED
  BY <1>1, <1>2, <1>3, <1>4, <1>5, Zenon

\* The blocks just added.
LEMMA AddedIn ==
  ASSUME TypeOK, OwnedNow, NEW n \in Nat, NEW cs, NEW f, Added(blocks, cs, n, f),
         NEW i \in 1 .. n
  PROVE  Fresh(i) \in Nat /\ Fresh(i) \in Block /\ In(Fresh(i), f, cs)
<1>1. Fresh(i) = Len(blocks) + i /\ Fresh(i) \in Block
  BY Numbers, SMTT(20)
<1> QED
  BY <1>1 DEF Added, Block

\* An action that adds blocks to the function being compiled and continues in b.
LEMMA StraightStep ==
  ASSUME TypeOK, OwnedNow, frames # << >>,
         NEW n \in Nat, Added(blocks, blocks', n, contextFunc),
         NEW op \in Ops, NEW of \in Nat, NEW form \in Forms, Put(op, of, form),
         status' \in {"compiling", "failed"},
         \/ contextBlock' = contextBlock
         \/ contextBlock' \in Nat /\ In(contextBlock', contextFunc, blocks'),
         UNCHANGED <<funcs, contextFunc, stacks, frames>>
  PROVE  TypeOK' /\ OwnedNow'
<1>1. Grows(blocks, blocks')
  BY DEF Added
<1>2. In(contextBlock', contextFunc, blocks')
  <2>1. In(contextBlock, contextFunc, blocks)
    BY Context
  <2> QED
    BY <1>1, <2>1, InGrows DEF TypeOK
<1>3. OwnedNow'
  BY <1>1, <1>2, KeepStep
<1>4. contextBlock' \in Nat
  BY DEF TypeOK
<1>5. src' \in Seq(Token)
  BY PutType
<1> QED
  BY <1>1, <1>3, <1>4, <1>5 DEF TypeOK, Grows, stacks

\* Index keeps the types and the ownership.
LEMMA IndexStep ==
  ASSUME TypeOK, OwnedNow, Index
  PROVE  TypeOK' /\ OwnedNow'
<1>1. frames # << >> /\ status = "compiling" /\ UNCHANGED <<funcs, contextFunc, stacks, frames, status>>
  BY DEF Index, ExpressionAllowed, CanStand
<1>2. Added(blocks, blocks', 2, contextFunc)
  <2>1. Added(blocks, Checked(blocks, contextBlock, Here, contextFunc), 0 + 2, contextFunc)
    BY <1>1, Now, CheckedAdds
  <2>2. blocks' = Checked(blocks, contextBlock, Here, blocks[contextBlock].fn)
    BY DEF Index
  <2>3. blocks[contextBlock].fn = contextFunc
    BY <1>1, Now
  <2> QED
    BY <2>1, <2>2, <2>3
<1>3. contextBlock' \in Nat /\ In(contextBlock', contextFunc, blocks')
  <2>1. contextBlock' = Fresh(2)
    BY DEF Index
  <2> QED
    BY <1>1, <1>2, <2>1, AddedIn
<1>4. Put("check", 0, "index")
  BY DEF Index
<1> QED
  BY <1>1, <1>2, <1>3, <1>4, StraightStep DEF Ops, Forms

\* The blocks made next are blocks.
LEMMA FreshBlocks ==
  ASSUME TypeOK, OwnedNow
  PROVE  /\ Fresh(1) \in Block /\ Fresh(2) \in Block /\ Fresh(3) \in Block
         /\ Fresh(4) \in Block /\ Fresh(5) \in Block /\ Fresh(6) \in Block
BY Numbers

\* Substring keeps the types and the ownership.
LEMMA SubstringStep ==
  ASSUME TypeOK, OwnedNow, Substring
  PROVE  TypeOK' /\ OwnedNow'
<1> DEFINE f        == blocks[contextBlock].fn
           outside  == BlockOf(f, <<[at |-> Here, tag |-> "panic"]>>, Unreachable)
           checkEnd == BlockOf(f, <<[at |-> Here, tag |-> "end"]>>,
                               CondBr(Fresh(2), Fresh(1)))
           cmp      == Emit(blocks, contextBlock, [at |-> Here, tag |-> "start"])
           made     == <<outside, NewBlock(f), checkEnd>>
           t        == CondBr(Fresh(3), Fresh(1))
<1>1. frames # << >> /\ status = "compiling" /\ UNCHANGED <<funcs, contextFunc, stacks, frames, status>>
  BY DEF Substring, ExpressionAllowed, CanStand
<1>2. AllOf(made, 3, contextFunc)
  <2> f = contextFunc
    BY <1>1, Now
  <2> HIDE DEF f
  <2>1. outside \in BasicBlock /\ outside.fn = contextFunc
    <3>1. Unreachable \in Term
      BY TermTypes
    <3>2. <<[at |-> Here, tag |-> "panic"]>> \in Seq(Item)
      BY <1>1, Now DEF Tags
    <3> QED
      BY <1>1, <3>1, <3>2, Now, MadeOf, ZenonT(40)
  <2>2. checkEnd \in BasicBlock /\ checkEnd.fn = contextFunc
    <3>1. CondBr(Fresh(2), Fresh(1)) \in Term
      BY <1>1, Now, TermTypes
    <3>2. <<[at |-> Here, tag |-> "end"]>> \in Seq(Item)
      BY <1>1, Now DEF Tags
    <3> QED
      BY <1>1, <3>1, <3>2, Now, MadeOf, ZenonT(40)
  <2> HIDE DEF outside, checkEnd
  <2> QED
    BY <1>1, <2>1, <2>2, Now, MadeOf
<1>3. Added(blocks, cmp, 0, contextFunc)
  BY <1>1, Now, AddedEmit DEF Tags
<1>4. blocks' = Terminate(cmp \o made, contextBlock, t)
  BY DEF Substring
<1>5. t \in Term /\ contextBlock \in 1 .. Len(blocks) + 3
  <2>1. Fresh(1) \in Block /\ Fresh(2) \in Block /\ Fresh(3) \in Block
    BY FreshBlocks
  <2>2. contextBlock \in 1 .. Len(blocks) + 3
    BY <1>1, Now
  <2> QED
    BY <2>1, <2>2, TermTypes
<1> HIDE DEF cmp, made, t
<1>6. Added(blocks, cmp \o made, 3, contextFunc)
  <2>1. Added(blocks, cmp \o made, 0 + 3, contextFunc)
    BY <1>1, <1>2, <1>3, Now, AddedConcat
  <2> QED
    BY <2>1
<1>7. Added(blocks, blocks', 3, contextFunc)
  BY <1>1, <1>4, <1>5, <1>6, Now, AddedTerminate
<1>8. contextBlock' \in Nat /\ In(contextBlock', contextFunc, blocks')
  <2>1. contextBlock' = Fresh(2)
    BY DEF Substring
  <2> QED
    BY <1>1, <1>7, <2>1, AddedIn
<1>9. Put("check", 0, "substring")
  BY DEF Substring
<1> QED
  BY <1>1, <1>7, <1>8, <1>9, StraightStep DEF Ops, Forms

\* TypeAssertion keeps the types and the ownership.
LEMMA TypeAssertionStep ==
  ASSUME TypeOK, OwnedNow, TypeAssertion
  PROVE  TypeOK' /\ OwnedNow'
<1> DEFINE side == BlockOf(contextFunc, << >>, Br(Fresh(3)))
           cmp  == Emit(blocks, contextBlock, [at |-> Here, tag |-> "assert"])
           made == <<side, side, NewBlock(contextFunc)>>
           t    == CondBr(Fresh(1), Fresh(2))
<1>1. frames # << >> /\ status = "compiling" /\ UNCHANGED <<funcs, contextFunc, stacks, frames, status>>
  BY DEF TypeAssertion, StatementAllowed, CanStand
<1>2. AllOf(made, 3, contextFunc)
  <2>1. << >> \in Seq(Item) /\ Br(Fresh(3)) \in Term
    BY <1>1, Now, TermTypes
  <2>2. side \in BasicBlock /\ side.fn = contextFunc
    BY <1>1, <2>1, Now, MadeOf, ZenonT(40)
  <2> HIDE DEF side
  <2> QED
    BY <1>1, <2>2, Now, MadeOf
<1>3. Added(blocks, cmp, 0, contextFunc)
  BY <1>1, Now, AddedEmit DEF Tags
<1>4. blocks' = Terminate(cmp \o made, contextBlock, t)
  <2>1. blocks[contextBlock].fn = contextFunc
    BY <1>1, Now
  <2> QED
    BY <2>1 DEF TypeAssertion
<1>5. t \in Term /\ contextBlock \in 1 .. Len(blocks) + 3
  <2>1. Fresh(1) \in Block /\ Fresh(2) \in Block /\ Fresh(3) \in Block
    BY FreshBlocks
  <2>2. contextBlock \in 1 .. Len(blocks) + 3
    BY <1>1, Now
  <2> QED
    BY <2>1, <2>2, TermTypes
<1> HIDE DEF cmp, made, t
<1>6. Added(blocks, cmp \o made, 3, contextFunc)
  <2>1. Added(blocks, cmp \o made, 0 + 3, contextFunc)
    BY <1>1, <1>2, <1>3, Now, AddedConcat
  <2> QED
    BY <2>1
<1>7. Added(blocks, blocks', 3, contextFunc)
  BY <1>1, <1>4, <1>5, <1>6, Now, AddedTerminate
<1>8. contextBlock' \in Nat /\ In(contextBlock', contextFunc, blocks')
  <2>1. contextBlock' = Fresh(3)
    BY DEF TypeAssertion
  <2> QED
    BY <1>1, <1>7, <2>1, AddedIn
<1>9. Put("check", 0, "assertion")
  BY DEF TypeAssertion
<1> QED
  BY <1>1, <1>7, <1>8, <1>9, StraightStep DEF Ops, Forms

\* A jump: a terminator for the current block, or a panic of the compiler.
LEMMA JumpStep ==
  ASSUME TypeOK, OwnedNow, frames # << >>,
         NEW cs, Added(blocks, cs, 0, contextFunc), NEW t,
         \/ t \in Term /\ blocks' = Terminate(cs, contextBlock, t) /\ status' = status
         \/ blocks' = blocks /\ status' = "failed",
         status = "compiling",
         NEW op \in Ops, NEW of \in Nat, NEW form \in Forms, Put(op, of, form),
         UNCHANGED <<funcs, contextFunc, contextBlock, stacks, frames>>
  PROVE  TypeOK' /\ OwnedNow'
<1>1. Added(blocks, blocks', 0, contextFunc)
  BY Now, AddedTerminate
<1> QED
  BY <1>1, StraightStep

\* The token of an open call is a position.
LEMMA TargetType ==
  ASSUME TypeOK, NEW i \in DOMAIN frames
  PROVE  frames[i].at \in Nat
<1>1. frames[i] \in Frame
  BY DEF TypeOK
<1> QED
  BY <1>1 DEF Frame, IfFrame, ForFrame, SwitchFrame, AppendFrame, FuncFrame

\* The innermost of some open calls is one of them, and none of them is inside it.
LEMMA InnermostType ==
  ASSUME TypeOK, NEW S \in SUBSET (DOMAIN frames), S # {}
  PROVE  /\ InnermostOf(S) \in DOMAIN frames
         /\ InnermostOf(S) \in S
         /\ \A j \in S : j <= InnermostOf(S)
<1>1. DOMAIN frames = 1 .. Len(frames) /\ Len(frames) \in Nat
  BY LenProperties DEF TypeOK
<1>2. \E i \in S : \A j \in S : j <= i
  <2> DEFINE U == {n \in Nat : \A j \in S : j <= n}
  <2>1. U # {} /\ U \in SUBSET Nat
    BY <1>1
  <2>2. PICK m \in U : \A n \in U : m <= n
    <3>1. \E m \in U : \A n \in U : ~ (<<n, m>> \in OpToRel(<, Nat))
      BY <2>1, NatLessThanWellFounded, WFMin
    <3>2. \A m, n \in Nat : <<n, m>> \notin OpToRel(<, Nat) => m <= n
      BY DEF OpToRel
    <3> QED
      BY <3>1, <3>2
  <2>3. CASE m \in S
    BY <2>2, <2>3
  <2>4. CASE m \notin S
    <3>1. \A j \in S : j \in Nat \ {0} /\ j <= m /\ j # m
      BY <1>1, <2>4
    <3>2. m \in Nat \ {0}
      BY <3>1
    <3>3. m - 1 \in Nat /\ \A j \in S : j <= m - 1
      BY <3>1, <3>2
    <3> QED
      BY <2>2, <3>2, <3>3
  <2> QED
    BY <2>3, <2>4
<1> QED
  BY <1>2 DEF InnermostOf

-----------------------------------------------------------------------------
(* Calls that open, go on and return within a function                      *)

StacksOK ==
  /\ contextFuncRetVals \in Seq(RetVals)
  /\ contextBlockVariables \in Seq(Nat)
  /\ contextLoopBreak \in Seq(Block)
  /\ contextLoopContinue \in Seq(Block)
  /\ contextCondAfter \in Seq(Block)

\* A call other than that of a function body.
LEMMA TopOwned ==
  ASSUME TypeOK, OwnedNow, frames # << >>, Top.kind # "func"
  PROVE  /\ OwnerAt(Len(frames) - 1, frames, blocks) = contextFunc
         /\ FrameOwned(Top, contextFunc, blocks, Len(funcs))
<1>1. /\ FrameOwned(Top, OwnerAt(Len(frames) - 1, frames, blocks), blocks, Len(funcs))
      /\ contextFunc = OwnerOf(Top, blocks)
      /\ Top \in Frame
  BY Context
<1>2. blocks \in Seq(BasicBlock)
  BY DEF TypeOK
<1>3. Grows(blocks, blocks)
  BY <1>2, GrowsRefl
<1>4. OwnerOf(Top, blocks) = OwnerAt(Len(frames) - 1, frames, blocks)
  BY <1>1, <1>2, <1>3, OwnerGrows
<1> QED
  BY <1>1, <1>4

\* The step that opens an if, a for, a switch or an append.
LEMMA OpenStep ==
  ASSUME TypeOK, OwnedNow, frames # << >>, status = "compiling",
         NEW n \in Nat, Added(blocks, blocks', n, contextFunc),
         NEW f \in Frame, f.kind # "func", FrameOwned(f, contextFunc, blocks', Len(funcs)),
         frames' = Append(frames, f),
         \/ contextBlock' = contextBlock
         \/ contextBlock' \in Nat /\ In(contextBlock', contextFunc, blocks'),
         StacksOK',
         NEW op \in Ops, NEW of \in Nat, NEW form \in Forms, Put(op, of, form),
         UNCHANGED <<funcs, contextFunc, status>>
  PROVE  TypeOK' /\ OwnedNow'
<1>1. Grows(blocks, blocks') /\ blocks' \in Seq(BasicBlock)
  BY DEF Added, Grows
<1>2. OwnerOf(f, blocks') = contextFunc
  <2>1. Grows(blocks', blocks')
    BY <1>1, GrowsRefl
  <2> QED
    BY <1>1, <2>1, OwnerGrows
<1>3. contextFunc # 0 /\ In(contextBlock, contextFunc, blocks)
  BY Context
<1>4. In(contextBlock', contextFunc, blocks') /\ contextBlock' \in Nat
  <2>1. In(contextBlock, contextFunc, blocks')
    BY <1>1, <1>3, InGrows DEF TypeOK
  <2> QED
    BY <2>1 DEF TypeOK
<1>5. Len(funcs') \in Nat /\ Len(funcs) <= Len(funcs') /\ Len(funcs') = Len(funcs)
  BY Numbers
<1>6. OwnedNow'
  BY <1>1, <1>2, <1>3, <1>4, <1>5, PushStep
<1>7. frames' \in Seq(Frame)
  BY AppendType DEF TypeOK
<1>8. src' \in Seq(Token)
  BY PutType
<1> QED
  BY <1>1, <1>4, <1>6, <1>7, <1>8 DEF TypeOK, StacksOK

\* The step that closes an if, a for, a switch or an append.
LEMMA CloseStep ==
  ASSUME TypeOK, OwnedNow, frames # << >>, status' \in {"compiling", "failed"},
         NEW n \in Nat, Added(blocks, blocks', n, contextFunc),
         Top.kind # "func", frames' = Front(frames),
         contextBlock' \in Nat, In(contextBlock', contextFunc, blocks'),
         StacksOK',
         NEW op \in Ops, NEW of \in Nat, NEW form \in Forms, Put(op, of, form),
         UNCHANGED <<funcs, contextFunc>>
  PROVE  TypeOK' /\ OwnedNow'
<1>1. Grows(blocks, blocks') /\ blocks' \in Seq(BasicBlock)
  BY DEF Added, Grows
<1>2. contextFunc' = OwnerAt(Len(frames) - 1, frames, blocks) /\ contextFunc' # 0
  BY TopOwned, Context
<1>3. OwnedNow'
  BY <1>1, <1>2, PopStep
<1>4. frames' \in Seq(Frame)
  BY FrontSeq DEF TypeOK
<1>5. src' \in Seq(Token)
  BY PutType
<1> QED
  BY <1>1, <1>3, <1>4, <1>5 DEF TypeOK, StacksOK

\* The step between two bodies of the innermost call.
LEMMA GoOnStep ==
  ASSUME TypeOK, OwnedNow, frames # << >>, status = "compiling",
         NEW n \in Nat, Added(blocks, blocks', n, contextFunc),
         Top.kind # "func",
         NEW g \in Frame, g.kind # "func", FrameOwned(g, contextFunc, blocks, Len(funcs)),
         frames' = [frames EXCEPT ![Len(frames)] = g],
         contextBlock' \in Nat, In(contextBlock', contextFunc, blocks'),
         NEW op \in Ops, NEW of \in Nat, NEW form \in Forms, Put(op, of, form),
         UNCHANGED <<funcs, contextFunc, stacks, status>>
  PROVE  TypeOK' /\ OwnedNow'
<1>1. Grows(blocks, blocks') /\ blocks' \in Seq(BasicBlock)
  BY DEF Added, Grows
<1>2. /\ OwnerAt(Len(frames) - 1, frames, blocks) = contextFunc
      /\ contextFunc = OwnerOf(Top, blocks)
      /\ Len(frames) \in 1 .. Len(frames)
  BY TopOwned, Context
<1>3. OwnerOf(g, blocks) = OwnerOf(Top, blocks)
  <2>1. Grows(blocks, blocks) /\ blocks \in Seq(BasicBlock)
    BY GrowsRefl DEF TypeOK
  <2> QED
    BY <1>2, <2>1, OwnerGrows
<1>4. OwnedNow'
  BY <1>1, <1>2, <1>3, TopStep
<1>5. frames' \in Seq(Frame)
  BY <1>2, ExceptSeq DEF TypeOK
<1>6. src' \in Seq(Token)
  BY PutType
<1> QED
  BY <1>1, <1>4, <1>5, <1>6 DEF TypeOK, stacks

\* A context stack after a push, a pop or neither.
LEMMA SeqStep ==
  ASSUME NEW S, NEW s \in Seq(S), NEW t,
         t = s \/ t = Front(s) \/ \E e \in S : t = Append(s, e)
  PROVE  t \in Seq(S)
<1>1. CASE t = s
  BY <1>1
<1>2. CASE t = Front(s)
  BY <1>2, FrontSeq
<1>3. CASE \E e \in S : t = Append(s, e)
  BY <1>3, AppendType
<1> QED
  BY <1>1, <1>2, <1>3

\* Stacks that are not touched, popped, or grow by one entry.
LEMMA StacksType ==
  ASSUME TypeOK,
         \/ contextFuncRetVals' = contextFuncRetVals,
         \/ contextBlockVariables' = contextBlockVariables
         \/ contextBlockVariables' = Front(contextBlockVariables)
         \/ contextBlockVariables' = Append(contextBlockVariables, Here),
         \/ contextLoopBreak' = contextLoopBreak
         \/ contextLoopBreak' = Front(contextLoopBreak)
         \/ \E b \in Block : contextLoopBreak' = Append(contextLoopBreak, b),
         \/ contextLoopContinue' = contextLoopContinue
         \/ contextLoopContinue' = Front(contextLoopContinue)
         \/ \E b \in Block : contextLoopContinue' = Append(contextLoopContinue, b),
         \/ contextCondAfter' = contextCondAfter
         \/ contextCondAfter' = Front(contextCondAfter)
         \/ \E b \in Block : contextCondAfter' = Append(contextCondAfter, b)
  PROVE  StacksOK'
<1>1. contextBlockVariables' \in Seq(Nat)
  <2>1. contextBlockVariables \in Seq(Nat) /\ Here \in Nat
    BY LenProperties DEF TypeOK, Here
  <2> QED
    BY <2>1, SeqStep
<1>2. contextLoopBreak' \in Seq(Block)
  <2>1. contextLoopBreak \in Seq(Block)
    BY DEF TypeOK
  <2> QED
    BY <2>1, SeqStep
<1>3. contextLoopContinue' \in Seq(Block)
  <2>1. contextLoopContinue \in Seq(Block)
    BY DEF TypeOK
  <2> QED
    BY <2>1, SeqStep
<1>4. contextCondAfter' \in Seq(Block)
  <2>1. contextCondAfter \in Seq(Block)
    BY DEF TypeOK
  <2> QED
    BY <2>1, SeqStep
<1> QED
  BY <1>1, <1>2, <1>3, <1>4 DEF TypeOK, StacksOK

\* Untouched context stacks keep their types.
LEMMA StacksKept ==
  ASSUME TypeOK, UNCHANGED stacks
  PROVE  StacksOK'
BY DEF TypeOK, StacksOK, stacks

\* BeginAppend keeps the types and the ownership.
LEMMA BeginAppendStep ==
  ASSUME TypeOK, OwnedNow, NEW self \in BOOLEAN, BeginAppend(self)
  PROVE  TypeOK' /\ OwnedNow'
<1> DEFINE f         == blocks[contextBlock].fn
           copy      == BlockOf(f, << >>, Br(Fresh(4)))
           add       == BlockOf(f, << >>, Unreachable)
           existing  == BlockOf(f, << >>, Br(Fresh(2)))
           copyBytes == BlockOf(f, << >>, CondBr(Fresh(4), Fresh(2)))
           made      == <<copy, add, existing, copyBytes>>
           t         == IF self THEN CondBr(Fresh(3), Fresh(1)) ELSE Br(Fresh(1))
           frame     == [kind |-> "append", at |-> Here, entry |-> Heights, add |-> Fresh(2)]
<1>1. /\ frames # << >> /\ status = "compiling"
      /\ UNCHANGED <<funcs, contextFunc, stacks, status>>
      /\ frames' = Append(frames, frame)
      /\ contextBlock' = Fresh(2)
  BY DEF BeginAppend, StatementAllowed, CanStand
<1>2. blocks' = Terminate(blocks \o made, contextBlock, t)
  BY DEF BeginAppend
<1>3. f = contextFunc /\ f \in Nat \ {0}
  BY <1>1, Now
<1>4. /\ Fresh(1) \in Block /\ Fresh(2) \in Block /\ Fresh(3) \in Block /\ Fresh(4) \in Block
      /\ contextBlock \in 1 .. Len(blocks) + 4
  <2>1. Fresh(1) \in Block /\ Fresh(2) \in Block /\ Fresh(3) \in Block /\ Fresh(4) \in Block
    BY FreshBlocks
  <2>2. contextBlock \in 1 .. Len(blocks) + 4
    BY <1>1, Now
  <2> QED
    BY <2>1, <2>2
<1>5. AllOf(made, 4, f)
  <2> HIDE DEF f
  <2>1. /\ << >> \in Seq(Item) /\ Unreachable \in Term
        /\ Br(Fresh(4)) \in Term /\ Br(Fresh(2)) \in Term
        /\ CondBr(Fresh(4), Fresh(2)) \in Term
    BY <1>4, TermTypes
  <2>2. copy \in BasicBlock /\ copy.fn = f /\ add \in BasicBlock /\ add.fn = f
    BY <1>3, <2>1, MadeOf
  <2>3. /\ existing \in BasicBlock /\ existing.fn = f
        /\ copyBytes \in BasicBlock /\ copyBytes.fn = f
    BY <1>3, <2>1, MadeOf
  <2> HIDE DEF copy, add, existing, copyBytes
  <2> QED
    BY <1>3, <2>2, <2>3, MadeOf
<1>6. t \in Term
  BY <1>4, TermTypes
<1> HIDE DEF made, t, f
<1>7. Added(blocks, blocks', 4, contextFunc)
  <2>1. Added(blocks, blocks \o made, 0 + 4, contextFunc)
    BY <1>1, <1>3, <1>5, Now, AddedConcat
  <2>2. Added(blocks, Terminate(blocks \o made, contextBlock, t), 0 + 4, contextFunc)
    BY <1>1, <1>4, <1>6, <2>1, Now, AddedTerminate
  <2> QED
    BY <1>2, <2>2
<1>8. Fresh(2) \in Nat /\ In(Fresh(2), contextFunc, blocks')
  BY <1>7, AddedIn
<1>9. frame \in Frame /\ frame.kind = "append" /\ frame.add = Fresh(2)
  BY <1>4, Numbers DEF Frame, AppendFrame
<1> HIDE DEF frame
<1>10. FrameOwned(frame, contextFunc, blocks', Len(funcs))
  BY <1>1, <1>8, <1>9, Now DEF FrameOwned
<1>11. \E form \in Forms : Put("append", 0, form)
  <2>1. Put("append", 0, IF self THEN "self" ELSE "copy")
    BY DEF BeginAppend
  <2> QED
    BY <2>1 DEF Forms
<1>12. StacksOK'
  BY <1>1, StacksKept
<1>13. frame.kind # "func"
  BY <1>9
<1> QED
  BY <1>1, <1>7, <1>8, <1>9, <1>10, <1>11, <1>12, <1>13, OpenStep DEF Ops

\* NestedAppend keeps the types and the ownership.
LEMMA NestedAppendStep ==
  ASSUME TypeOK, OwnedNow, NestedAppend
  PROVE  TypeOK' /\ OwnedNow'
<1>1. /\ frames # << >> /\ status = "compiling"
      /\ UNCHANGED <<funcs, contextFunc, contextBlock, stacks, frames>>
  BY DEF NestedAppend, ExpressionAllowed, CanStand
<1>2. blocks' = blocks /\ status' = "failed" /\ Put("append", 0, "copy")
  BY DEF NestedAppend
<1>3. Added(blocks, blocks, 0, contextFunc)
  BY <1>1, Now
<1> QED
  BY <1>1, <1>2, <1>3, JumpStep DEF Ops, Forms

\* The fields of the innermost call.
LEMMA TopType ==
  ASSUME TypeOK, OwnedNow, frames # << >>
  PROVE  /\ Top \in Frame /\ Top.at \in Nat
         /\ Top.kind = "append" => Top.add \in Block
         /\ Top.kind = "if" => Top.tru \in Block /\ Top.fls \in Block /\ Top.after \in Block
         /\ Top.kind = "for" => Top.cond \in Block /\ Top.post \in Block /\ Top.after \in Block
         /\ Top.kind = "switch" => /\ Top.pre \in Block /\ Top.dflt \in Block
                                  /\ Top.after \in Block /\ Top.cases \in Seq(Block)
         /\ Top.kind = "func" => /\ Top.fn \in Nat \ {0} /\ Top.prevFunc \in Nat
                                /\ Top.prevBlock \in Nat
<1>1. Top \in Frame
  BY Context
<1> HIDE DEF Top
<1> QED
  BY <1>1 DEF Frame, IfFrame, ForFrame, SwitchFrame, AppendFrame, FuncFrame

\* EndAppend keeps the types and the ownership.
LEMMA EndAppendStep ==
  ASSUME TypeOK, OwnedNow, EndAppend
  PROVE  TypeOK' /\ OwnedNow'
<1>1. /\ frames # << >> /\ Top.kind = "append" /\ status = "compiling"
      /\ UNCHANGED <<funcs, contextFunc, stacks, status>>
      /\ frames' = Front(frames) /\ contextBlock' = Top.add
      /\ blocks' = Emit(blocks, Top.add, [at |-> Top.at, tag |-> "append"])
      /\ Put("endappend", Top.at, "plain")
  BY DEF EndAppend, Open
<1>2. FrameOwned(Top, contextFunc, blocks, Len(funcs)) /\ Top.kind # "func"
  BY <1>1, TopOwned
<1>3. In(Top.add, contextFunc, blocks) /\ Top.add \in 1 .. Len(blocks) + 0
  BY <1>1, <1>2, Now DEF FrameOwned, In
<1>4. [at |-> Top.at, tag |-> "append"] \in Item /\ Top.at \in Nat /\ Top.add \in Nat
  BY <1>1, TopType DEF Item, Tags, Block
<1>5. Added(blocks, blocks', 0, contextFunc)
  BY <1>1, <1>3, <1>4, Now, AddedEmit
<1>6. In(contextBlock', contextFunc, blocks')
  BY <1>1, <1>3, <1>5, Now, InGrows DEF Added
<1>7. StacksOK'
  BY <1>1, StacksKept
<1> QED
  BY <1>1, <1>2, <1>4, <1>5, <1>6, <1>7, CloseStep DEF Ops, Forms

\* BeginIf keeps the types and the ownership.
LEMMA BeginIfStep ==
  ASSUME TypeOK, OwnedNow, NEW hasElse \in BOOLEAN, BeginIf(hasElse)
  PROVE  TypeOK' /\ OwnedNow'
<1> DEFINE f     == blocks[contextBlock].fn
           after == Fresh(1)
           tru   == Fresh(2)
           fls   == IF hasElse THEN Fresh(3) ELSE after
           n     == IF hasElse THEN 3 ELSE 2
           made  == IF hasElse THEN <<NewBlock(f), NewBlock(f), NewBlock(f)>>
                               ELSE <<NewBlock(f), NewBlock(f)>>
           cmp   == Emit(blocks, contextBlock, [at |-> Here, tag |-> "if"])
           t     == CondBr(tru, fls)
           frame == [kind |-> "if", at |-> Here, entry |-> Heights, hasElse |-> hasElse,
                     arm |-> "true", tru |-> tru, fls |-> fls, after |-> after]
<1>1. /\ frames # << >> /\ status = "compiling"
      /\ UNCHANGED <<funcs, contextFunc, status>>
      /\ contextBlock' = Fresh(2)
  BY DEF BeginIf, StatementAllowed, CanStand
<1>2. blocks' = Terminate(cmp \o made, contextBlock, t)
  BY DEF BeginIf
<1>3. frames' = Append(frames, frame)
  BY DEF BeginIf
<1>4. f = contextFunc /\ f \in Nat \ {0}
  BY <1>1, Now
<1>5. AllOf(made, n, f)
  <2> HIDE DEF f
  <2> QED
    BY <1>4, MadeOf
<1>6. n \in Nat /\ contextBlock \in 1 .. Len(blocks) + n /\ 1 \in 1 .. n /\ 2 \in 1 .. n
  <2>1. n \in Nat /\ 1 \in 1 .. n /\ 2 \in 1 .. n
    OBVIOUS
  <2> HIDE DEF n
  <2> QED
    BY <1>1, <2>1, Now
<1>7. tru \in Block /\ fls \in Block /\ after \in Block
  BY FreshBlocks
<1>8. t \in Term
  <2> HIDE DEF tru, fls
  <2> QED
    BY <1>7, TermTypes
<1>9. Added(blocks, cmp, 0, contextFunc)
  BY <1>1, Now, AddedEmit DEF Tags
<1> HIDE DEF cmp, made, t, f
<1>10. Added(blocks, blocks', n, contextFunc)
  <2> HIDE DEF n
  <2>1. Added(blocks, cmp \o made, 0 + n, contextFunc)
    BY <1>1, <1>4, <1>5, <1>6, <1>9, Now, AddedConcat
  <2>2. Added(blocks, cmp \o made, n, contextFunc)
    BY <2>1, <1>6
  <2>3. Added(blocks, Terminate(cmp \o made, contextBlock, t), n, contextFunc)
    BY <1>1, <1>6, <1>8, <2>2, Now, AddedTerminate
  <2> QED
    BY <1>2, <2>3
<1>11. /\ In(after, contextFunc, blocks') /\ In(tru, contextFunc, blocks')
       /\ In(fls, contextFunc, blocks')
  <2>1. In(Fresh(1), contextFunc, blocks') /\ In(Fresh(2), contextFunc, blocks')
    <3> HIDE DEF n
    <3> QED
      BY <1>6, <1>10, AddedIn
  <2>2. CASE hasElse
    <3>1. In(Fresh(3), contextFunc, blocks')
      <4>1. n = 3 /\ 3 \in 1 .. n
        BY <2>2
      <4> HIDE DEF n
      <4> QED
        BY <1>6, <1>10, <4>1, AddedIn
    <3> QED
      BY <2>1, <2>2, <3>1
  <2>3. CASE ~ hasElse
    BY <2>1, <2>3
  <2> QED
    BY <2>2, <2>3
<1> HIDE DEF n
<1>12. Fresh(2) \in Nat /\ In(Fresh(2), contextFunc, blocks')
  BY <1>7, <1>11 DEF Block
<1> HIDE DEF tru, fls, after
<1>13. /\ frame \in Frame /\ frame.kind = "if"
       /\ frame.tru = tru /\ frame.fls = fls /\ frame.after = after
  BY <1>7, Numbers DEF Frame, IfFrame
<1> HIDE DEF frame
<1>14. FrameOwned(frame, contextFunc, blocks', Len(funcs)) /\ frame.kind # "func"
  BY <1>1, <1>11, <1>13, Now DEF FrameOwned
<1>15. \E form \in Forms : Put("if", 0, form)
  <2>1. Put("if", 0, IF hasElse THEN "else" ELSE "plain")
    BY DEF BeginIf
  <2> QED
    BY <2>1 DEF Forms
<1>16. StacksOK'
  <2>1. /\ contextCondAfter' = Append(contextCondAfter, after)
        /\ contextBlockVariables' = Append(contextBlockVariables, Here)
        /\ UNCHANGED <<contextFuncRetVals, contextLoopBreak, contextLoopContinue>>
    BY DEF BeginIf, after
  <2> QED
    BY <1>7, <2>1, StacksType
<1> QED
  BY <1>1, <1>3, <1>6, <1>10, <1>12, <1>13, <1>14, <1>15, <1>16, OpenStep DEF Ops

\* The jump at the end of the arm that began in block b.
LEMMA ArmAdds ==
  ASSUME TypeOK, OwnedNow, frames # << >>, Top.kind = "if", NEW b, b = Top.tru \/ b = Top.fls
  PROVE  Added(blocks, ArmClosed(b), 0, contextFunc)
<1>1. FrameOwned(Top, contextFunc, blocks, Len(funcs))
  BY TopOwned
<1>2. b \in 1 .. Len(blocks) + 0
  <2>1. In(b, contextFunc, blocks)
    BY <1>1 DEF FrameOwned
  <2> QED
    BY <2>1, Numbers DEF In
<1>3. Br(Top.after) \in Term
  BY TopType, TermTypes
<1>4. Added(blocks, Terminate(blocks, b, Br(Top.after)), 0, contextFunc)
  BY <1>2, <1>3, Now, AddedTerminate
<1> QED
  BY <1>4, Now DEF ArmClosed

\* BeginElse keeps the types and the ownership.
LEMMA BeginElseStep ==
  ASSUME TypeOK, OwnedNow, BeginElse
  PROVE  TypeOK' /\ OwnedNow'
<1> DEFINE g == [Top EXCEPT !.arm = "false"]
<1>1. /\ frames # << >> /\ Top.kind = "if" /\ status = "compiling"
      /\ UNCHANGED <<funcs, contextFunc, stacks, status>>
      /\ contextBlock' = Top.fls
      /\ blocks' = ArmClosed(Top.tru)
      /\ Put("else", Top.at, "plain")
  BY DEF BeginElse, Open
<1>2. Top \in Frame /\ Top = frames[Len(frames)] /\ Len(frames) \in 1 .. Len(frames)
  BY <1>1, Context
<1>3. frames' = [frames EXCEPT ![Len(frames)] = g]
  BY <1>2 DEF BeginElse
<1>4. FrameOwned(Top, contextFunc, blocks, Len(funcs)) /\ Top.kind # "func"
  BY <1>1, TopOwned
<1>5. /\ g \in Frame /\ g.kind = "if"
      /\ g.tru = Top.tru /\ g.fls = Top.fls /\ g.after = Top.after
  <2>1. Top \in IfFrame
    BY <1>1, <1>2, FrameKinds
  <2> HIDE DEF Top
  <2> QED
    BY <2>1 DEF Frame, IfFrame
<1> HIDE DEF g
<1>6. FrameOwned(g, contextFunc, blocks, Len(funcs)) /\ g.kind # "func"
  BY <1>1, <1>4, <1>5 DEF FrameOwned
<1>7. Added(blocks, blocks', 0, contextFunc)
  BY <1>1, ArmAdds
<1>8. contextBlock' \in Nat /\ In(contextBlock', contextFunc, blocks')
  <2>1. In(Top.fls, contextFunc, blocks)
    BY <1>1, <1>4 DEF FrameOwned
  <2>2. Top.fls \in Nat
    BY <1>1, TopType DEF Block
  <2> QED
    BY <1>1, <1>7, <2>1, <2>2, Now, InGrows DEF Added
<1>9. Top.at \in Nat
  BY <1>1, TopType
<1> QED
  BY <1>1, <1>3, <1>4, <1>5, <1>6, <1>7, <1>8, <1>9, GoOnStep DEF Ops, Forms

\* EndIf keeps the types and the ownership.
LEMMA EndIfStep ==
  ASSUME TypeOK, OwnedNow, EndIf
  PROVE  TypeOK' /\ OwnedNow'
<1> DEFINE entry  == IF Top.hasElse THEN Top.fls ELSE Top.tru
           outer  == Front(contextCondAfter)
           closed == ArmClosed(entry)
<1>1. /\ frames # << >> /\ Top.kind = "if" /\ status = "compiling"
      /\ UNCHANGED <<funcs, contextFunc, status>>
      /\ contextBlock' = Top.after /\ frames' = Front(frames)
      /\ Put("endif", Top.at, "plain")
  BY DEF EndIf, Open
<1>2. FrameOwned(Top, contextFunc, blocks, Len(funcs)) /\ Top.kind # "func"
  BY <1>1, TopOwned
<1>3. /\ In(Top.after, contextFunc, blocks) /\ Top.after \in 1 .. Len(blocks) + 0
      /\ Top.after \in Nat /\ Top.at \in Nat
  <2>1. In(Top.after, contextFunc, blocks)
    BY <1>1, <1>2 DEF FrameOwned
  <2>2. Top.after \in Nat /\ Top.at \in Nat
    BY <1>1, TopType DEF Block
  <2>3. Top.after \in 1 .. Len(blocks) + 0
    BY <2>1, Numbers DEF In
  <2> QED
    BY <2>1, <2>2, <2>3
<1>4. Added(blocks, closed, 0, contextFunc)
  BY <1>1, ArmAdds
<1>5. Added(blocks, blocks', 0, contextFunc)
  <2>1. CASE outer # << >>
    <3>1. Br(Last(outer)) \in Term
      <4>1. outer \in Seq(Block)
        BY FrontSeq DEF TypeOK
      <4> HIDE DEF outer
      <4> QED
        BY <2>1, <4>1, FrontType, TermTypes
    <3>2. blocks' = Terminate(closed, Top.after, Br(Last(outer)))
      BY <2>1 DEF EndIf
    <3> HIDE DEF closed, outer
    <3> QED
      BY <1>1, <1>3, <1>4, <3>1, <3>2, Now, AddedTerminate
  <2>2. CASE outer = << >>
    <3>1. blocks' = closed
      BY <2>2 DEF EndIf
    <3> QED
      BY <1>4, <3>1
  <2> QED
    BY <2>1, <2>2
<1>6. In(contextBlock', contextFunc, blocks')
  BY <1>1, <1>3, <1>5, Now, InGrows DEF Added
<1>7. StacksOK'
  <2>1. /\ contextCondAfter' = Front(contextCondAfter)
        /\ contextBlockVariables' = Front(contextBlockVariables)
        /\ UNCHANGED <<contextFuncRetVals, contextLoopBreak, contextLoopContinue>>
    BY DEF EndIf
  <2> QED
    BY <2>1, StacksType
<1> QED
  BY <1>1, <1>2, <1>3, <1>5, <1>6, <1>7, CloseStep DEF Ops, Forms

\* The blocks of a loop are added in three steps: the four blocks of every loop, the
\* bounds check in its condition, that of the element loaded by a range.
LEMMA BeginForStep ==
  ASSUME TypeOK, OwnedNow, NEW form \in {"plain", "checked", "range"}, BeginFor(form)
  PROVE  TypeOK' /\ OwnedNow'
<1> DEFINE f       == blocks[contextBlock].fn
           cond    == Fresh(1)
           body    == Fresh(2)
           post    == Fresh(3)
           after   == Fresh(4)
           made    == [i \in 1 .. 4 |-> NewBlock(f)]
           before  == Emit(blocks, contextBlock, [at |-> Here, tag |-> "init"])
           entered == Terminate(before \o made, contextBlock, Br(cond))
           tested  == IF form = "checked" THEN Checked(entered, cond, Here, f) ELSE entered
           test    == IF form = "checked" THEN Fresh(6) ELSE cond
           looped  == Terminate(Emit(tested, test, [at |-> Here, tag |-> "cond"]), test,
                                CondBr(body, after))
           final   == IF form = "range" THEN Checked(looped, body, Here, f) ELSE looped
           next    == IF form = "range" THEN Fresh(6) ELSE body
           frame   == [kind |-> "for", at |-> Here, entry |-> Heights,
                       cond |-> cond, post |-> post, after |-> after]
           k       == IF form = "checked" THEN 6 ELSE 4
           n       == IF form = "plain" THEN 4 ELSE 6
<1>1. /\ frames # << >> /\ status = "compiling"
      /\ UNCHANGED <<funcs, contextFunc, status>>
  BY DEF BeginFor, StatementAllowed, CanStand
<1>2. blocks' = final
  BY DEF BeginFor
<1>3. contextBlock' = next
  BY DEF BeginFor
<1>4. frames' = Append(frames, frame)
  BY DEF BeginFor
<1>5. f = contextFunc /\ f \in Nat \ {0}
  BY <1>1, Now
<1>6. /\ cond \in Block /\ body \in Block /\ post \in Block /\ after \in Block
      /\ Here \in Nat
  BY FreshBlocks, Numbers
<1>7. AllOf(made, 4, f)
  <2> HIDE DEF f
  <2> QED
    BY <1>5, MadeOf DEF AllOf
<1>8. /\ [at |-> Here, tag |-> "init"] \in Item /\ [at |-> Here, tag |-> "cond"] \in Item
      /\ Br(cond) \in Term /\ CondBr(body, after) \in Term
  <2>1. Br(cond) \in Term /\ CondBr(body, after) \in Term
    <3> HIDE DEF cond, body, after
    <3> QED
      BY <1>6, TermTypes
  <2> QED
    BY <1>6, <2>1 DEF Item, Tags
<1>9. Added(blocks, entered, 4, f)
  <2>1. Added(blocks, before, 0, f)
    BY <1>1, <1>5, <1>8, Now, AddedEmit
  <2>2. contextBlock \in 1 .. Len(blocks) + 4
    BY <1>1, Now
  <2> HIDE DEF before, made, f
  <2>3. Added(blocks, before \o made, 0 + 4, f)
    BY <1>1, <1>7, <2>1, Now, AddedConcat
  <2>4. Added(blocks, before \o made, 4, f)
    BY <2>3
  <2> QED
    BY <1>1, <1>8, <2>2, <2>4, Now, AddedTerminate
<1>10. /\ blocks \in Seq(BasicBlock) /\ k \in Nat /\ test \in 1 .. Len(blocks) + k
       /\ cond \in 1 .. Len(blocks) + 4 /\ body \in 1 .. Len(blocks) + k
  <2>1. /\ blocks \in Seq(BasicBlock) /\ Len(blocks) \in Nat
        /\ Fresh(1) = Len(blocks) + 1 /\ Fresh(2) = Len(blocks) + 2
        /\ Fresh(6) = Len(blocks) + 6
    <3>1. blocks \in Seq(BasicBlock)
      BY DEF TypeOK
    <3> QED
      BY <3>1, Numbers
  <2> QED
    BY <2>1
<1> HIDE DEF f, entered
<1>11. Added(blocks, tested, k, f)
  <2>1. CASE form = "checked"
    <3>1. Added(blocks, Checked(entered, cond, Here, f), 4 + 2, f)
      BY <1>5, <1>6, <1>9, <1>10, CheckedAdds
    <3> QED
      BY <2>1, <3>1
  <2>2. CASE form # "checked"
    BY <2>2, <1>9
  <2> QED
    BY <2>1, <2>2
<1> HIDE DEF tested, test
<1>12. Added(blocks, looped, k, f)
  <2> HIDE DEF k
  <2>1. Added(blocks, Emit(tested, test, [at |-> Here, tag |-> "cond"]), k, f)
    BY <1>8, <1>10, <1>11, AddedEmit
  <2> QED
    BY <1>8, <1>10, <2>1, AddedTerminate
<1> HIDE DEF looped
<1>13. Added(blocks, final, n, f)
  <2>1. CASE form = "range"
    <3>1. k = 4 /\ n = 4 + 2
      BY <2>1
    <3> HIDE DEF k
    <3>2. Added(blocks, Checked(looped, body, Here, f), 4 + 2, f)
      BY <1>5, <1>6, <1>10, <1>12, <3>1, CheckedAdds
    <3> QED
      BY <2>1, <3>1, <3>2
  <2>2. CASE form # "range"
    BY <2>2, <1>12
  <2> QED
    BY <2>1, <2>2
<1> HIDE DEF final
<1>14. Added(blocks, blocks', n, contextFunc)
  BY <1>2, <1>5, <1>13
<1>15. /\ In(cond, contextFunc, blocks') /\ In(body, contextFunc, blocks')
       /\ In(post, contextFunc, blocks') /\ In(after, contextFunc, blocks')
  <2>1. n \in Nat /\ 1 \in 1 .. n /\ 2 \in 1 .. n /\ 3 \in 1 .. n /\ 4 \in 1 .. n
    OBVIOUS
  <2> HIDE DEF n
  <2> QED
    BY <1>14, <2>1, AddedIn
<1>16. contextBlock' \in Nat /\ In(contextBlock', contextFunc, blocks')
  <2>1. CASE form = "range"
    <3>1. n = 6 /\ 6 \in 1 .. n
      BY <2>1
    <3>2. Fresh(6) \in Nat /\ In(Fresh(6), contextFunc, blocks')
      <4> HIDE DEF n
      <4> QED
        BY <1>14, <3>1, AddedIn
    <3> QED
      BY <1>3, <2>1, <3>2
  <2>2. CASE form # "range"
    BY <1>3, <1>6, <1>15, <2>2 DEF Block
  <2> QED
    BY <2>1, <2>2
<1>17. StacksOK'
  <2>1. /\ contextLoopBreak' = Append(contextLoopBreak, after)
        /\ contextLoopContinue' = Append(contextLoopContinue, post)
        /\ UNCHANGED <<contextFuncRetVals, contextBlockVariables, contextCondAfter>>
    BY DEF BeginFor, PushLoop
  <2> HIDE DEF after, post
  <2> QED
    BY <1>6, <2>1, StacksType
<1>18. \E form1 \in Forms : Put("for", 0, form1)
  BY DEF BeginFor, Forms
<1> HIDE DEF cond, body, post, after
<1>19. /\ frame \in Frame /\ frame.kind = "for"
       /\ frame.cond = cond /\ frame.post = post /\ frame.after = after
  BY <1>6, Numbers DEF Frame, ForFrame
<1> HIDE DEF frame
<1>20. FrameOwned(frame, contextFunc, blocks', Len(funcs)) /\ frame.kind # "func"
  BY <1>1, <1>15, <1>19, Now DEF FrameOwned
<1>21. n \in Nat
  OBVIOUS
<1> HIDE DEF n
<1> QED
  BY <1>1, <1>4, <1>14, <1>16, <1>17, <1>18, <1>19, <1>20, <1>21, OpenStep DEF Ops

\* EndFor keeps the types and the ownership.
LEMMA EndForStep ==
  ASSUME TypeOK, OwnedNow, EndFor
  PROVE  TypeOK' /\ OwnedNow'
<1> DEFINE bodyEnded == Terminate(blocks, contextBlock, Br(Top.post))
           stepped   == Emit(bodyEnded, Top.post, [at |-> Top.at, tag |-> "post"])
<1>1. /\ frames # << >> /\ Top.kind = "for" /\ status = "compiling"
      /\ UNCHANGED <<funcs, contextFunc, status>>
      /\ contextBlock' = Top.after /\ frames' = Front(frames)
      /\ Put("endfor", Top.at, "plain")
  BY DEF EndFor, Open
<1>2. blocks' = Terminate(stepped, Top.post, Br(Top.cond))
  BY DEF EndFor
<1>3. FrameOwned(Top, contextFunc, blocks, Len(funcs)) /\ Top.kind # "func"
  BY <1>1, TopOwned
<1>4. In(Top.post, contextFunc, blocks) /\ In(Top.after, contextFunc, blocks)
  BY <1>1, <1>3 DEF FrameOwned
<1>5. Top.post \in Block /\ Top.cond \in Block /\ Top.after \in Block /\ Top.at \in Nat
  BY <1>1, TopType
<1>6. Top.post \in 1 .. Len(blocks) + 0
  BY <1>4, Numbers DEF In
<1>7. /\ Br(Top.post) \in Term /\ Br(Top.cond) \in Term
      /\ [at |-> Top.at, tag |-> "post"] \in Item
  BY <1>5, TermTypes DEF Item, Tags
<1>8. Added(blocks, blocks', 0, contextFunc)
  <2>1. Added(blocks, bodyEnded, 0, contextFunc)
    BY <1>1, <1>7, Now, AddedTerminate
  <2> HIDE DEF bodyEnded
  <2>2. Added(blocks, stepped, 0, contextFunc)
    BY <1>1, <1>6, <1>7, <2>1, Now, AddedEmit
  <2> HIDE DEF stepped
  <2> QED
    BY <1>1, <1>2, <1>6, <1>7, <2>2, Now, AddedTerminate
<1>9. contextBlock' \in Nat /\ In(contextBlock', contextFunc, blocks')
  BY <1>1, <1>4, <1>5, <1>8, Now, InGrows DEF Added, Block
<1>10. StacksOK'
  <2>1. /\ contextLoopBreak' = Front(contextLoopBreak)
        /\ contextLoopContinue' = Front(contextLoopContinue)
        /\ UNCHANGED <<contextFuncRetVals, contextBlockVariables, contextCondAfter>>
    BY DEF EndFor, PopLoop
  <2> QED
    BY <2>1, StacksType
<1> QED
  BY <1>1, <1>3, <1>5, <1>8, <1>9, <1>10, CloseStep DEF Ops, Forms

\* Break keeps the types and the ownership.
LEMMA BreakStep ==
  ASSUME TypeOK, OwnedNow, Break
  PROVE  TypeOK' /\ OwnedNow'
<1>1. /\ frames # << >> /\ status = "compiling"
      /\ UNCHANGED <<funcs, contextFunc, contextBlock, stacks, frames>>
  BY DEF Break, JumpAllowed, StatementAllowed, CanStand
<1>2. PICK of \in Nat : Put("break", of, "plain")
  <2>1. BreakablesOpen \in SUBSET (DOMAIN frames) /\ BreakablesOpen # {}
    BY DEF Break, BreakablesOpen
  <2>2. frames[InnermostOf(BreakablesOpen)].at \in Nat
    BY <2>1, InnermostType, TargetType
  <2>3. Put("break", frames[InnermostOf(BreakablesOpen)].at, "plain")
    BY DEF Break
  <2> QED
    BY <2>2, <2>3
<1>3. PICK t :
        \/ t \in Term /\ blocks' = Terminate(blocks, contextBlock, t) /\ status' = status
        \/ blocks' = blocks /\ status' = "failed"
  <2>1. CASE contextLoopBreak # << >>
    <3>1. Br(Last(contextLoopBreak)) \in Term
      BY <2>1, FrontType, TermTypes DEF TypeOK
    <3> QED
      BY <2>1, <3>1 DEF Break
  <2>2. CASE contextLoopBreak = << >>
    BY <2>2 DEF Break
  <2> QED
    BY <2>1, <2>2
<1>4. Added(blocks, blocks, 0, contextFunc)
  BY <1>1, Now
<1> QED
  BY <1>1, <1>2, <1>3, <1>4, JumpStep DEF Ops, Forms

\* Continue keeps the types and the ownership.
LEMMA ContinueStep ==
  ASSUME TypeOK, OwnedNow, Continue
  PROVE  TypeOK' /\ OwnedNow'
<1>1. /\ frames # << >> /\ status = "compiling"
      /\ UNCHANGED <<funcs, contextFunc, contextBlock, stacks, frames>>
  BY DEF Continue, JumpAllowed, StatementAllowed, CanStand
<1>2. PICK of \in Nat : Put("continue", of, "plain")
  <2>1. LoopsOpen \in SUBSET (DOMAIN frames) /\ LoopsOpen # {}
    BY DEF Continue, LoopsOpen
  <2>2. frames[InnermostOf(LoopsOpen)].at \in Nat
    BY <2>1, InnermostType, TargetType
  <2>3. Put("continue", frames[InnermostOf(LoopsOpen)].at, "plain")
    BY DEF Continue
  <2> QED
    BY <2>2, <2>3
<1>3. PICK t :
        \/ t \in Term /\ blocks' = Terminate(blocks, contextBlock, t) /\ status' = status
        \/ blocks' = blocks /\ status' = "failed"
  <2>1. CASE contextLoopContinue # << >>
    <3>1. Br(Last(contextLoopContinue)) \in Term
      BY <2>1, FrontType, TermTypes DEF TypeOK
    <3> QED
      BY <2>1, <3>1 DEF Continue
  <2>2. CASE contextLoopContinue = << >>
    BY <2>2 DEF Continue
  <2> QED
    BY <2>1, <2>2
<1>4. Added(blocks, blocks, 0, contextFunc)
  BY <1>1, Now
<1> QED
  BY <1>1, <1>2, <1>3, <1>4, JumpStep DEF Ops, Forms

\* BeginSwitch keeps the types and the ownership.
LEMMA BeginSwitchStep ==
  ASSUME TypeOK, OwnedNow, NEW hasDefault \in BOOLEAN, BeginSwitch(hasDefault)
  PROVE  TypeOK' /\ OwnedNow'
<1> DEFINE f     == blocks[contextBlock].fn
           after == Fresh(1)
           dflt  == Fresh(2)
           item  == Emit(blocks, contextBlock, [at |-> Here, tag |-> "switch"])
           made  == item \o <<NewBlock(f), NewBlock(f)>>
           frame == [kind |-> "switch", at |-> Here, entry |-> Heights,
                     hasDefault |-> hasDefault,
                     open |-> IF hasDefault THEN "default" ELSE "none", pre |-> contextBlock,
                     dflt |-> dflt, after |-> after, cases |-> << >>, through |-> << >>]
<1>1. /\ frames # << >> /\ status = "compiling"
      /\ UNCHANGED <<funcs, contextFunc, stacks, status>>
  BY DEF BeginSwitch, StatementAllowed, CanStand
<1>2. blocks' = IF hasDefault THEN made ELSE Terminate(made, dflt, Br(after))
  BY DEF BeginSwitch
<1>3. contextBlock' = IF hasDefault THEN dflt ELSE contextBlock
  BY DEF BeginSwitch
<1>4. frames' = Append(frames, frame)
  BY DEF BeginSwitch
<1>5. f = contextFunc /\ f \in Nat \ {0}
  BY <1>1, Now
<1>6. after \in Block /\ dflt \in Block /\ dflt \in 1 .. Len(blocks) + 2
  <2>1. after \in Block /\ dflt \in Block
    BY FreshBlocks
  <2>2. Len(blocks) \in Nat /\ dflt = Len(blocks) + 2
    BY Numbers
  <2> HIDE DEF dflt, after
  <2> QED
    BY <2>1, <2>2
<1>7. Br(after) \in Term
  <2> HIDE DEF after
  <2> QED
    BY <1>6, TermTypes
<1>8. Added(blocks, made, 2, contextFunc)
  <2>1. Added(blocks, item, 0, contextFunc)
    BY <1>1, Now, AddedEmit DEF Tags
  <2>2. AllOf(<<NewBlock(f), NewBlock(f)>>, 2, f)
    <3> HIDE DEF f
    <3> QED
      BY <1>5, MadeOf
  <2> HIDE DEF item, f
  <2>3. Added(blocks, made, 0 + 2, contextFunc)
    BY <1>1, <1>5, <2>1, <2>2, Now, AddedConcat
  <2> QED
    BY <2>3
<1> HIDE DEF made
<1>9. Added(blocks, blocks', 2, contextFunc)
  <2>1. Added(blocks, Terminate(made, dflt, Br(after)), 2, contextFunc)
    BY <1>1, <1>6, <1>7, <1>8, Now, AddedTerminate
  <2> QED
    BY <1>2, <1>8, <2>1
<1>10. In(after, contextFunc, blocks') /\ In(dflt, contextFunc, blocks')
  <2>1. 1 \in 1 .. 2 /\ 2 \in 1 .. 2
    OBVIOUS
  <2> QED
    BY <1>9, <2>1, AddedIn
<1>11. In(contextBlock, contextFunc, blocks') /\ contextBlock \in Block
  <2>1. In(contextBlock, contextFunc, blocks) /\ contextBlock \in 1 .. Len(blocks)
    BY <1>1, Context
  <2>2. contextBlock \in Block
    BY <2>1, Numbers DEF Block
  <2> QED
    BY <1>1, <1>9, <2>1, <2>2, Now, InGrows DEF Added
<1>12. \/ contextBlock' = contextBlock
       \/ contextBlock' \in Nat /\ In(contextBlock', contextFunc, blocks')
  BY <1>3, <1>6, <1>10 DEF Block
<1> HIDE DEF dflt, after
<1>13. /\ frame \in Frame /\ frame.kind = "switch"
       /\ frame.pre = contextBlock /\ frame.dflt = dflt /\ frame.after = after
  BY <1>6, <1>11, Numbers DEF Frame, SwitchFrame
<1> HIDE DEF frame
<1>14. FrameOwned(frame, contextFunc, blocks', Len(funcs)) /\ frame.kind # "func"
  BY <1>1, <1>10, <1>11, <1>13, Now DEF FrameOwned
<1>15. \E form \in Forms : Put("switch", 0, form)
  <2>1. Put("switch", 0, IF hasDefault THEN "default" ELSE "plain")
    BY DEF BeginSwitch
  <2> QED
    BY <2>1 DEF Forms
<1>16. StacksOK'
  BY <1>1, StacksKept
<1> QED
  BY <1>1, <1>4, <1>9, <1>12, <1>13, <1>14, <1>15, <1>16, OpenStep DEF Ops

\* The blocks of an open switch.
LEMMA SwitchOwned ==
  ASSUME TypeOK, OwnedNow, frames # << >>, Top.kind = "switch"
  PROVE  /\ In(Top.pre, contextFunc, blocks) /\ In(Top.dflt, contextFunc, blocks)
         /\ In(Top.after, contextFunc, blocks)
         /\ Top.pre \in Nat /\ Top.at \in Nat /\ Top.after \in Block /\ Top.dflt \in Block
         /\ Top.dflt \in 1 .. Len(blocks) + 0
         /\ Top \in SwitchFrame /\ Top = frames[Len(frames)]
         /\ Len(frames) \in 1 .. Len(frames)
<1>1. FrameOwned(Top, contextFunc, blocks, Len(funcs))
  BY TopOwned
<1>2. /\ In(Top.pre, contextFunc, blocks) /\ In(Top.dflt, contextFunc, blocks)
      /\ In(Top.after, contextFunc, blocks)
  BY <1>1 DEF FrameOwned
<1>3. Top.pre \in Nat /\ Top.at \in Nat /\ Top.after \in Block /\ Top.dflt \in Block
  BY TopType DEF Block
<1>4. Top.dflt \in 1 .. Len(blocks) + 0
  BY <1>2, Numbers DEF In
<1>5. Top \in SwitchFrame /\ Top = frames[Len(frames)] /\ Len(frames) \in 1 .. Len(frames)
  BY Context, FrameKinds
<1> QED
  BY <1>2, <1>3, <1>4, <1>5

\* EndDefault keeps the types and the ownership.
LEMMA EndDefaultStep ==
  ASSUME TypeOK, OwnedNow, EndDefault
  PROVE  TypeOK' /\ OwnedNow'
<1> DEFINE g == [Top EXCEPT !.open = "none"]
<1>1. /\ frames # << >> /\ Top.kind = "switch" /\ status = "compiling"
      /\ UNCHANGED <<funcs, contextFunc, stacks, status>>
      /\ contextBlock' = Top.pre
      /\ blocks' = Terminate(blocks, Top.dflt, Br(Top.after))
      /\ Put("enddefault", Top.at, "plain")
  BY DEF EndDefault, Open
<1>2. frames' = [frames EXCEPT ![Len(frames)] = g]
  BY <1>1, SwitchOwned DEF EndDefault
<1>3. /\ g \in Frame /\ g.kind = "switch"
      /\ g.pre = Top.pre /\ g.dflt = Top.dflt /\ g.after = Top.after
  <2>1. Top \in SwitchFrame
    BY <1>1, SwitchOwned
  <2> HIDE DEF Top
  <2> QED
    BY <2>1 DEF Frame, SwitchFrame
<1> HIDE DEF g
<1>4. FrameOwned(g, contextFunc, blocks, Len(funcs)) /\ g.kind # "func"
  BY <1>1, <1>3, SwitchOwned, Now DEF FrameOwned
<1>5. Added(blocks, blocks', 0, contextFunc)
  <2>1. Br(Top.after) \in Term
    BY <1>1, SwitchOwned, TermTypes
  <2> QED
    BY <1>1, <2>1, SwitchOwned, Now, AddedTerminate
<1>6. contextBlock' \in Nat /\ In(contextBlock', contextFunc, blocks')
  BY <1>1, <1>5, SwitchOwned, Now, InGrows DEF Added
<1>7. Top.at \in Nat /\ Top.kind # "func"
  BY <1>1, SwitchOwned
<1> QED
  BY <1>1, <1>2, <1>3, <1>4, <1>5, <1>6, <1>7, GoOnStep DEF Ops, Forms

\* BeginCase keeps the types and the ownership.
LEMMA BeginCaseStep ==
  ASSUME TypeOK, OwnedNow, BeginCase
  PROVE  TypeOK' /\ OwnedNow'
<1> DEFINE g == [Top EXCEPT !.open = "case", !.cases = Append(@, Fresh(1))]
<1>1. /\ frames # << >> /\ Top.kind = "switch" /\ status = "compiling"
      /\ UNCHANGED <<funcs, contextFunc, stacks, status>>
      /\ contextBlock' = Fresh(1)
      /\ Put("case", Top.at, "plain")
  BY DEF BeginCase, Open
<1>2. frames' = [frames EXCEPT ![Len(frames)] = g]
  <2>1. /\ Top \in SwitchFrame /\ Top = frames[Len(frames)]
        /\ Len(frames) \in DOMAIN frames
    BY <1>1, SwitchOwned DEF TypeOK
  <2>2. frames' = [frames EXCEPT ![Len(frames)].open  = "case",
                                 ![Len(frames)].cases = Append(@, Fresh(1))]
    BY DEF BeginCase
  <2> QED
    BY <2>1, <2>2 DEF SwitchFrame
<1>3. /\ g \in Frame /\ g.kind = "switch"
      /\ g.pre = Top.pre /\ g.dflt = Top.dflt /\ g.after = Top.after
  <2>1. Top \in SwitchFrame /\ Fresh(1) \in Block
    BY <1>1, SwitchOwned, FreshBlocks
  <2>2. Append(Top.cases, Fresh(1)) \in Seq(Block)
    BY <2>1, AppendType DEF SwitchFrame
  <2> HIDE DEF Top
  <2> QED
    BY <2>1, <2>2 DEF Frame, SwitchFrame
<1> HIDE DEF g
<1>4. FrameOwned(g, contextFunc, blocks, Len(funcs)) /\ g.kind # "func"
  BY <1>1, <1>3, SwitchOwned, Now DEF FrameOwned
<1>5. Added(blocks, blocks', 1, contextFunc)
  <2>1. blocks' = blocks \o <<NewBlock(contextFunc)>>
    <3>1. blocks' = Append(blocks, NewBlock(contextFunc))
      BY <1>1, Now DEF BeginCase
    <3>2. NewBlock(contextFunc) \in BasicBlock /\ blocks \in Seq(BasicBlock)
      BY <1>1, Now, MadeOf
    <3> QED
      BY <3>1, <3>2, AppendIsConcat
  <2>2. AllOf(<<NewBlock(contextFunc)>>, 1, contextFunc)
    BY <1>1, Now, MadeOf
  <2>3. Added(blocks, blocks \o <<NewBlock(contextFunc)>>, 0 + 1, contextFunc)
    BY <1>1, <2>2, Now, AddedConcat
  <2> QED
    BY <2>1, <2>3
<1>6. contextBlock' \in Nat /\ In(contextBlock', contextFunc, blocks')
  BY <1>1, <1>5, AddedIn
<1>7. Top.at \in Nat /\ Top.kind # "func"
  BY <1>1, SwitchOwned
<1> QED
  BY <1>1, <1>2, <1>3, <1>4, <1>5, <1>6, <1>7, GoOnStep DEF Ops, Forms

\* EndCase keeps the types and the ownership.
LEMMA EndCaseStep ==
  ASSUME TypeOK, OwnedNow, NEW fallthrough \in BOOLEAN, EndCase(fallthrough)
  PROVE  TypeOK' /\ OwnedNow'
<1> DEFINE g == [Top EXCEPT !.open = "none", !.through = Append(@, fallthrough)]
<1>1. /\ frames # << >> /\ Top.kind = "switch" /\ status = "compiling"
      /\ UNCHANGED <<blocks, funcs, contextFunc, stacks, status>>
      /\ contextBlock' = Top.pre
  BY DEF EndCase, Open
<1>2. frames' = [frames EXCEPT ![Len(frames)] = g]
  <2>1. /\ Top \in SwitchFrame /\ Top = frames[Len(frames)]
        /\ Len(frames) \in DOMAIN frames
    BY <1>1, SwitchOwned DEF TypeOK
  <2>2. frames' = [frames EXCEPT ![Len(frames)].open    = "none",
                                 ![Len(frames)].through = Append(@, fallthrough)]
    BY DEF EndCase
  <2> QED
    BY <2>1, <2>2 DEF SwitchFrame
<1>3. /\ g \in Frame /\ g.kind = "switch"
      /\ g.pre = Top.pre /\ g.dflt = Top.dflt /\ g.after = Top.after
  <2>1. Top \in SwitchFrame
    BY <1>1, SwitchOwned
  <2>2. Append(Top.through, fallthrough) \in Seq(BOOLEAN)
    BY <2>1, AppendType DEF SwitchFrame
  <2> HIDE DEF Top
  <2> QED
    BY <2>1, <2>2 DEF Frame, SwitchFrame
<1> HIDE DEF g
<1>4. FrameOwned(g, contextFunc, blocks, Len(funcs)) /\ g.kind # "func"
  BY <1>1, <1>3, SwitchOwned, Now DEF FrameOwned
<1>5. Added(blocks, blocks', 0, contextFunc)
  BY <1>1, Now
<1>6. contextBlock' \in Nat /\ In(contextBlock', contextFunc, blocks')
  BY <1>1, SwitchOwned
<1>7. Top.at \in Nat /\ Top.kind # "func"
  BY <1>1, SwitchOwned
<1>8. \E op \in Ops : Put(op, Top.at, "plain")
  <2>1. Put(IF fallthrough THEN "fallthrough" ELSE "endcase", Top.at, "plain")
    BY DEF EndCase
  <2> QED
    BY <2>1 DEF Ops
<1> QED
  BY <1>1, <1>2, <1>3, <1>4, <1>5, <1>6, <1>7, <1>8, GoOnStep DEF Forms

\* EndSwitch keeps the types and the ownership.
LEMMA EndSwitchStep ==
  ASSUME TypeOK, OwnedNow, EndSwitch
  PROVE  TypeOK' /\ OwnedNow'
<1> DEFINE n       == Len(Top.cases)
           falls   == n > 0 /\ Top.through[n]
           exit(i) == IF Top.through[i] THEN Top.cases[i + 1] ELSE Top.after
           case(b) == CHOOSE i \in 1 .. n : Top.cases[i] = b
           ended   == [b \in DOMAIN blocks |->
                         IF \E i \in 1 .. n : Top.cases[i] = b
                           THEN [blocks[b] EXCEPT !.term = Br(exit(case(b)))]
                           ELSE blocks[b]]
           t       == Switch(<<Top.dflt>> \o Top.cases)
<1>1. /\ frames # << >> /\ Top.kind = "switch" /\ status = "compiling"
      /\ UNCHANGED <<funcs, contextFunc, stacks>>
      /\ Put("endswitch", Top.at, "plain")
  BY DEF EndSwitch, Open
<1>2. Top.cases \in Seq(Block) /\ n \in Nat /\ Top.after \in Block /\ Top.at \in Nat
  <2>1. Top \in SwitchFrame
    BY <1>1, SwitchOwned
  <2> HIDE DEF Top
  <2> QED
    BY <2>1, LenProperties DEF SwitchFrame
<1>3. Top.kind # "func"
  BY <1>1
<1>4. CASE falls
  <2>1. blocks' = blocks /\ contextBlock' = contextBlock /\ frames' = frames /\ status' = "failed"
    BY <1>4 DEF EndSwitch
  <2>2. Added(blocks, blocks', 0, contextFunc)
    BY <1>1, <2>1, Now
  <2> QED
    BY <1>1, <1>2, <2>1, <2>2, StraightStep DEF Ops, Forms
<1>5. CASE ~ falls
  <2>1. /\ blocks' = Terminate(ended, contextBlock, t)
        /\ contextBlock' = Top.after /\ frames' = Front(frames) /\ status' = status
    BY <1>5 DEF EndSwitch
  <2>2. \A i \in 1 .. n : exit(i) \in Block
    <3> TAKE i \in 1 .. n
    <3>1. CASE i = n
      BY <1>2, <1>5, <3>1
    <3>2. CASE i # n
      <4>1. i + 1 \in 1 .. n
        BY <1>2, <3>2
      <4>2. Top.cases[i + 1] \in Block
        BY <1>2, <4>1, ElementOfSeq
      <4> QED
        BY <1>2, <4>2
    <3> QED
      BY <3>1, <3>2
  <2>3. \A b \in 1 .. Len(blocks) : ended[b] \in BasicBlock /\ ended[b].fn = blocks[b].fn
    <3> TAKE b \in 1 .. Len(blocks)
    <3>1. blocks[b] \in BasicBlock /\ DOMAIN blocks = 1 .. Len(blocks)
      BY ElementOfSeq, LenProperties DEF TypeOK
    <3>2. CASE \E i \in 1 .. n : Top.cases[i] = b
      <4>1. case(b) \in 1 .. n
        BY <3>2
      <4>2. exit(case(b)) \in Block
        BY <4>1, <2>2
      <4> HIDE DEF exit, case
      <4>3. Br(exit(case(b))) \in Term
        BY <4>2, TermTypes
      <4>4. ended[b] = [blocks[b] EXCEPT !.term = Br(exit(case(b)))]
        BY <3>1, <3>2
      <4> HIDE DEF ended
      <4> QED
        BY <3>1, <4>3, <4>4 DEF BasicBlock
    <3>3. CASE ~ \E i \in 1 .. n : Top.cases[i] = b
      <4>1. ended[b] = blocks[b]
        BY <3>1, <3>3
      <4> HIDE DEF ended
      <4> QED
        BY <3>1, <4>1
    <3> QED
      BY <3>2, <3>3
  <2>4. Added(blocks, ended, 0, contextFunc)
    <3>1. blocks \in Seq(BasicBlock) /\ DOMAIN blocks = 1 .. Len(blocks) /\ Len(blocks) \in Nat
      BY LenProperties DEF TypeOK
    <3>2. ended = [b \in 1 .. Len(blocks) |-> ended[b]]
      BY <3>1
    <3> HIDE DEF ended
    <3>3. ended \in Seq(BasicBlock) /\ Len(ended) = Len(blocks)
      BY <2>3, <3>1, <3>2, IsASeq
    <3> QED
      BY <2>3, <3>1, <3>3 DEF Added, Grows
  <2>5. t \in Term
    <3>1. <<Top.dflt>> \in Seq(Block)
      BY <1>1, SwitchOwned
    <3>2. <<Top.dflt>> \o Top.cases \in Seq(Block)
      BY <1>2, <3>1, ConcatProperties
    <3> QED
      BY <3>2, TermTypes
  <2> HIDE DEF ended, t
  <2>6. Added(blocks, blocks', 0, contextFunc)
    BY <1>1, <2>1, <2>4, <2>5, Now, AddedTerminate
  <2>7. contextBlock' \in Nat /\ In(contextBlock', contextFunc, blocks')
    BY <1>1, <1>2, <2>1, <2>6, SwitchOwned, Now, InGrows DEF Added, Block
  <2>8. StacksOK'
    BY <1>1, StacksKept
  <2> QED
    BY <1>1, <1>2, <1>3, <2>1, <2>6, <2>7, <2>8, CloseStep DEF Ops, Forms
<1> QED
  BY <1>4, <1>5

-----------------------------------------------------------------------------
(* Functions                                                                 *)

\* A function body is entered, at package level or in the middle of another body.
LEMMA EnterStep ==
  ASSUME TypeOK, OwnedNow, status = "compiling",
         NEW fn \in Nat \ {0}, NEW entry \in Nat, NEW results \in Nat,
         EnterFunc(fn, entry, results),
         Grows(blocks, blocks'), In(entry, fn, blocks'),
         funcs' \in Seq(Func), Len(funcs) <= Len(funcs'), fn \in 1 .. Len(funcs'),
         NEW op \in Ops, NEW of \in Nat, NEW form \in Forms, Put(op, of, form)
  PROVE  TypeOK' /\ OwnedNow'
<1> DEFINE frame == [kind |-> "func", at |-> Here, entry |-> Heights, fn |-> fn,
                     prevFunc |-> contextFunc, prevBlock |-> contextBlock]
<1>1. /\ contextFunc' = fn /\ contextBlock' = entry
      /\ contextBlockVariables' = Append(contextBlockVariables, Here)
      /\ frames' = Append(frames, frame)
      /\ UNCHANGED <<contextLoopBreak, contextLoopContinue, contextCondAfter, status>>
  BY DEF EnterFunc
<1>2. contextFuncRetVals' \in Seq(RetVals)
  <2>1. CASE results > 0
    <3>1. [fn |-> fn, n |-> results] \in RetVals
      BY <2>1 DEF RetVals
    <3>2. contextFuncRetVals' = Append(contextFuncRetVals, [fn |-> fn, n |-> results])
      BY <2>1 DEF EnterFunc, PushRetVals
    <3> QED
      BY <3>1, <3>2, AppendType DEF TypeOK
  <2>2. CASE ~ (results > 0)
    BY <2>2 DEF EnterFunc, PushRetVals, TypeOK
  <2> QED
    BY <2>1, <2>2
<1>3. contextBlockVariables' \in Seq(Nat)
  <2>1. Here \in Nat
    BY Numbers
  <2> QED
    BY <1>1, <2>1, AppendType DEF TypeOK
<1>4. /\ frame \in Frame /\ frame.kind = "func" /\ frame.fn = fn
      /\ frame.prevFunc = contextFunc /\ frame.prevBlock = contextBlock
  <2>1. contextFunc \in Nat /\ contextBlock \in Nat
    BY DEF TypeOK
  <2> QED
    BY <2>1, Numbers DEF Frame, FuncFrame
<1> HIDE DEF frame
<1>5. FrameOwned(frame, contextFunc, blocks', Len(funcs'))
  <2>1. /\ contextFunc = 0 => contextBlock = 0
        /\ contextFunc # 0 => In(contextBlock, contextFunc, blocks')
    BY InGrows DEF OwnedNow, Owned, TypeOK
  <2> QED
    BY <1>4, <2>1 DEF FrameOwned
<1>6. OwnerOf(frame, blocks') = fn
  BY <1>4 DEF OwnerOf
<1>7. OwnedNow'
  <2>1. Len(funcs') \in Nat
    BY LenProperties
  <2> QED
    BY <1>1, <1>4, <1>5, <1>6, <2>1, PushStep
<1>8. frames' \in Seq(Frame)
  BY <1>1, <1>4, AppendType DEF TypeOK
<1>9. src' \in Seq(Token)
  BY PutType
<1> QED
  BY <1>1, <1>2, <1>3, <1>7, <1>8, <1>9 DEF TypeOK, Grows

\* BeginMain keeps the types and the ownership.
LEMMA BeginMainStep ==
  ASSUME TypeOK, OwnedNow, BeginMain
  PROVE  TypeOK' /\ OwnedNow'
<1>1. /\ status = "compiling" /\ EnterFunc(Main, 2, 0)
      /\ funcs' = [funcs EXCEPT ![Main].at = Here]
      /\ Put("func", 0, "main") /\ blocks' = blocks
  BY DEF BeginMain
<1>2. Grows(blocks, blocks') /\ In(2, Main, blocks')
  BY <1>1, GrowsRefl DEF TypeOK, OwnedNow
<1>3. /\ funcs' \in Seq(Func) /\ Len(funcs') = Len(funcs)
  <2> DEFINE g == [funcs[Main] EXCEPT !.at = Here]
  <2>1. Main \in 1 .. Len(funcs) /\ Here \in Nat
    BY Numbers DEF Main
  <2>2. funcs[Main] \in Func
    BY <2>1, ElementOfSeq DEF TypeOK
  <2>3. g \in Func
    BY <2>1, <2>2 DEF Func
  <2>4. funcs' = [funcs EXCEPT ![Main] = g]
    BY <1>1
  <2> HIDE DEF g
  <2> QED
    BY <2>1, <2>3, <2>4, ExceptSeq DEF TypeOK
<1>4. Main \in Nat \ {0} /\ Main \in 1 .. Len(funcs') /\ Len(funcs) <= Len(funcs')
  BY <1>3, Numbers DEF Main
<1> QED
  BY <1>1, <1>2, <1>3, <1>4, EnterStep DEF Ops, Forms

\* A new function is a function of the module.
LEMMA NewFuncType ==
  ASSUME TypeOK, OwnedNow,
         NEW kind \in {"init", "named", "method", "jump", "literal"}, NEW results \in Nat,
         NEW entry \in Block, NEW complete \in BOOLEAN
  PROVE  NewFunc(kind, results, entry, complete) \in Func
<1>1. Here \in Nat
  BY Numbers
<1> QED
  BY <1>1 DEF NewFunc, Func

\* BeginFunc keeps the types and the ownership.
LEMMA BeginFuncStep ==
  ASSUME TypeOK, OwnedNow, NEW kind \in {"init", "named", "method", "literal"},
         NEW results \in 0 .. 2, BeginFunc(kind, results)
  PROVE  TypeOK' /\ OwnedNow'
<1> DEFINE f     == Len(funcs) + 1
           entry == NewBlock(f)
           jump  == BlockOf(f + 1, << >>, IF results = 1 THEN RetVal ELSE RetVoid)
           call  == Emit(blocks, 1, [at |-> Here, tag |-> "call"])
           made  == <<NewFunc(kind, results, Fresh(1), FALSE)>>
           more  == IF kind = "method" THEN <<NewFunc("jump", results, Fresh(2), TRUE)>>
                                       ELSE << >>
<1>1. status = "compiling" /\ EnterFunc(f, Fresh(1), results) /\ Put("func", 0, kind)
  BY DEF BeginFunc
<1>2. /\ kind = "init" => blocks' = Append(call, entry)
      /\ kind = "method" => blocks' = blocks \o <<entry, jump>>
      /\ kind \notin {"init", "method"} => blocks' = Append(blocks, entry)
  BY DEF BeginFunc
<1>3. funcs' = Append(funcs, NewFunc(kind, results, Fresh(1), FALSE)) \o more
  BY DEF BeginFunc
<1>4. /\ f \in Nat \ {0} /\ f + 1 \in Nat \ {0} /\ results \in Nat
      /\ blocks \in Seq(BasicBlock) /\ 1 \in 1 .. Len(blocks) /\ Len(blocks) \in Nat
      /\ Fresh(1) \in Block /\ Fresh(2) \in Block /\ Fresh(1) = Len(blocks) + 1
      /\ [at |-> Here, tag |-> "call"] \in Item
  <2>1. f \in Nat \ {0} /\ f + 1 \in Nat \ {0} /\ results \in Nat
    <3>1. Len(funcs) \in Nat
      BY Numbers
    <3> QED
      BY ONLY <3>1, results \in 0 .. 2
  <2>2. 1 \in 1 .. Len(blocks) /\ Len(blocks) \in Nat
    BY Numbers
  <2>3. Fresh(1) \in Block /\ Fresh(2) \in Block /\ Fresh(1) = Len(blocks) + 1
    BY Numbers, SMTT(20)
  <2>4. blocks \in Seq(BasicBlock)
    BY DEF TypeOK
  <2>5. [at |-> Here, tag |-> "call"] \in Item
    BY Numbers DEF Item, Tags
  <2> HIDE DEF f
  <2> QED
    BY <2>1, <2>2, <2>3, <2>4, <2>5
<1>5. entry \in BasicBlock /\ entry.fn = f
  <2> HIDE DEF f
  <2> QED
    BY <1>4, MadeOf
<1>6. jump \in BasicBlock
  <2>1. (IF results = 1 THEN RetVal ELSE RetVoid) \in Term /\ << >> \in Seq(Item)
    BY TermTypes
  <2> HIDE DEF f
  <2> QED
    BY <1>4, <2>1, MadeOf
<1> HIDE DEF entry, jump
<1>7. Grows(blocks, blocks') /\ In(Fresh(1), f, blocks')
  <2>1. CASE kind = "init"
    <3>1. Grows(blocks, call) /\ Len(call) = Len(blocks) /\ call \in Seq(BasicBlock)
      BY <1>4, EmitGrows DEF Grows
    <3> HIDE DEF call
    <3>2. Grows(call, blocks')
      BY <1>2, <1>5, <2>1, <3>1, AppendType DEF Grows
    <3>3. Len(blocks') = Len(blocks) + 1 /\ blocks'[Len(blocks) + 1] = entry
      BY <1>2, <1>5, <2>1, <3>1, AppendType
    <3>4. In(Fresh(1), f, blocks')
      BY <1>4, <1>5, <3>3 DEF In
    <3> QED
      BY <1>4, <3>1, <3>2, <3>4, GrowsTrans
  <2>2. CASE kind = "method"
    <3>1. <<entry, jump>> \in Seq(BasicBlock) /\ Len(<<entry, jump>>) = 2
      BY <1>5, <1>6
    <3>2. /\ Grows(blocks, blocks \o <<entry, jump>>)
          /\ Len(blocks \o <<entry, jump>>) = Len(blocks) + Len(<<entry, jump>>)
          /\ \A i \in 1 .. Len(<<entry, jump>>) :
               (blocks \o <<entry, jump>>)[Len(blocks) + i] = <<entry, jump>>[i]
      BY <1>4, <3>1, ConcatGrows
    <3>3. /\ Len(blocks') = Len(blocks) + 2
          /\ blocks'[Len(blocks) + 1] = entry
      <4>1. 1 \in 1 .. Len(<<entry, jump>>) /\ <<entry, jump>>[1] = entry
        BY <3>1
      <4> QED
        BY <1>2, <2>2, <3>1, <3>2, <4>1
    <3>4. Fresh(1) \in 1 .. Len(blocks')
      BY <1>4, <3>3
    <3>5. blocks'[Fresh(1)].fn = f
      BY <1>4, <1>5, <3>3
    <3>6. Grows(blocks, blocks')
      BY <1>2, <2>2, <3>2
    <3> QED
      BY <3>4, <3>5, <3>6 DEF In
  <2>3. CASE kind \notin {"init", "method"}
    <3>1. blocks' = Append(blocks, entry)
      BY <1>2, <2>3
    <3>2. /\ blocks' \in Seq(BasicBlock) /\ Len(blocks') = Len(blocks) + 1
          /\ \A i \in 1 .. Len(blocks) : blocks'[i] = blocks[i]
          /\ blocks'[Len(blocks) + 1] = entry
      BY <1>4, <1>5, <3>1, AppendType
    <3>3. Grows(blocks, blocks')
      BY <1>4, <3>2 DEF Grows
    <3> QED
      BY <1>4, <1>5, <3>2, <3>3 DEF In
  <2> QED
    BY <2>1, <2>2, <2>3
<1>8. funcs' \in Seq(Func) /\ Len(funcs) <= Len(funcs') /\ f \in 1 .. Len(funcs')
  <2> DEFINE g == NewFunc(kind, results, Fresh(1), FALSE)
  <2>1. g \in Func
    <3>1. kind \in {"init", "named", "method", "jump", "literal"}
      OBVIOUS
    <3> QED
      BY <1>4, <3>1, NewFuncType
  <2>2. more \in Seq(Func) /\ Len(more) \in Nat
    <3> DEFINE j == NewFunc("jump", results, Fresh(2), TRUE)
    <3>1. j \in Func
      BY <1>4, NewFuncType
    <3> HIDE DEF j
    <3>2. <<j>> \in Seq(Func) /\ << >> \in Seq(Func)
      BY <3>1
    <3>3. more = <<j>> \/ more = << >>
      BY DEF j
    <3>4. more \in Seq(Func)
      BY <3>2, <3>3
    <3> QED
      BY <3>4, LenProperties
  <2> HIDE DEF g, more
  <2>3. Append(funcs, g) \in Seq(Func) /\ Len(Append(funcs, g)) = Len(funcs) + 1
    BY <2>1, AppendType DEF TypeOK
  <2>4. funcs' \in Seq(Func) /\ Len(funcs') = Len(funcs) + 1 + Len(more)
    BY <1>3, <2>2, <2>3, ConcatProperties, ZenonT(40) DEF g
  <2>5. Len(funcs) \in Nat
    BY Numbers
  <2> QED
    BY <2>2, <2>4, <2>5
<1>9. Fresh(1) \in Nat /\ kind \in Forms
  BY <1>4 DEF Block, Forms
<1> HIDE DEF f
<1> QED
  BY <1>1, <1>4, <1>7, <1>8, <1>9, EnterStep DEF Ops

\* EndFunc keeps the types and the ownership.
LEMMA EndFuncStep ==
  ASSUME TypeOK, OwnedNow, EndFunc
  PROVE  TypeOK' /\ OwnedNow'
<1> DEFINE void == Emit(blocks, contextBlock, [at |-> Here, tag |-> "ret"])
<1>1. /\ frames # << >> /\ Top.kind = "func" /\ status = "compiling"
      /\ funcs' = [funcs EXCEPT ![Top.fn].complete = TRUE]
      /\ contextFunc' = Top.prevFunc /\ contextBlock' = Top.prevBlock
      /\ contextBlockVariables' = Front(contextBlockVariables)
      /\ frames' = Front(frames)
      /\ Put("endfunc", Top.at, "plain")
      /\ UNCHANGED <<contextLoopBreak, contextLoopContinue, contextCondAfter, status>>
  BY DEF EndFunc, Open, BackToCaller
<1>2. /\ \/ blocks' = blocks
         \/ \E bs \in {blocks, void}, t \in {RetVal, RetVoid} : blocks' = Terminate(bs, contextBlock, t)
      /\ contextFuncRetVals' = contextFuncRetVals
           \/ contextFuncRetVals' = Front(contextFuncRetVals)
  BY DEF EndFunc, ReturnAtEnd
<1>3. /\ FrameOwned(Top, OwnerAt(Len(frames) - 1, frames, blocks), blocks, Len(funcs))
      /\ Top.prevFunc \in Nat /\ Top.prevBlock \in Nat /\ Top.at \in Nat
  BY <1>1, Context, TopType
<1>4. /\ Top.fn \in 1 .. Len(funcs)
      /\ Top.prevFunc = OwnerAt(Len(frames) - 1, frames, blocks)
      /\ Top.prevFunc = 0 => Top.prevBlock = 0
      /\ Top.prevFunc # 0 => In(Top.prevBlock, Top.prevFunc, blocks)
  BY <1>1, <1>3 DEF FrameOwned
<1>5. Added(blocks, blocks', 0, contextFunc)
  <2>1. Added(blocks, void, 0, contextFunc)
    BY <1>1, Now, AddedEmit DEF Tags
  <2>2. RetVal \in Term /\ RetVoid \in Term
    BY TermTypes
  <2> HIDE DEF void
  <2>3. Added(blocks, blocks, 0, contextFunc)
    BY <1>1, Now
  <2>4. \A bs \in {blocks, void}, t \in {RetVal, RetVoid} :
          Added(blocks, Terminate(bs, contextBlock, t), 0, contextFunc)
    BY <1>1, <2>1, <2>2, <2>3, Now, AddedTerminate
  <2> QED
    BY <1>2, <2>3, <2>4
<1>6. Grows(blocks, blocks') /\ blocks' \in Seq(BasicBlock)
  BY <1>5 DEF Added, Grows
<1>7. funcs' \in Seq(Func) /\ Len(funcs') = Len(funcs)
  <2> DEFINE g == [funcs[Top.fn] EXCEPT !.complete = TRUE]
  <2>1. funcs[Top.fn] \in Func
    BY <1>4, ElementOfSeq DEF TypeOK
  <2>2. g \in Func
    BY <2>1 DEF Func
  <2>3. funcs' = [funcs EXCEPT ![Top.fn] = g]
    BY <1>1
  <2> HIDE DEF g
  <2> QED
    BY <1>4, <2>2, <2>3, ExceptSeq DEF TypeOK
<1>8. contextFunc' # 0 => In(contextBlock', contextFunc', blocks')
  BY <1>1, <1>4, <1>6, InGrows DEF TypeOK
<1>9. OwnedNow'
  BY <1>1, <1>4, <1>6, <1>7, <1>8, PopStep
<1>10. contextFuncRetVals' \in Seq(RetVals)
  <2>1. contextFuncRetVals \in Seq(RetVals)
    BY DEF TypeOK
  <2> QED
    BY <1>2, <2>1, SeqStep
<1>11. contextBlockVariables' \in Seq(Nat) /\ frames' \in Seq(Frame)
  BY <1>1, FrontSeq DEF TypeOK
<1>12. src' \in Seq(Token)
  BY <1>1, <1>3, PutType DEF Ops, Forms
<1> QED
  BY <1>1, <1>3, <1>6, <1>7, <1>9, <1>10, <1>11, <1>12 DEF TypeOK

\* ReturnValues keeps the types and the ownership.
LEMMA ReturnValuesStep ==
  ASSUME TypeOK, OwnedNow, ReturnValues
  PROVE  TypeOK' /\ OwnedNow'
<1> DEFINE values == Emit(blocks, contextBlock, [at |-> Here, tag |-> "ret"])
           t      == IF funcs[contextFunc].results = 1 THEN RetVal ELSE RetVoid
<1>1. /\ frames # << >> /\ status = "compiling"
      /\ Put("return", 0, "values")
      /\ UNCHANGED <<funcs, contextFunc, contextBlock, stacks, frames, status>>
  BY DEF ReturnValues, ReturnAllowed, JumpAllowed, StatementAllowed, CanStand
<1>2. blocks' = Terminate(values, contextBlock, t)
  BY DEF ReturnValues
<1>3. Added(blocks, values, 0, contextFunc)
  BY <1>1, Now, AddedEmit DEF Tags
<1>4. t \in Term
  BY TermTypes
<1> HIDE DEF values, t
<1> QED
  BY <1>1, <1>2, <1>3, <1>4, JumpStep DEF Ops, Forms

\* NakedReturn keeps the types and the ownership.
LEMMA NakedReturnStep ==
  ASSUME TypeOK, OwnedNow, NakedReturn
  PROVE  TypeOK' /\ OwnedNow'
<1> DEFINE naked == Emit(blocks, contextBlock, [at |-> Here, tag |-> "ret"])
<1>1. /\ frames # << >> /\ status = "compiling"
      /\ Put("return", 0, "naked")
      /\ UNCHANGED <<funcs, contextFunc, contextBlock, stacks, frames>>
  BY DEF NakedReturn, ReturnAllowed, JumpAllowed, StatementAllowed, CanStand
<1>2. \/ blocks' = Terminate(naked, contextBlock, NakedTerm) /\ status' = status
      \/ blocks' = blocks /\ status' = "failed"
  BY DEF NakedReturn
<1>3. Added(blocks, naked, 0, contextFunc)
  BY <1>1, Now, AddedEmit DEF Tags
<1>4. NakedTerm \in Term
  BY TermTypes DEF NakedTerm
<1> HIDE DEF naked
<1> QED
  BY <1>1, <1>2, <1>3, <1>4, JumpStep DEF Ops, Forms

\* Finish keeps the types and the ownership.
LEMMA FinishStep ==
  ASSUME TypeOK, OwnedNow, Finish
  PROVE  TypeOK' /\ OwnedNow'
BY DEF Finish, TypeOK, OwnedNow, stacks

-----------------------------------------------------------------------------
(* The theorems                                                              *)

\* NewCompiler and addGlobal establish the types and the ownership.
LEMMA InitOwned == Init => TypeOK /\ OwnedNow
<1> SUFFICES ASSUME Init
             PROVE  TypeOK /\ OwnedNow
  OBVIOUS
<1>1. blocks = <<BlockOf(GlobalInit, << >>, RetVoid), NewBlock(Main)>>
  BY DEF Init
<1>2. funcs = <<NewFunc("globalinit", 0, 1, TRUE), NewFunc("main", 0, 2, FALSE)>>
  BY DEF Init
<1>3. AllOf(<<NewBlock(Main)>>, 1, Main) /\ NewBlock(Main).fn = Main /\ NewBlock(Main) \in BasicBlock
  BY MadeOf DEF Main
<1>4. BlockOf(GlobalInit, << >>, RetVoid) \in BasicBlock
  <2>1. << >> \in Seq(Item) /\ RetVoid \in Term /\ GlobalInit \in Nat \ {0}
    BY TermTypes DEF GlobalInit
  <2> QED
    BY <2>1, BlockTypes
<1>5. /\ blocks \in Seq(BasicBlock) /\ Len(blocks) = 2 /\ blocks[2] = NewBlock(Main)
  <2> DEFINE x == BlockOf(GlobalInit, << >>, RetVoid)
             y == NewBlock(Main)
  <2> HIDE DEF x, y
  <2> QED
    BY <1>1, <1>3, <1>4 DEF x, y
<1>6. In(2, Main, blocks)
  BY <1>3, <1>5 DEF In
<1>7. funcs \in Seq(Func) /\ Len(funcs) = 2
  <2> DEFINE x == NewFunc("globalinit", 0, 1, TRUE)
             y == NewFunc("main", 0, 2, FALSE)
  <2>1. Here = 1
    BY EmptySeq DEF Here, Init
  <2>2. x \in Func /\ y \in Func
    BY <2>1 DEF NewFunc, Func, Block
  <2>3. funcs = <<x, y>>
    BY <1>2
  <2> HIDE DEF x, y
  <2> QED
    BY <2>2, <2>3
<1>8. TypeOK
  <2>1. /\ contextFunc \in Nat /\ contextBlock \in Nat
        /\ contextBlockVariables \in Seq(Nat)
        /\ status \in {"compiling", "done", "failed"}
    BY DEF Init, NoBlock
  <2>2. /\ contextFuncRetVals \in Seq(RetVals) /\ contextLoopBreak \in Seq(Block)
        /\ contextLoopContinue \in Seq(Block) /\ contextCondAfter \in Seq(Block)
        /\ frames \in Seq(Frame) /\ src \in Seq(Token)
    BY EmptySeq DEF Init
  <2> QED
    BY <1>5, <1>7, <2>1, <2>2 DEF TypeOK
<1>9. OwnedNow
  <2>1. frames = << >> /\ contextFunc = 0 /\ contextBlock = 0
    BY DEF Init, NoBlock
  <2>2. Len(frames) = 0
    BY <2>1, EmptySeq
  <2>3. Owned(frames, blocks, Len(funcs), contextFunc, contextBlock)
    BY <2>1, <2>2 DEF Owned, OwnerAt
  <2> QED
    BY <1>6, <1>7, <2>3 DEF OwnedNow
<1> QED
  BY <1>8, <1>9

\* Every step of the compiler keeps the types and the ownership.
LEMMA NextOwned ==
  ASSUME TypeOK, OwnedNow, [Next]_vars
  PROVE  TypeOK' /\ OwnedNow'
<1>1. CASE UNCHANGED vars
  BY <1>1 DEF vars, stacks, TypeOK, OwnedNow
<1>2. CASE Stmt \/ Index \/ Substring \/ TypeAssertion
  BY <1>2, StmtStep, IndexStep, SubstringStep, TypeAssertionStep
<1>3. CASE (\E self \in BOOLEAN : BeginAppend(self)) \/ NestedAppend \/ EndAppend
  BY <1>3, BeginAppendStep, NestedAppendStep, EndAppendStep
<1>4. CASE (\E hasElse \in BOOLEAN : BeginIf(hasElse)) \/ BeginElse \/ EndIf
  BY <1>4, BeginIfStep, BeginElseStep, EndIfStep
<1>5. CASE (\E form \in {"plain", "checked", "range"} : BeginFor(form)) \/ EndFor
  BY <1>5, BeginForStep, EndForStep
<1>6. CASE Break \/ Continue \/ ReturnValues \/ NakedReturn
  BY <1>6, BreakStep, ContinueStep, ReturnValuesStep, NakedReturnStep
<1>7. CASE (\E hasDefault \in BOOLEAN : BeginSwitch(hasDefault)) \/ EndDefault \/ BeginCase
  BY <1>7, BeginSwitchStep, EndDefaultStep, BeginCaseStep
<1>8. CASE (\E fallthrough \in BOOLEAN : EndCase(fallthrough)) \/ EndSwitch
  BY <1>8, EndCaseStep, EndSwitchStep
<1>9. CASE BeginMain \/ EndFunc \/ Finish
  BY <1>9, BeginMainStep, EndFuncStep, FinishStep
<1>10. CASE \E kind \in {"init", "named", "method", "literal"}, results \in 0 .. 2 :
              BeginFunc(kind, results)
  BY <1>10, BeginFuncStep
<1> QED
  BY <1>1, <1>2, <1>3, <1>4, <1>5, <1>6, <1>7, <1>8, <1>9, <1>10 DEF Next

\* The inductive invariant: the types, and the ownership of every open call's blocks.
LEMMA OwnedAlways == Spec => [](TypeOK /\ OwnedNow)
<1>1. Init => TypeOK /\ OwnedNow
  BY InitOwned
<1>2. (TypeOK /\ OwnedNow) /\ [Next]_vars => (TypeOK /\ OwnedNow)'
  BY NextOwned
<1> QED
  BY <1>1, <1>2, PTL DEF Spec

\* The compiler's state keeps its types (the variables of type Compiler, compiler.go:23-68):
\* every block is made for a function that exists when it is terminated, every entry of
\* a context stack is a block, whatever program is compiled.
THEOREM TypeCorrect == Spec => []TypeOK
BY OwnedAlways, PTL

\* contextBlock always belongs to contextFunc, also inside and after a function literal in
\* the middle of nested loops, branches, cases and append items (func.go:240-264).
THEOREM ContextCorrect == Spec => []ContextInFunction
<1>1. OwnedNow => ContextInFunction
  <2> SUFFICES ASSUME OwnedNow
               PROVE  ContextInFunction
    OBVIOUS
  <2>1. contextFunc = 0 => contextBlock = 0
    BY DEF OwnedNow, Owned
  <2>2. contextFunc # 0 => contextBlock \in 1 .. Len(blocks) /\ blocks[contextBlock].fn = contextFunc
    BY DEF OwnedNow, Owned, In
  <2> QED
    BY <2>1, <2>2 DEF ContextInFunction, NoBlock
<1> QED
  BY <1>1, OwnedAlways, PTL

=============================================================================
