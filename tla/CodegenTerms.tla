---------------------------- MODULE CodegenTerms ----------------------------
(***************************************************************************)
(* Theorems about the terminators that Codegen writes.  Each action is     *)
(* summed up by what it does to the blocks: the blocks it adds, the older  *)
(* blocks whose terminator it writes, and the added blocks it leaves       *)
(* without one.  From these sums follow RetMatches here, and Terminated    *)
(* and OwnTargets in CodegenBlocks.                                        *)
(***************************************************************************)
EXTENDS CodegenStacks

-----------------------------------------------------------------------------
(* Emit, Terminate and \o, seen from the terminators                         *)

\* es is bs with other instructions.
SameTerms(bs, es) ==
  /\ es \in Seq(BasicBlock)
  /\ Len(es) = Len(bs)
  /\ \A c \in 1 .. Len(bs) : es[c].term = bs[c].term /\ es[c].fn = bs[c].fn

\* An instruction writes no terminator.
LEMMA EmitTerms ==
  ASSUME NEW bs \in Seq(BasicBlock), NEW b \in 1 .. Len(bs), NEW item \in Item
  PROVE  SameTerms(bs, Emit(bs, b, item))
<1> DEFINE e == [bs[b] EXCEPT !.code = Append(@, item)]
<1>1. bs[b] \in BasicBlock /\ Len(bs) \in Nat
  BY ElementOfSeq, LenProperties
<1>2. e \in BasicBlock /\ e.fn = bs[b].fn /\ e.term = bs[b].term
  BY <1>1, AppendProperties DEF BasicBlock
<1>3. Emit(bs, b, item) = [bs EXCEPT ![b] = e]
  BY DEF Emit
<1> HIDE DEF e
<1> QED
  BY <1>1, <1>2, <1>3, ExceptSeq DEF SameTerms

\* A terminator is written to one block.
LEMMA TerminateTerms ==
  ASSUME NEW bs \in Seq(BasicBlock), NEW b \in 1 .. Len(bs), NEW t \in Term
  PROVE  /\ Terminate(bs, b, t) \in Seq(BasicBlock)
         /\ Len(Terminate(bs, b, t)) = Len(bs)
         /\ \A c \in 1 .. Len(bs) :
              /\ Terminate(bs, b, t)[c].term = IF c = b THEN t ELSE bs[c].term
              /\ Terminate(bs, b, t)[c].fn = bs[c].fn
<1> DEFINE e == [bs[b] EXCEPT !.term = t]
<1>1. bs[b] \in BasicBlock /\ Len(bs) \in Nat
  BY ElementOfSeq, LenProperties
<1>2. e \in BasicBlock /\ e.fn = bs[b].fn /\ e.term = t
  BY <1>1 DEF BasicBlock
<1>3. Terminate(bs, b, t) = [bs EXCEPT ![b] = e]
  BY DEF Terminate
<1> HIDE DEF e
<1> QED
  BY <1>1, <1>2, <1>3, ExceptSeq

\* cs is bs with the blocks made, and terminator t in block b.
Made(bs, cs, made, b, t) ==
  /\ cs \in Seq(BasicBlock)
  /\ Len(cs) = Len(bs) + Len(made)
  /\ \A c \in 1 .. Len(bs) : /\ cs[c].term = IF c = b THEN t ELSE bs[c].term
                             /\ cs[c].fn = bs[c].fn
  /\ \A i \in 1 .. Len(made) : /\ cs[Len(bs) + i].term = made[i].term
                               /\ cs[Len(bs) + i].fn = made[i].fn

\* Blocks are made, and the block they are reached from gets its terminator.
LEMMA MakeTerms ==
  ASSUME NEW bs \in Seq(BasicBlock), NEW es, SameTerms(bs, es),
         NEW made \in Seq(BasicBlock), NEW b \in 1 .. Len(bs), NEW t \in Term
  PROVE  Made(bs, Terminate(es \o made, b, t), made, b, t)
<1> DEFINE ds == es \o made
<1>1. Len(bs) \in Nat /\ Len(made) \in Nat /\ es \in Seq(BasicBlock) /\ Len(es) = Len(bs)
  BY LenProperties DEF SameTerms
<1>2. /\ ds \in Seq(BasicBlock) /\ Len(ds) = Len(bs) + Len(made)
      /\ \A i \in 1 .. Len(bs) + Len(made) :
           ds[i] = IF i <= Len(bs) THEN es[i] ELSE made[i - Len(bs)]
  <2>1. /\ ds \in Seq(BasicBlock) /\ Len(ds) = Len(es) + Len(made)
        /\ \A i \in 1 .. Len(es) + Len(made) :
             ds[i] = IF i <= Len(es) THEN es[i] ELSE made[i - Len(es)]
    BY <1>1, ConcatProperties
  <2> QED
    BY <1>1, <2>1
<1>3. \A c \in 1 .. Len(bs) : ds[c].term = bs[c].term /\ ds[c].fn = bs[c].fn
  BY <1>1, <1>2 DEF SameTerms
<1>4. \A i \in 1 .. Len(made) : ds[Len(bs) + i] = made[i] /\ Len(bs) + i # b
  <2> TAKE i \in 1 .. Len(made)
  <2>1. /\ Len(bs) + i \in 1 .. Len(bs) + Len(made) /\ ~ (Len(bs) + i <= Len(bs))
        /\ Len(bs) + i - Len(bs) = i
    BY <1>1
  <2> QED
    BY <2>1, <1>1, <1>2
<1> HIDE DEF ds
<1>5. /\ Terminate(ds, b, t) \in Seq(BasicBlock)
      /\ Len(Terminate(ds, b, t)) = Len(ds)
      /\ \A c \in 1 .. Len(ds) :
           /\ Terminate(ds, b, t)[c].term = IF c = b THEN t ELSE ds[c].term
           /\ Terminate(ds, b, t)[c].fn = ds[c].fn
  <2>1. b \in 1 .. Len(ds)
    BY <1>1, <1>2
  <2> QED
    BY <1>2, <2>1, TerminateTerms
<1>6. \A c \in 1 .. Len(bs) : c \in 1 .. Len(ds)
  BY <1>1, <1>2
<1>7. \A i \in 1 .. Len(made) : Len(bs) + i \in 1 .. Len(ds)
  BY <1>1, <1>2
<1> QED
  BY <1>2, <1>3, <1>4, <1>5, <1>6, <1>7 DEF ds, Made

-----------------------------------------------------------------------------
(* What an action does to the blocks                                         *)

\* The terminators other than returns.
FlowKinds == {"none", "br", "condbr", "switch", "unreachable"}

\* Every target of terminator t is a block of function f.
Aims(t, f, bs) == \A i \in DOMAIN t.to : In(t.to[i], f, bs)

\* The terminators that end a block, other than returns.
FlowTerm(t) == t.kind \in FlowKinds \ {"none"}

\* cs is blocks with n blocks of the function being compiled added, those in K without
\* a terminator; of the older blocks, those in W get a terminator.
Builds(cs, n, W, K) ==
  /\ Added(blocks, cs, n, contextFunc)
  /\ \A c \in 1 .. Len(blocks) :
       \/ c \notin W /\ cs[c].term = blocks[c].term
       \/ c \in W /\ FlowTerm(cs[c].term)
  /\ \A i \in 1 .. n : LET t == cs[Fresh(i)].term IN
       FlowTerm(t) \/ (t = NoTerm /\ Fresh(i) \in K)

\* The terminators written to old and new blocks stay in the function being compiled.
Local(cs, n, W) ==
  /\ \A c \in 1 .. Len(blocks) : c \in W => Aims(cs[c].term, contextFunc, cs)
  /\ \A i \in 1 .. n : Aims(cs[Fresh(i)].term, contextFunc, cs)

\* The kinds and targets of the terminators that the actions make.
LEMMA Kinds ==
  /\ NoTerm.kind = "none" /\ FlowTerm(Unreachable)
  /\ \A b : FlowTerm(Br(b))
  /\ \A t, f : FlowTerm(CondBr(t, f))
  /\ \A bs : FlowTerm(Switch(bs))
BY DEF FlowTerm, FlowKinds, NoTerm, Unreachable, Br, CondBr, Switch

\* A terminator aims where the blocks it names are.
LEMMA AimsAt ==
  ASSUME NEW f, NEW bs
  PROVE  /\ Aims(NoTerm, f, bs) /\ Aims(Unreachable, f, bs)
         /\ Aims(RetVal, f, bs) /\ Aims(RetVoid, f, bs)
         /\ \A b : In(b, f, bs) => Aims(Br(b), f, bs)
         /\ \A b, c : In(b, f, bs) /\ In(c, f, bs) => Aims(CondBr(b, c), f, bs)
BY DEF Aims, NoTerm, Unreachable, RetVal, RetVoid, Br, CondBr

\* The block of a made term.
LEMMA MadeTerm ==
  ASSUME NEW f, NEW c, NEW t
  PROVE  BlockOf(f, c, t).term = t /\ NewBlock(f).term = NoTerm
BY DEF BlockOf, NewBlock

-----------------------------------------------------------------------------
(* Straight-line code and expressions                                        *)

\* Blocks are made in one piece, reached from the current block.
LEMMA MadeBuilds ==
  ASSUME TypeOK, OwnedNow, frames # << >>, NEW es, SameTerms(blocks, es),
         NEW n \in Nat, NEW made, AllOf(made, n, contextFunc), NEW t \in Term,
         blocks' = Terminate(es \o made, contextBlock, t)
  PROVE  /\ Added(blocks, blocks', n, contextFunc)
         /\ \A c \in 1 .. Len(blocks) :
              blocks'[c].term = IF c = contextBlock THEN t ELSE blocks[c].term
         /\ \A i \in 1 .. n : blocks'[Fresh(i)].term = made[i].term
<1>1. /\ blocks \in Seq(BasicBlock) /\ made \in Seq(BasicBlock) /\ Len(made) = n
      /\ contextBlock \in 1 .. Len(blocks) /\ Len(blocks) \in Nat
      /\ \A i \in 1 .. n : made[i].fn = contextFunc
  BY Now, Context DEF AllOf
<1>2. /\ blocks' \in Seq(BasicBlock)
      /\ Len(blocks') = Len(blocks) + n
      /\ \A c \in 1 .. Len(blocks) :
           /\ blocks'[c].term = IF c = contextBlock THEN t ELSE blocks[c].term
           /\ blocks'[c].fn = blocks[c].fn
      /\ \A i \in 1 .. n : /\ blocks'[Len(blocks) + i].term = made[i].term
                           /\ blocks'[Len(blocks) + i].fn = made[i].fn
  <2>1. Made(blocks, blocks', made, contextBlock, t)
    BY <1>1, MakeTerms
  <2> QED
    BY <1>1, <2>1 DEF Made
<1>3. \A i \in 1 .. n : Fresh(i) = Len(blocks) + i
  BY Numbers
<1>4. Added(blocks, blocks', n, contextFunc)
  <2>1. Grows(blocks, blocks')
    BY <1>1, <1>2 DEF Grows
  <2>2. \A i \in 1 .. n : Len(blocks) + i \in 1 .. Len(blocks')
    BY <1>1, <1>2
  <2> QED
    BY <1>1, <1>2, <2>1, <2>2, ZenonT(40) DEF Added, In
<1> QED
  BY <1>2, <1>3, <1>4

\* The first of the blocks added belong to the function being compiled.
LEMMA FreshIn ==
  ASSUME TypeOK, OwnedNow, NEW n \in Nat, Added(blocks, blocks', n, contextFunc)
  PROVE  /\ n > 0 => In(Fresh(1), contextFunc, blocks')
         /\ n > 1 => In(Fresh(2), contextFunc, blocks')
         /\ n > 2 => In(Fresh(3), contextFunc, blocks')
         /\ n > 3 => In(Fresh(4), contextFunc, blocks')
         /\ n > 5 => In(Fresh(5), contextFunc, blocks') /\ In(Fresh(6), contextFunc, blocks')
<1>1. \A i \in 1 .. n : In(Fresh(i), contextFunc, blocks')
  BY AddedIn
<1> QED
  BY <1>1

\* Index ends the current block and goes on in a block without a terminator.
LEMMA IndexBuilds ==
  ASSUME TypeOK, OwnedNow, Index
  PROVE  Builds(blocks', 2, {contextBlock}, {Fresh(2)}) /\ Local(blocks', 2, {contextBlock})
<1> DEFINE outside == BlockOf(contextFunc, <<[at |-> Here, tag |-> "panic"]>>, Unreachable)
           cmp     == Emit(blocks, contextBlock, [at |-> Here, tag |-> "index"])
           t       == CondBr(Fresh(1), Fresh(2))
           made    == <<outside, NewBlock(contextFunc)>>
<1>1. frames # << >>
  BY DEF Index, ExpressionAllowed, CanStand
<1>2. blocks' = Terminate(cmp \o made, contextBlock, t)
  <2>1. blocks[contextBlock].fn = contextFunc /\ Fresh(1) = Len(blocks) + 1
        /\ Fresh(2) = Len(blocks) + 2
    BY <1>1, Now
  <2> QED
    BY <2>1 DEF Index, Checked, WithCheck
<1>3. SameTerms(blocks, cmp)
  BY <1>1, Now, Context, EmitTerms DEF Tags
<1>4. AllOf(made, 2, contextFunc)
  <2>1. outside \in BasicBlock /\ outside.fn = contextFunc
    BY <1>1, Now, TermTypes, MadeOf DEF Tags
  <2> HIDE DEF outside
  <2> QED
    BY <1>1, <2>1, Now, MadeOf
<1>5. made[1].term = Unreachable /\ made[2].term = NoTerm
  BY MadeTerm
<1>6. t \in Term /\ FlowTerm(t)
  BY FreshBlocks, TermTypes, Kinds
<1> HIDE DEF made, cmp
<1>7. /\ Added(blocks, blocks', 2, contextFunc)
      /\ \A c \in 1 .. Len(blocks) :
           blocks'[c].term = IF c = contextBlock THEN t ELSE blocks[c].term
      /\ blocks'[Fresh(1)].term = Unreachable /\ blocks'[Fresh(2)].term = NoTerm
  <2>1. 1 \in 1 .. 2 /\ 2 \in 1 .. 2 /\ 2 \in Nat
    OBVIOUS
  <2> HIDE DEF t
  <2>2. /\ Added(blocks, blocks', 2, contextFunc)
        /\ \A c \in 1 .. Len(blocks) :
             blocks'[c].term = IF c = contextBlock THEN t ELSE blocks[c].term
        /\ \A i \in 1 .. 2 : blocks'[Fresh(i)].term = made[i].term
    BY <1>1, <1>2, <1>3, <1>4, <1>6, <2>1, MadeBuilds
  <2> QED
    BY <1>5, <2>1, <2>2
<1>8. Aims(t, contextFunc, blocks')
  <2>1. In(Fresh(1), contextFunc, blocks') /\ In(Fresh(2), contextFunc, blocks')
    BY <1>7, FreshIn
  <2> QED
    BY <2>1, AimsAt
<1> HIDE DEF t
<1> QED
  BY <1>6, <1>7, <1>8, Kinds, AimsAt DEF Builds, Local

\* Substring ends the current block; of the three it makes, the last checks the end.
LEMMA SubstringBuilds ==
  ASSUME TypeOK, OwnedNow, Substring
  PROVE  Builds(blocks', 3, {contextBlock}, {Fresh(2)}) /\ Local(blocks', 3, {contextBlock})
<1> DEFINE u        == CondBr(Fresh(2), Fresh(1))
           outside  == BlockOf(contextFunc, <<[at |-> Here, tag |-> "panic"]>>, Unreachable)
           checkEnd == BlockOf(contextFunc, <<[at |-> Here, tag |-> "end"]>>, u)
           cmp      == Emit(blocks, contextBlock, [at |-> Here, tag |-> "start"])
           made     == <<outside, NewBlock(contextFunc), checkEnd>>
           t        == CondBr(Fresh(3), Fresh(1))
<1>1. frames # << >>
  BY DEF Substring, ExpressionAllowed, CanStand
<1>2. blocks' = Terminate(cmp \o made, contextBlock, t)
  <2>1. blocks[contextBlock].fn = contextFunc
    BY <1>1, Now
  <2> QED
    BY <2>1 DEF Substring
<1>3. SameTerms(blocks, cmp)
  BY <1>1, Now, Context, EmitTerms DEF Tags
<1>4. /\ t \in Term /\ FlowTerm(t)
      /\ u \in Term /\ FlowTerm(u)
  BY FreshBlocks, TermTypes, Kinds
<1> HIDE DEF t, u
<1>5. AllOf(made, 3, contextFunc)
  <2>1. outside \in BasicBlock /\ outside.fn = contextFunc
    BY <1>1, Now, TermTypes, MadeOf DEF Tags
  <2>2. checkEnd \in BasicBlock /\ checkEnd.fn = contextFunc
    BY <1>1, <1>4, Now, MadeOf DEF Tags
  <2> HIDE DEF outside, checkEnd
  <2> QED
    BY <1>1, <2>1, <2>2, Now, MadeOf
<1>6. made[1].term = Unreachable /\ made[2].term = NoTerm /\ made[3].term = u
  BY MadeTerm
<1> HIDE DEF made, cmp
<1>7. /\ Added(blocks, blocks', 3, contextFunc)
      /\ \A c \in 1 .. Len(blocks) :
           blocks'[c].term = IF c = contextBlock THEN t ELSE blocks[c].term
      /\ blocks'[Fresh(1)].term = Unreachable /\ blocks'[Fresh(2)].term = NoTerm
      /\ blocks'[Fresh(3)].term = u
  BY <1>1, <1>2, <1>3, <1>4, <1>5, <1>6, MadeBuilds
<1>8. Aims(t, contextFunc, blocks') /\ Aims(u, contextFunc, blocks')
  <2>1. /\ In(Fresh(1), contextFunc, blocks') /\ In(Fresh(2), contextFunc, blocks')
        /\ In(Fresh(3), contextFunc, blocks')
    BY <1>7, FreshIn
  <2> QED
    BY <2>1, AimsAt DEF t, u
<1> QED
  BY <1>4, <1>7, <1>8, Kinds, AimsAt DEF Builds, Local

\* TypeAssertion ends the current block; both its outcomes go on in the third block.
LEMMA TypeAssertionBuilds ==
  ASSUME TypeOK, OwnedNow, TypeAssertion
  PROVE  Builds(blocks', 3, {contextBlock}, {Fresh(3)}) /\ Local(blocks', 3, {contextBlock})
<1> DEFINE u    == Br(Fresh(3))
           side == BlockOf(contextFunc, << >>, u)
           cmp  == Emit(blocks, contextBlock, [at |-> Here, tag |-> "assert"])
           made == <<side, side, NewBlock(contextFunc)>>
           t    == CondBr(Fresh(1), Fresh(2))
<1>1. frames # << >>
  BY DEF TypeAssertion, StatementAllowed, CanStand
<1>2. blocks' = Terminate(cmp \o made, contextBlock, t)
  <2>1. blocks[contextBlock].fn = contextFunc
    BY <1>1, Now
  <2> QED
    BY <2>1 DEF TypeAssertion
<1>3. SameTerms(blocks, cmp)
  BY <1>1, Now, Context, EmitTerms DEF Tags
<1>4. /\ t \in Term /\ FlowTerm(t)
      /\ u \in Term /\ FlowTerm(u)
  BY FreshBlocks, TermTypes, Kinds
<1> HIDE DEF t, u
<1>5. AllOf(made, 3, contextFunc)
  <2>1. side \in BasicBlock /\ side.fn = contextFunc
    <3>1. << >> \in Seq(Item) /\ contextFunc \in Nat \ {0}
      BY <1>1, Now
    <3> QED
      BY <1>4, <3>1, MadeOf
  <2> HIDE DEF side
  <2> QED
    BY <1>1, <2>1, Now, MadeOf
<1>6. made[1].term = u /\ made[2].term = u /\ made[3].term = NoTerm
  BY MadeTerm
<1> HIDE DEF made, cmp
<1>7. /\ Added(blocks, blocks', 3, contextFunc)
      /\ \A c \in 1 .. Len(blocks) :
           blocks'[c].term = IF c = contextBlock THEN t ELSE blocks[c].term
      /\ blocks'[Fresh(1)].term = u /\ blocks'[Fresh(2)].term = u
      /\ blocks'[Fresh(3)].term = NoTerm
  BY <1>1, <1>2, <1>3, <1>4, <1>5, <1>6, MadeBuilds
<1>8. Aims(t, contextFunc, blocks') /\ Aims(u, contextFunc, blocks')
  <2>1. /\ In(Fresh(1), contextFunc, blocks') /\ In(Fresh(2), contextFunc, blocks')
        /\ In(Fresh(3), contextFunc, blocks')
    BY <1>7, FreshIn
  <2> QED
    BY <2>1, AimsAt DEF t, u
<1> QED
  BY <1>4, <1>7, <1>8, Kinds, AimsAt DEF Builds, Local

\* Terminators written to cs keep aiming where they did when blocks are added.
LEMMA AimsGrow ==
  ASSUME NEW cs \in Seq(BasicBlock), NEW ds, Grows(cs, ds), NEW t, NEW f, Aims(t, f, cs)
  PROVE  Aims(t, f, ds)
BY InGrows DEF Aims

\* Where the blocks made next will be.
LEMMA FreshRange ==
  ASSUME TypeOK, OwnedNow, NEW n \in Nat, NEW i \in 1 .. n
  PROVE  Fresh(i) \in 1 .. Len(blocks) + n /\ Fresh(i) \notin 1 .. Len(blocks)
<1>1. Fresh(i) = Len(blocks) + i /\ Len(blocks) \in Nat
  BY Numbers
<1> QED
  BY <1>1

\* Nothing is built yet.
LEMMA BuildsNone ==
  ASSUME TypeOK, OwnedNow, frames # << >>
  PROVE  Builds(blocks, 0, {}, {}) /\ Local(blocks, 0, {})
BY Now DEF Builds, Local

\* An instruction writes no terminator.
LEMMA BuildsEmit ==
  ASSUME TypeOK, OwnedNow, frames # << >>, NEW cs, NEW n \in Nat, NEW W, NEW K, Builds(cs, n, W, K),
         NEW b \in 1 .. Len(blocks) + n, NEW item \in Item
  PROVE  /\ Builds(Emit(cs, b, item), n, W, K)
         /\ Local(cs, n, W) => Local(Emit(cs, b, item), n, W)
<1> DEFINE ds == Emit(cs, b, item)
<1>1. /\ Added(blocks, cs, n, contextFunc) /\ cs \in Seq(BasicBlock) /\ Len(blocks) \in Nat
      /\ blocks \in Seq(BasicBlock) /\ Len(cs) = Len(blocks) + n
  BY Now DEF Builds, Added, Grows
<1>2. Added(blocks, ds, n, contextFunc)
  BY <1>1, AddedEmit
<1>3. SameTerms(cs, ds) /\ Grows(cs, ds)
  BY <1>1, EmitTerms, EmitGrows
<1>4. /\ \A c \in 1 .. Len(blocks) : ds[c].term = cs[c].term
      /\ \A i \in 1 .. n : ds[Fresh(i)].term = cs[Fresh(i)].term
  <2>1. \A c \in 1 .. Len(blocks) : c \in 1 .. Len(cs)
    BY <1>1
  <2>2. \A i \in 1 .. n : Fresh(i) \in 1 .. Len(blocks) + n
    BY FreshRange
  <2> QED
    BY <1>1, <1>3, <2>1, <2>2 DEF SameTerms
<1> HIDE DEF ds
<1>5. Builds(ds, n, W, K)
  BY <1>2, <1>4 DEF Builds
<1>6. Local(cs, n, W) => Local(ds, n, W)
  BY <1>1, <1>3, <1>4, AimsGrow DEF Local
<1> QED
  BY <1>5, <1>6 DEF ds

\* A terminator is written to one block, old or new.
LEMMA BuildsTerminate ==
  ASSUME TypeOK, OwnedNow, frames # << >>, NEW cs, NEW n \in Nat, NEW W, NEW K, Builds(cs, n, W, K),
         NEW b \in 1 .. Len(blocks) + n, NEW t \in Term, FlowTerm(t)
  PROVE  /\ Builds(Terminate(cs, b, t), n, W \cup {b}, K \ {b})
         /\ Local(cs, n, W) /\ Aims(t, contextFunc, cs) => Local(Terminate(cs, b, t), n, W \cup {b})
<1> DEFINE ds == Terminate(cs, b, t)
<1>1. /\ Added(blocks, cs, n, contextFunc) /\ cs \in Seq(BasicBlock) /\ Len(blocks) \in Nat
      /\ blocks \in Seq(BasicBlock) /\ Len(cs) = Len(blocks) + n
  BY Now DEF Builds, Added, Grows
<1>2. Added(blocks, ds, n, contextFunc)
  BY <1>1, AddedTerminate
<1>3. Grows(cs, ds)
  BY <1>1, TerminateGrows
<1>4. \A c \in 1 .. Len(cs) : ds[c].term = IF c = b THEN t ELSE cs[c].term
  BY <1>1, TerminateTerms
<1>5. /\ \A c \in 1 .. Len(blocks) : c \in 1 .. Len(cs)
      /\ \A i \in 1 .. n : Fresh(i) \in 1 .. Len(cs)
  <2>1. \A c \in 1 .. Len(blocks) : c \in 1 .. Len(cs)
    BY <1>1
  <2>2. \A i \in 1 .. n : Fresh(i) \in 1 .. Len(blocks) + n
    BY FreshRange
  <2> QED
    BY <1>1, <2>1, <2>2
<1> HIDE DEF ds
<1>6. Builds(ds, n, W \cup {b}, K \ {b})
  BY <1>2, <1>4, <1>5 DEF Builds
<1>7. ASSUME Local(cs, n, W), Aims(t, contextFunc, cs)
      PROVE  Local(ds, n, W \cup {b})
  <2>1. Aims(t, contextFunc, ds)
    BY <1>1, <1>3, <1>7, AimsGrow
  <2>2. \A u : Aims(u, contextFunc, cs) => Aims(u, contextFunc, ds)
    BY <1>1, <1>3, AimsGrow
  <2> QED
    BY <1>4, <1>5, <1>7, <2>1, <2>2 DEF Local
<1> QED
  BY <1>6, <1>7 DEF ds

\* Blocks are made, each with a terminator or in L.
LEMMA BuildsConcat ==
  ASSUME TypeOK, OwnedNow, frames # << >>, NEW cs, NEW n \in Nat, NEW W, NEW K, Builds(cs, n, W, K),
         NEW m \in Nat, NEW made, AllOf(made, m, contextFunc), NEW L,
         \A i \in 1 .. m : \/ FlowTerm(made[i].term)
                           \/ made[i].term = NoTerm /\ Fresh(n + i) \in L
  PROVE  /\ Builds(cs \o made, n + m, W, K \cup L)
         /\ /\ Local(cs, n, W)
            /\ \A i \in 1 .. m : Aims(made[i].term, contextFunc, cs \o made)
            => Local(cs \o made, n + m, W)
<1> DEFINE ds == cs \o made
<1>1. /\ Added(blocks, cs, n, contextFunc) /\ cs \in Seq(BasicBlock) /\ Len(blocks) \in Nat
      /\ blocks \in Seq(BasicBlock) /\ Len(cs) = Len(blocks) + n
      /\ made \in Seq(BasicBlock) /\ Len(made) = m
  BY Now DEF Builds, Added, Grows, AllOf
<1>2. Added(blocks, ds, n + m, contextFunc)
  BY <1>1, AddedConcat
<1>3. Grows(cs, ds)
  BY <1>1, ConcatGrows
<1>4. \A i \in 1 .. Len(cs) + Len(made) : ds[i] = IF i <= Len(cs) THEN cs[i] ELSE made[i - Len(cs)]
  BY <1>1, ConcatProperties
<1>5. \A c \in 1 .. Len(blocks) : ds[c] = cs[c]
  BY <1>1, <1>4
<1>6. \A i \in 1 .. n : ds[Fresh(i)] = cs[Fresh(i)]
  <2> TAKE i \in 1 .. n
  <2>1. Fresh(i) = Len(blocks) + i
    BY Numbers
  <2>2. Fresh(i) \in 1 .. Len(cs) + Len(made) /\ Fresh(i) <= Len(cs)
    BY <1>1, <2>1
  <2> QED
    BY <1>4, <2>2
<1>7. \A i \in n + 1 .. n + m : ds[Fresh(i)] = made[i - n] /\ i - n \in 1 .. m /\ n + (i - n) = i
  <2> TAKE i \in n + 1 .. n + m
  <2>1. Fresh(i) = Len(blocks) + i
    BY Numbers
  <2>2. /\ Fresh(i) \in 1 .. Len(cs) + Len(made) /\ ~ (Fresh(i) <= Len(cs))
        /\ Fresh(i) - Len(cs) = i - n
    BY <1>1, <2>1
  <2> QED
    BY <1>4, <2>2
<1>8. \A i \in 1 .. n + m : i \in 1 .. n \/ i \in n + 1 .. n + m
  OBVIOUS
<1> HIDE DEF ds
<1>9. Builds(ds, n + m, W, K \cup L)
  <2>1. \A c \in 1 .. Len(blocks) : \/ c \notin W /\ ds[c].term = blocks[c].term
                                    \/ c \in W /\ FlowTerm(ds[c].term)
    BY <1>5 DEF Builds
  <2>2. \A i \in 1 .. n : FlowTerm(ds[Fresh(i)].term) \/ (ds[Fresh(i)].term = NoTerm /\ Fresh(i) \in K \cup L)
    BY <1>6 DEF Builds
  <2>3. \A i \in n + 1 .. n + m :
          FlowTerm(ds[Fresh(i)].term) \/ (ds[Fresh(i)].term = NoTerm /\ Fresh(i) \in K \cup L)
    BY <1>7
  <2> QED
    BY <1>2, <1>8, <2>1, <2>2, <2>3 DEF Builds
<1>10. ASSUME Local(cs, n, W), \A i \in 1 .. m : Aims(made[i].term, contextFunc, ds)
       PROVE  Local(ds, n + m, W)
  <2>1. \A u : Aims(u, contextFunc, cs) => Aims(u, contextFunc, ds)
    BY <1>1, <1>3, AimsGrow
  <2> QED
    BY <1>5, <1>6, <1>7, <1>8, <1>10, <2>1 DEF Local
<1> QED
  BY <1>9, <1>10 DEF ds

\* The two blocks of a bounds check in block b.
LEMMA BuildsChecked ==
  ASSUME TypeOK, OwnedNow, frames # << >>, NEW cs, NEW n \in Nat, NEW W, NEW K, Builds(cs, n, W, K),
         NEW b \in 1 .. Len(blocks) + n, NEW at \in Nat
  PROVE  /\ Builds(Checked(cs, b, at, contextFunc), n + 2, W \cup {b},
                   (K \cup {Fresh(n + 2)}) \ {b})
         /\ Local(cs, n, W) => Local(Checked(cs, b, at, contextFunc), n + 2, W \cup {b})
<1> DEFINE f       == contextFunc
           outside == BlockOf(f, <<[at |-> at, tag |-> "panic"]>>, Unreachable)
           cmp     == Emit(cs, b, [at |-> at, tag |-> "index"])
           made    == <<outside, NewBlock(f)>>
           ds      == cmp \o made
           t       == CondBr(Len(cs) + 1, Len(cs) + 2)
<1>1. /\ Added(blocks, cs, n, f) /\ cs \in Seq(BasicBlock) /\ Len(blocks) \in Nat
      /\ blocks \in Seq(BasicBlock) /\ Len(cs) = Len(blocks) + n /\ f \in Nat \ {0}
  BY Now DEF Builds, Added, Grows
<1>2. [at |-> at, tag |-> "index"] \in Item /\ <<[at |-> at, tag |-> "panic"]>> \in Seq(Item)
  BY DEF Item, Tags
<1>3. Builds(cmp, n, W, K) /\ (Local(cs, n, W) => Local(cmp, n, W))
  BY <1>2, BuildsEmit
<1>4. AllOf(made, 2, f)
  <2>1. outside \in BasicBlock /\ outside.fn = f
    BY <1>1, <1>2, TermTypes, MadeOf
  <2> HIDE DEF outside
  <2> QED
    BY <1>1, <2>1, MadeOf
<1>5. made[1].term = Unreachable /\ made[2].term = NoTerm
  BY MadeTerm
<1> HIDE DEF cmp, made, f
<1>6. \A i \in 1 .. 2 : \/ FlowTerm(made[i].term)
                        \/ made[i].term = NoTerm /\ Fresh(n + i) \in {Fresh(n + 2)}
  BY <1>5, Kinds
<1>7. Builds(ds, n + 2, W, K \cup {Fresh(n + 2)}) /\ (Local(cs, n, W) => Local(ds, n + 2, W))
  <2>1. \A i \in 1 .. 2 : Aims(made[i].term, contextFunc, ds)
    BY <1>5, AimsAt
  <2> QED
    BY <1>3, <1>4, <1>6, <2>1, BuildsConcat DEF f
<1> HIDE DEF ds
<1>8. t \in Term /\ FlowTerm(t)
  BY <1>1, TermTypes, Kinds DEF Block
<1>9. Aims(t, contextFunc, ds)
  <2>1. Added(blocks, ds, n + 2, contextFunc)
    BY <1>7 DEF Builds
  <2>2. /\ n + 1 \in 1 .. n + 2 /\ n + 2 \in 1 .. n + 2
        /\ Len(cs) + 1 = Len(blocks) + (n + 1) /\ Len(cs) + 2 = Len(blocks) + (n + 2)
    BY <1>1
  <2>3. In(Len(cs) + 1, contextFunc, ds) /\ In(Len(cs) + 2, contextFunc, ds)
    BY <2>1, <2>2 DEF Added
  <2> QED
    BY <2>3, AimsAt
<1>10. b \in 1 .. Len(blocks) + (n + 2) /\ n + 2 \in Nat
  BY <1>1
<1>11. Checked(cs, b, at, contextFunc) = Terminate(ds, b, t)
  BY DEF Checked, WithCheck, ds, t, made, cmp, f
<1> HIDE DEF t
<1> QED
  BY <1>7, <1>8, <1>9, <1>10, <1>11, BuildsTerminate

\* A step that writes no terminator.
LEMMA NothingBuilds ==
  ASSUME TypeOK, OwnedNow, frames # << >>, SameTerms(blocks, blocks')
  PROVE  Builds(blocks', 0, {}, {}) /\ Local(blocks', 0, {})
BY LenProperties DEF SameTerms, Builds, Local, Added, Grows, TypeOK

\* Instructions, a panic of the compiler and the end of a case write no terminator.
LEMMA StraightBuilds ==
  ASSUME TypeOK, OwnedNow,
         Stmt \/ EndAppend \/ NestedAppend \/ \E fallthrough \in BOOLEAN : EndCase(fallthrough)
  PROVE  Builds(blocks', 0, {}, {}) /\ Local(blocks', 0, {})
<1>1. frames # << >>
  BY DEF Stmt, StatementAllowed, CanStand, NestedAppend, ExpressionAllowed, EndAppend, EndCase, Open
<1>2. CASE Stmt
  <2>1. SameTerms(blocks, Emit(blocks, contextBlock, [at |-> Here, tag |-> "stmt"]))
    BY <1>1, Now, Context, EmitTerms DEF Tags
  <2> QED
    BY <1>1, <1>2, <2>1, NothingBuilds DEF Stmt
<1>3. CASE EndAppend
  <2>1. Top.kind = "append" /\ blocks' = Emit(blocks, Top.add, [at |-> Top.at, tag |-> "append"])
    BY <1>3 DEF EndAppend, Open
  <2>2. Top.add \in 1 .. Len(blocks)
    BY <1>1, <2>1, TopOwned DEF FrameOwned, In
  <2>3. [at |-> Top.at, tag |-> "append"] \in Item
    BY <1>1, TopType DEF Item, Tags
  <2>4. SameTerms(blocks, blocks')
    BY <2>1, <2>2, <2>3, EmitTerms DEF TypeOK
  <2> QED
    BY <1>1, <2>4, NothingBuilds
<1>4. CASE UNCHANGED blocks
  <2>1. SameTerms(blocks, blocks')
    BY <1>4 DEF SameTerms, TypeOK
  <2> QED
    BY <1>1, <2>1, NothingBuilds
<1> QED
  BY <1>2, <1>3, <1>4 DEF NestedAppend, EndCase

-----------------------------------------------------------------------------
(* append, if, for                                                           *)

\* A sum may name the same old blocks otherwise, and more new ones.
LEMMA BuildsAs ==
  ASSUME NEW cs, NEW n, NEW W, NEW K, Builds(cs, n, W, K), NEW V, NEW L,
         \A c \in 1 .. Len(blocks) : c \in W <=> c \in V,
         \A i \in 1 .. n : Fresh(i) \in K => Fresh(i) \in L
  PROVE  Builds(cs, n, V, L) /\ (Local(cs, n, W) => Local(cs, n, V))
BY DEF Builds, Local

\* BeginAppend ends the current block and makes four, each with its terminator.
LEMMA BeginAppendBuilds ==
  ASSUME TypeOK, OwnedNow, NEW self \in BOOLEAN, BeginAppend(self)
  PROVE  Builds(blocks', 4, {contextBlock}, {}) /\ Local(blocks', 4, {contextBlock})
<1> DEFINE f         == contextFunc
           u         == Br(Fresh(4))
           v         == Br(Fresh(2))
           w         == CondBr(Fresh(4), Fresh(2))
           copy      == BlockOf(f, << >>, u)
           add       == BlockOf(f, << >>, Unreachable)
           existing  == BlockOf(f, << >>, v)
           copyBytes == BlockOf(f, << >>, w)
           made      == <<copy, add, existing, copyBytes>>
           t         == IF self THEN CondBr(Fresh(3), Fresh(1)) ELSE Br(Fresh(1))
<1>1. frames # << >> /\ f \in Nat \ {0}
  <2>1. frames # << >>
    BY DEF BeginAppend, StatementAllowed, CanStand
  <2> QED
    BY <2>1, Now
<1>2. blocks' = Terminate(blocks \o made, contextBlock, t)
  <2>1. blocks[contextBlock].fn = contextFunc
    BY <1>1, Now
  <2> QED
    BY <2>1 DEF BeginAppend
<1>3. /\ t \in Term /\ FlowTerm(t) /\ u \in Term /\ FlowTerm(u)
      /\ v \in Term /\ FlowTerm(v) /\ w \in Term /\ FlowTerm(w)
  BY FreshBlocks, TermTypes, Kinds
<1> HIDE DEF t, u, v, w
<1>4. AllOf(made, 4, f)
  <2>1. << >> \in Seq(Item) /\ Unreachable \in Term
    BY TermTypes
  <2> HIDE DEF f
  <2>2. copy \in BasicBlock /\ copy.fn = f /\ add \in BasicBlock /\ add.fn = f
    BY <1>1, <1>3, <2>1, MadeOf
  <2>3. /\ existing \in BasicBlock /\ existing.fn = f
        /\ copyBytes \in BasicBlock /\ copyBytes.fn = f
    BY <1>1, <1>3, <2>1, MadeOf
  <2> HIDE DEF copy, add, existing, copyBytes
  <2> QED
    BY <1>1, <2>2, <2>3, MadeOf
<1>5. /\ made[1].term = u /\ made[2].term = Unreachable
      /\ made[3].term = v /\ made[4].term = w
  BY MadeTerm
<1> HIDE DEF made
<1>6. SameTerms(blocks, blocks)
  BY DEF SameTerms, TypeOK
<1>7. /\ Added(blocks, blocks', 4, contextFunc)
      /\ \A c \in 1 .. Len(blocks) :
           blocks'[c].term = IF c = contextBlock THEN t ELSE blocks[c].term
      /\ blocks'[Fresh(1)].term = u /\ blocks'[Fresh(2)].term = Unreachable
      /\ blocks'[Fresh(3)].term = v /\ blocks'[Fresh(4)].term = w
  BY <1>1, <1>2, <1>3, <1>4, <1>5, <1>6, MadeBuilds
<1>8. /\ Aims(t, contextFunc, blocks') /\ Aims(u, contextFunc, blocks')
      /\ Aims(v, contextFunc, blocks') /\ Aims(w, contextFunc, blocks')
  <2>1. /\ In(Fresh(1), contextFunc, blocks') /\ In(Fresh(2), contextFunc, blocks')
        /\ In(Fresh(3), contextFunc, blocks') /\ In(Fresh(4), contextFunc, blocks')
    BY <1>7, FreshIn
  <2> QED
    BY <2>1, AimsAt DEF t, u, v, w
<1> HIDE DEF f
<1> QED
  BY <1>3, <1>7, <1>8, Kinds, AimsAt DEF Builds, Local

\* BeginIf ends the current block and makes those of the arms and the one after.
LEMMA BeginIfBuilds ==
  ASSUME TypeOK, OwnedNow, NEW hasElse \in BOOLEAN, BeginIf(hasElse)
  PROVE  LET n == IF hasElse THEN 3 ELSE 2 IN
           /\ Builds(blocks', n, {contextBlock}, {Fresh(1), Fresh(2), Fresh(n)})
           /\ Local(blocks', n, {contextBlock})
<1> DEFINE f    == contextFunc
           n    == IF hasElse THEN 3 ELSE 2
           fls  == IF hasElse THEN Fresh(3) ELSE Fresh(1)
           made == IF hasElse THEN <<NewBlock(f), NewBlock(f), NewBlock(f)>>
                              ELSE <<NewBlock(f), NewBlock(f)>>
           cmp  == Emit(blocks, contextBlock, [at |-> Here, tag |-> "if"])
           t    == CondBr(Fresh(2), fls)
<1>1. frames # << >> /\ f \in Nat \ {0}
  <2>1. frames # << >>
    BY DEF BeginIf, StatementAllowed, CanStand
  <2> QED
    BY <2>1, Now
<1>2. blocks' = Terminate(cmp \o made, contextBlock, t)
  <2>1. blocks[contextBlock].fn = contextFunc
    BY <1>1, Now
  <2> QED
    BY <2>1 DEF BeginIf
<1>3. SameTerms(blocks, cmp)
  BY <1>1, Now, Context, EmitTerms DEF Tags
<1>4. AllOf(made, n, contextFunc) /\ \A i \in 1 .. n : made[i].term = NoTerm
  <2> HIDE DEF f
  <2>1. NewBlock(f) \in BasicBlock /\ NewBlock(f).fn = f /\ NewBlock(f).term = NoTerm
    BY <1>1, MadeOf, MadeTerm
  <2>2. AllOf(made, n, f)
    BY <1>1, <2>1, MadeOf
  <2>3. \A i \in 1 .. n : made[i] = NewBlock(f)
    OBVIOUS
  <2> QED
    BY <2>1, <2>2, <2>3 DEF f
<1>5. t \in Term /\ FlowTerm(t)
  BY FreshBlocks, TermTypes, Kinds
<1>6. n \in Nat /\ n \in {2, 3}
  OBVIOUS
<1> HIDE DEF made, cmp, t, n
<1>7. /\ Added(blocks, blocks', n, contextFunc)
      /\ \A c \in 1 .. Len(blocks) :
           blocks'[c].term = IF c = contextBlock THEN t ELSE blocks[c].term
      /\ \A i \in 1 .. n : blocks'[Fresh(i)].term = NoTerm
  <2>1. /\ Added(blocks, blocks', n, contextFunc)
        /\ \A c \in 1 .. Len(blocks) :
             blocks'[c].term = IF c = contextBlock THEN t ELSE blocks[c].term
        /\ \A i \in 1 .. n : blocks'[Fresh(i)].term = made[i].term
    BY <1>1, <1>2, <1>3, <1>4, <1>5, <1>6, MadeBuilds
  <2> QED
    BY <1>4, <2>1
<1>8. Aims(t, contextFunc, blocks')
  <2>1. /\ In(Fresh(1), contextFunc, blocks') /\ In(Fresh(2), contextFunc, blocks')
        /\ n = 3 => In(Fresh(3), contextFunc, blocks')
    BY <1>6, <1>7, FreshIn
  <2> QED
    BY <2>1, AimsAt DEF t, n
<1>9. \A i \in 1 .. n : Fresh(i) \in {Fresh(1), Fresh(2), Fresh(n)}
  <2>1. \A i \in 1 .. n : i \in {1, 2, n}
    BY <1>6
  <2> QED
    BY <2>1
<1>10. Builds(blocks', n, {contextBlock}, {Fresh(1), Fresh(2), Fresh(n)})
  BY <1>5, <1>7, <1>9 DEF Builds
<1>11. Local(blocks', n, {contextBlock})
  BY <1>7, <1>8, AimsAt DEF Local
<1> QED
  BY <1>10, <1>11 DEF n

\* The entry block of an arm gets its jump if it has no terminator.
LEMMA ArmBuilds ==
  ASSUME TypeOK, OwnedNow, frames # << >>, Top.kind = "if", NEW b, b = Top.tru \/ b = Top.fls
  PROVE  /\ Builds(ArmClosed(b), 0, IF blocks[b].term = NoTerm THEN {b} ELSE {}, {})
         /\ Local(ArmClosed(b), 0, IF blocks[b].term = NoTerm THEN {b} ELSE {})
<1>1. /\ In(Top.after, contextFunc, blocks) /\ b \in 1 .. Len(blocks) + 0
      /\ Br(Top.after) \in Term /\ FlowTerm(Br(Top.after))
  <2>1. FrameOwned(Top, contextFunc, blocks, Len(funcs))
    BY TopOwned
  <2>2. In(Top.after, contextFunc, blocks) /\ In(b, contextFunc, blocks)
    BY <2>1 DEF FrameOwned
  <2>3. b \in 1 .. Len(blocks) + 0
    BY <2>2, Numbers DEF In
  <2>4. Br(Top.after) \in Term /\ FlowTerm(Br(Top.after))
    BY TopType, TermTypes, Kinds
  <2> QED
    BY <2>2, <2>3, <2>4
<1>2. Builds(blocks, 0, {}, {}) /\ Local(blocks, 0, {})
  BY BuildsNone
<1>3. Aims(Br(Top.after), contextFunc, blocks)
  BY <1>1, AimsAt
<1> DEFINE cs == Terminate(blocks, b, Br(Top.after))
<1>4. Builds(cs, 0, {} \cup {b}, {} \ {b}) /\ Local(cs, 0, {} \cup {b})
  BY <1>1, <1>2, <1>3, BuildsTerminate
<1>5. {} \cup {b} = {b} /\ {} \ {b} = {}
  OBVIOUS
<1> HIDE DEF cs
<1>6. Builds(cs, 0, {b}, {}) /\ Local(cs, 0, {b})
  BY <1>4, <1>5
<1> QED
  BY <1>2, <1>6 DEF ArmClosed, cs

\* BeginElse closes the first arm.
LEMMA BeginElseBuilds ==
  ASSUME TypeOK, OwnedNow, BeginElse
  PROVE  LET W == IF blocks[Top.tru].term = NoTerm THEN {Top.tru} ELSE {} IN
           Builds(blocks', 0, W, {}) /\ Local(blocks', 0, W)
BY ArmBuilds DEF BeginElse, Open

\* EndIf closes the second arm, and jumps on from the block after if it is in another
\* if: in its own function, or in the one around the function literal that ends here.
LEMMA EndIfBuilds ==
  ASSUME TypeOK, OwnedNow, EndIf
  PROVE  LET entry == IF Top.hasElse THEN Top.fls ELSE Top.tru
             arm   == IF blocks[entry].term = NoTerm THEN {entry} ELSE {}
             outer == Front(contextCondAfter)
         IN  /\ outer = << >> => Builds(blocks', 0, arm, {}) /\ Local(blocks', 0, arm)
             /\ outer # << >> =>
                  /\ Builds(blocks', 0, arm \cup {Top.after}, {})
                  /\ In(Last(outer), contextFunc, blocks) =>
                       Local(blocks', 0, arm \cup {Top.after})
<1> DEFINE entry  == IF Top.hasElse THEN Top.fls ELSE Top.tru
           arm    == IF blocks[entry].term = NoTerm THEN {entry} ELSE {}
           outer  == Front(contextCondAfter)
           closed == ArmClosed(entry)
           t      == Br(Last(outer))
<1>1. /\ frames # << >> /\ Top.kind = "if"
      /\ blocks' = IF outer # << >> THEN Terminate(closed, Top.after, t) ELSE closed
  BY DEF EndIf, Open
<1>2. Builds(closed, 0, arm, {}) /\ Local(closed, 0, arm)
  <2>1. entry = Top.tru \/ entry = Top.fls
    OBVIOUS
  <2> HIDE DEF entry
  <2> QED
    BY <1>1, <2>1, ArmBuilds
<1> HIDE DEF arm, closed, entry
<1>3. ASSUME outer # << >>
      PROVE  /\ Builds(blocks', 0, arm \cup {Top.after}, {})
             /\ In(Last(outer), contextFunc, blocks) => Local(blocks', 0, arm \cup {Top.after})
  <2>1. outer \in Seq(Block)
    BY FrontSeq DEF TypeOK
  <2>2. blocks' = Terminate(closed, Top.after, t)
    BY <1>1, <1>3
  <2> HIDE DEF outer
  <2>3. t \in Term /\ FlowTerm(t)
    BY <1>3, <2>1, FrontType, TermTypes, Kinds
  <2>4. Top.after \in 1 .. Len(blocks) + 0
    <3>1. In(Top.after, contextFunc, blocks)
      BY <1>1, TopOwned DEF FrameOwned
    <3> QED
      BY <3>1, Numbers DEF In
  <2>5. In(Last(outer), contextFunc, blocks) => Aims(t, contextFunc, closed)
    <3>1. Grows(blocks, closed)
      BY <1>2 DEF Builds, Added
    <3> QED
      BY <3>1, InGrows, AimsAt DEF TypeOK
  <2> HIDE DEF t
  <2>6. /\ Builds(blocks', 0, arm \cup {Top.after}, {} \ {Top.after})
        /\ Aims(t, contextFunc, closed) => Local(blocks', 0, arm \cup {Top.after})
    BY <1>1, <1>2, <2>2, <2>3, <2>4, BuildsTerminate
  <2>7. {} \ {Top.after} = {}
    OBVIOUS
  <2> QED
    BY <2>5, <2>6, <2>7
<1>4. ASSUME outer = << >>
      PROVE  Builds(blocks', 0, arm, {}) /\ Local(blocks', 0, arm)
  BY <1>1, <1>2, <1>4
<1> QED
  BY <1>3, <1>4 DEF arm, entry

\* EndFor ends the body with a jump to the post block, and that with one to the condition.
LEMMA EndForBuilds ==
  ASSUME TypeOK, OwnedNow, EndFor
  PROVE  /\ Builds(blocks', 0, {contextBlock, Top.post}, {})
         /\ Local(blocks', 0, {contextBlock, Top.post})
<1> DEFINE t     == Br(Top.post)
           u     == Br(Top.cond)
           ended == Terminate(blocks, contextBlock, t)
           step  == Emit(ended, Top.post, [at |-> Top.at, tag |-> "post"])
<1>1. frames # << >> /\ Top.kind = "for" /\ blocks' = Terminate(step, Top.post, u)
  BY DEF EndFor, Open
<1>2. /\ In(Top.cond, contextFunc, blocks) /\ In(Top.post, contextFunc, blocks)
      /\ Top.post \in 1 .. Len(blocks) + 0 /\ contextBlock \in 1 .. Len(blocks) + 0
      /\ [at |-> Top.at, tag |-> "post"] \in Item
      /\ t \in Term /\ FlowTerm(t) /\ u \in Term /\ FlowTerm(u)
  <2>1. In(Top.cond, contextFunc, blocks) /\ In(Top.post, contextFunc, blocks)
    BY <1>1, TopOwned DEF FrameOwned
  <2>2. [at |-> Top.at, tag |-> "post"] \in Item
    BY <1>1, TopType DEF Item, Tags
  <2>3. t \in Term /\ FlowTerm(t) /\ u \in Term /\ FlowTerm(u)
    BY <1>1, TopType, TermTypes, Kinds
  <2>4. contextBlock \in 1 .. Len(blocks) + 0
    BY <1>1, Now
  <2> QED
    BY <2>1, <2>2, <2>3, <2>4, Numbers DEF In
<1>3. Builds(ended, 0, {} \cup {contextBlock}, {} \ {contextBlock})
        /\ Local(ended, 0, {} \cup {contextBlock})
  <2>1. Aims(t, contextFunc, blocks)
    BY <1>2, AimsAt
  <2> HIDE DEF t
  <2> QED
    BY <1>1, <1>2, <2>1, BuildsNone, BuildsTerminate
<1>4. Grows(blocks, ended)
  BY <1>3 DEF Builds, Added
<1> HIDE DEF ended
<1>5. Builds(step, 0, {} \cup {contextBlock}, {} \ {contextBlock})
        /\ Local(step, 0, {} \cup {contextBlock})
  BY <1>1, <1>2, <1>3, BuildsEmit
<1> HIDE DEF step
<1>6. Aims(u, contextFunc, step)
  <2>1. In(Top.cond, contextFunc, step)
    BY <1>2, <1>5, InGrows DEF Builds, Added, TypeOK
  <2> QED
    BY <2>1, AimsAt
<1> HIDE DEF u
<1>7. /\ Builds(blocks', 0, ({} \cup {contextBlock}) \cup {Top.post},
                ({} \ {contextBlock}) \ {Top.post})
      /\ Local(blocks', 0, ({} \cup {contextBlock}) \cup {Top.post})
  BY <1>1, <1>2, <1>5, <1>6, BuildsTerminate
<1>8. /\ ({} \cup {contextBlock}) \cup {Top.post} = {contextBlock, Top.post}
      /\ ({} \ {contextBlock}) \ {Top.post} = {}
  OBVIOUS
<1> QED
  BY <1>7, <1>8

\* BeginFor ends the current block; of the blocks of the loop only the post block, the
\* one after and the one where the body goes on have no terminator.
LEMMA BeginForBuilds ==
  ASSUME TypeOK, OwnedNow, NEW form \in {"plain", "checked", "range"}, BeginFor(form)
  PROVE  LET n == IF form = "plain" THEN 4 ELSE 6 IN
           /\ Builds(blocks', n, {contextBlock}, {Fresh(3), Fresh(4), contextBlock'})
           /\ Local(blocks', n, {contextBlock})
<1> DEFINE f       == contextFunc
           cond    == Fresh(1)
           body    == Fresh(2)
           after   == Fresh(4)
           made    == [i \in 1 .. 4 |-> NewBlock(f)]
           new     == {Fresh(1), Fresh(2), Fresh(3), Fresh(4)}
           before  == Emit(blocks, contextBlock, [at |-> Here, tag |-> "init"])
           entered == Terminate(before \o made, contextBlock, Br(cond))
           tested  == IF form = "checked" THEN Checked(entered, cond, Here, f) ELSE entered
           test    == IF form = "checked" THEN Fresh(6) ELSE cond
           asked   == Emit(tested, test, [at |-> Here, tag |-> "cond"])
           looped  == Terminate(asked, test, CondBr(body, after))
           k       == IF form = "checked" THEN 6 ELSE 4
           n       == IF form = "plain" THEN 4 ELSE 6
<1>1. /\ frames # << >> /\ f \in Nat \ {0} /\ blocks[contextBlock].fn = f
      /\ contextBlock \in 1 .. Len(blocks) /\ Len(blocks) \in Nat /\ Here \in Nat
      /\ \A m \in Nat : contextBlock \in 1 .. Len(blocks) + m
  <2>1. frames # << >>
    BY DEF BeginFor, StatementAllowed, CanStand
  <2> QED
    BY <2>1, Now, Context
<1>2. /\ blocks' = IF form = "range" THEN Checked(looped, body, Here, f) ELSE looped
      /\ contextBlock' = IF form = "range" THEN Fresh(6) ELSE body
  BY <1>1 DEF BeginFor
<1>3. /\ [at |-> Here, tag |-> "init"] \in Item /\ [at |-> Here, tag |-> "cond"] \in Item
      /\ Br(cond) \in Term /\ FlowTerm(Br(cond))
      /\ CondBr(body, after) \in Term /\ FlowTerm(CondBr(body, after))
  BY <1>1, ItemTypes, FreshBlocks, TermTypes, Kinds DEF Tags
<1>4. /\ Fresh(1) = Len(blocks) + 1 /\ Fresh(2) = Len(blocks) + 2 /\ Fresh(3) = Len(blocks) + 3
      /\ Fresh(4) = Len(blocks) + 4 /\ Fresh(5) = Len(blocks) + 5 /\ Fresh(6) = Len(blocks) + 6
  BY Numbers
<1>5. AllOf(made, 4, f) /\ \A i \in 1 .. 4 : made[i].term = NoTerm
  <2> HIDE DEF f
  <2>1. NewBlock(f) \in BasicBlock /\ NewBlock(f).fn = f /\ NewBlock(f).term = NoTerm
    BY <1>1, MadeOf, MadeTerm
  <2> QED
    BY <2>1 DEF AllOf
<1>6. Builds(entered, 4, {contextBlock}, new) /\ Local(entered, 4, {contextBlock})
  <2>1. Builds(before, 0, {}, {}) /\ Local(before, 0, {})
    BY <1>1, <1>3, BuildsNone, BuildsEmit
  <2> HIDE DEF before, made
  <2>2. Builds(before \o made, 0 + 4, {}, {} \cup new) /\ Local(before \o made, 0 + 4, {})
    <3>1. \A i \in 1 .. 4 : /\ made[i].term = NoTerm /\ Fresh(0 + i) \in new
                            /\ Aims(made[i].term, contextFunc, before \o made)
      BY <1>5, AimsAt
    <3> QED
      BY <1>1, <1>5, <2>1, <3>1, BuildsConcat
  <2> DEFINE made4 == before \o made
  <2>3. Builds(made4, 4, {}, new) /\ Local(made4, 4, {})
    <3>1. 0 + 4 = 4 /\ {} \cup new = new
      OBVIOUS
    <3> QED
      BY <2>2, <3>1
  <2>4. Aims(Br(cond), contextFunc, made4)
    <3>1. In(Fresh(1), contextFunc, made4)
      BY <2>3, AddedIn DEF Builds
    <3> QED
      BY <3>1, AimsAt
  <2> HIDE DEF made4
  <2>5. /\ Builds(Terminate(made4, contextBlock, Br(cond)), 4, {} \cup {contextBlock},
                  new \ {contextBlock})
        /\ Local(Terminate(made4, contextBlock, Br(cond)), 4, {} \cup {contextBlock})
    <3> HIDE DEF cond, new
    <3> QED
      BY <1>1, <1>3, <2>3, <2>4, BuildsTerminate
  <2>6. {} \cup {contextBlock} = {contextBlock} /\ entered = Terminate(made4, contextBlock, Br(cond))
    BY DEF made4
  <2> HIDE DEF entered
  <2>7. Builds(entered, 4, {contextBlock}, new \ {contextBlock}) /\ Local(entered, 4, {contextBlock})
    BY <2>5, <2>6
  <2> QED
    BY <2>7, BuildsAs
<1> HIDE DEF entered, f
<1>7. /\ Builds(tested, k, {contextBlock}, {Fresh(2), Fresh(3), Fresh(4), test})
      /\ Local(tested, k, {contextBlock})
  <2>1. CASE form = "checked"
    <3>1. cond \in 1 .. Len(blocks) + 4
      BY <1>1, <1>4
    <3>2. /\ Builds(tested, 4 + 2, {contextBlock} \cup {cond}, (new \cup {Fresh(4 + 2)}) \ {cond})
          /\ Local(tested, 4 + 2, {contextBlock} \cup {cond})
      <4> HIDE DEF cond, new
      <4> QED
        BY <1>1, <1>6, <2>1, <3>1, BuildsChecked DEF f
    <3>3. 4 + 2 = 6 /\ k = 6 /\ test = Fresh(6)
      BY <2>1
    <3>4. \A c \in 1 .. Len(blocks) : c \in {contextBlock} \cup {cond} <=> c \in {contextBlock}
      BY <1>1, <1>4
    <3>5. \A i \in 1 .. 6 : Fresh(i) \in (new \cup {Fresh(6)}) \ {cond} =>
            Fresh(i) \in {Fresh(2), Fresh(3), Fresh(4), test}
      BY <3>3
    <3> HIDE DEF tested, k, test, new, cond
    <3>6. /\ Builds(tested, 6, {contextBlock} \cup {cond}, (new \cup {Fresh(6)}) \ {cond})
          /\ Local(tested, 6, {contextBlock} \cup {cond})
      BY <3>2, <3>3
    <3>7. /\ Builds(tested, 6, {contextBlock}, {Fresh(2), Fresh(3), Fresh(4), test})
          /\ Local(tested, 6, {contextBlock})
      <4> DEFINE W == {contextBlock} \cup {cond}
                 K == (new \cup {Fresh(6)}) \ {cond}
                 V == {contextBlock}
                 L == {Fresh(2), Fresh(3), Fresh(4), test}
      <4>1. /\ Builds(tested, 6, W, K) /\ Local(tested, 6, W)
            /\ \A c \in 1 .. Len(blocks) : c \in W <=> c \in V
            /\ \A i \in 1 .. 6 : Fresh(i) \in K => Fresh(i) \in L
        BY <3>4, <3>5, <3>6
      <4> HIDE DEF W, K, V, L
      <4>2. Builds(tested, 6, V, L) /\ Local(tested, 6, V)
        BY <4>1, BuildsAs
      <4> QED
        BY <4>2 DEF V, L
    <3> QED
      BY <3>3, <3>7
  <2>2. CASE form # "checked"
    <3>1. tested = entered /\ k = 4 /\ test = cond
      BY <2>2
    <3>2. \A x : x \in new => x \in {Fresh(2), Fresh(3), Fresh(4), test}
      BY <3>1
    <3> HIDE DEF tested, k, test, new
    <3> QED
      BY <1>6, <3>1, <3>2, BuildsAs
  <2> QED
    BY <2>1, <2>2
<1>8. /\ test \in 1 .. Len(blocks) + k /\ k \in Nat /\ test # Fresh(2) /\ test # Fresh(3)
      /\ test # Fresh(4) /\ test \notin 1 .. Len(blocks) /\ k \in {4, 6}
  BY <1>1, <1>4, SMTT(20)
<1> HIDE DEF tested, test
<1>9. /\ Builds(looped, k, {contextBlock}, {Fresh(2), Fresh(3), Fresh(4)})
      /\ Local(looped, k, {contextBlock})
  <2> DEFINE K == {Fresh(2), Fresh(3), Fresh(4), test}
  <2> HIDE DEF k, K
  <2>1. Builds(asked, k, {contextBlock}, K) /\ Local(asked, k, {contextBlock})
    BY <1>1, <1>3, <1>7, <1>8, BuildsEmit DEF K
  <2>2. Aims(CondBr(body, after), contextFunc, asked)
    <3>1. Added(blocks, asked, k, contextFunc) /\ 2 \in 1 .. k /\ 4 \in 1 .. k
      BY <1>8, <2>1 DEF Builds
    <3>2. In(Fresh(2), contextFunc, asked) /\ In(Fresh(4), contextFunc, asked)
      BY <1>8, <3>1, AddedIn
    <3> QED
      BY <3>2, AimsAt
  <2> HIDE DEF asked, body, after
  <2>3. /\ Builds(looped, k, {contextBlock} \cup {test}, K \ {test})
        /\ Local(looped, k, {contextBlock} \cup {test})
    BY <1>1, <1>3, <1>8, <2>1, <2>2, BuildsTerminate
  <2>4. /\ \A c \in 1 .. Len(blocks) : c \in {contextBlock} \cup {test} <=> c \in {contextBlock}
        /\ \A i \in 1 .. k : Fresh(i) \in K \ {test} => Fresh(i) \in {Fresh(2), Fresh(3), Fresh(4)}
    BY <1>8 DEF K
  <2> HIDE DEF looped
  <2> QED
    BY <2>3, <2>4, BuildsAs
<1> HIDE DEF looped
<1>10. CASE form = "range"
  <2>1. body \in 1 .. Len(blocks) + 4
    BY <1>1, <1>4
  <2> DEFINE K == {Fresh(2), Fresh(3), Fresh(4)}
  <2>2. k = 4 /\ n = 6 /\ contextBlock' = Fresh(6) /\ 4 + 2 = 6
    BY <1>2, <1>10
  <2>3. /\ Builds(blocks', 4 + 2, {contextBlock} \cup {body}, (K \cup {Fresh(4 + 2)}) \ {body})
        /\ Local(blocks', 4 + 2, {contextBlock} \cup {body})
    <3>1. Builds(looped, 4, {contextBlock}, K) /\ Local(looped, 4, {contextBlock})
      BY <1>9, <2>2
    <3>2. blocks' = Checked(looped, body, Here, contextFunc)
      BY <1>2, <1>10 DEF f
    <3> HIDE DEF K, body
    <3> QED
      BY <1>1, <2>1, <3>1, <3>2, BuildsChecked
  <2>4. \A c \in 1 .. Len(blocks) : c \in {contextBlock} \cup {body} <=> c \in {contextBlock}
    BY <1>1, <1>4
  <2>5. \A x : x \in (K \cup {Fresh(6)}) \ {body} => x \in {Fresh(3), Fresh(4), contextBlock'}
    BY <2>2
  <2> HIDE DEF K, body, n
  <2>6. /\ Builds(blocks', 6, {contextBlock} \cup {body}, (K \cup {Fresh(6)}) \ {body})
        /\ Local(blocks', 6, {contextBlock} \cup {body})
    BY <2>2, <2>3
  <2>7. /\ Builds(blocks', 6, {contextBlock}, {Fresh(3), Fresh(4), contextBlock'})
        /\ Local(blocks', 6, {contextBlock})
    BY <2>4, <2>5, <2>6, BuildsAs
  <2> QED
    BY <2>2, <2>7 DEF n
<1>11. CASE form # "range"
  <2>1. blocks' = looped /\ contextBlock' = Fresh(2) /\ k = n
    BY <1>2, <1>11
  <2> HIDE DEF k, n
  <2>2. \A x : x \in {Fresh(2), Fresh(3), Fresh(4)} => x \in {Fresh(3), Fresh(4), contextBlock'}
    BY <2>1
  <2>3. /\ Builds(blocks', n, {contextBlock}, {Fresh(3), Fresh(4), contextBlock'})
        /\ Local(blocks', n, {contextBlock})
    BY <1>9, <2>1, <2>2, BuildsAs
  <2> QED
    BY <2>3 DEF n
<1> QED
  BY <1>10, <1>11

-----------------------------------------------------------------------------
(* break, continue and switch                                                *)

\* A jump ends the current block.
LEMMA JumpBuilds ==
  ASSUME TypeOK, OwnedNow, frames # << >>, NEW b \in Block,
         blocks' = Terminate(blocks, contextBlock, Br(b))
  PROVE  /\ Builds(blocks', 0, {contextBlock}, {})
         /\ In(b, contextFunc, blocks) => Local(blocks', 0, {contextBlock})
<1>1. Br(b) \in Term /\ FlowTerm(Br(b)) /\ contextBlock \in 1 .. Len(blocks) + 0
  BY TermTypes, Kinds, Now
<1>2. In(b, contextFunc, blocks) => Aims(Br(b), contextFunc, blocks)
  BY AimsAt
<1> DEFINE t == Br(b)
<1>3. t = Br(b)
  OBVIOUS
<1> HIDE DEF t
<1>4. /\ Builds(blocks', 0, {} \cup {contextBlock}, {} \ {contextBlock})
      /\ Aims(t, contextFunc, blocks) => Local(blocks', 0, {} \cup {contextBlock})
  BY <1>1, <1>3, BuildsNone, BuildsTerminate
<1>5. {} \cup {contextBlock} = {contextBlock} /\ {} \ {contextBlock} = {}
  OBVIOUS
<1> QED
  BY <1>2, <1>3, <1>4, <1>5

\* The calls above a call that open no function are calls of its function.
LEMMA OwnerBetween ==
  ASSUME TypeOK, OwnedNow, NEW i \in 1 .. Len(frames),
         \A k \in i + 1 .. Len(frames) : frames[k].kind # "func"
  PROVE  OwnerOf(frames[i], blocks) = contextFunc
<1> DEFINE S == {k \in i .. Len(frames) : OwnerOf(frames[k], blocks) # OwnerOf(frames[i], blocks)}
<1>1. Len(frames) \in Nat
  BY CallTypes
<1>2. S = {}
  <2>1. SUFFICES ASSUME S # {} PROVE FALSE
    OBVIOUS
  <2>2. PICK m \in S : \A k \in S : m <= k
    <3>1. S \in SUBSET Nat
      BY <1>1
    <3> HIDE DEF S
    <3> QED
      BY <2>1, <3>1, Least
  <2>3. m \in i + 1 .. Len(frames) /\ m - 1 \in i .. Len(frames) /\ m - 1 \notin S
    BY <1>1, <2>2
  <2>4. OwnerOf(frames[m - 1], blocks) = OwnerOf(frames[i], blocks)
    BY <2>3
  <2>5. /\ m \in 1 .. Len(frames) /\ m - 1 # 0
        /\ frames[m] \in Frame /\ frames[m].kind # "func"
    BY <1>1, <2>3, CallTypes
  <2>6. FrameOwned(frames[m], OwnerOf(frames[m - 1], blocks), blocks, Len(funcs))
    BY <2>5 DEF OwnedNow, Owned, OwnerAt
  <2>7. OwnerOf(frames[m], blocks) = OwnerOf(frames[m - 1], blocks)
    BY <2>5, <2>6, OwnerGrows, GrowsRefl DEF TypeOK
  <2> QED
    BY <2>2, <2>4, <2>7
<1>3. Len(frames) \in i .. Len(frames) /\ Len(frames) # 0
  BY <1>1
<1>4. OwnerOf(frames[Len(frames)], blocks) = OwnerOf(frames[i], blocks)
  BY <1>2, <1>3
<1> QED
  BY <1>3, <1>4 DEF OwnedNow, Owned, OwnerAt

\* The blocks of the innermost loop belong to the function being compiled.
LEMMA LoopOwned ==
  ASSUME TypeOK, OwnedNow, StacksRight, LoopsOpen # {}
  PROVE  /\ contextLoopBreak # << >> /\ contextLoopContinue # << >>
         /\ In(Last(contextLoopBreak), contextFunc, blocks)
         /\ In(Last(contextLoopContinue), contextFunc, blocks)
<1> DEFINE i == InnermostOf(LoopsOpen)
<1>1. /\ i \in 1 .. Len(frames) /\ frames[i].kind = "for" /\ Inner(i)
      /\ frames[i] \in Frame
  <2>1. LoopsOpen \in SUBSET (DOMAIN frames)
    BY DEF LoopsOpen
  <2>2. i \in LoopsOpen
    BY <2>1, InnermostType
  <2> HIDE DEF i
  <2> QED
    BY <2>2, CallTypes DEF LoopsOpen
<1>2. /\ contextLoopBreak # << >> /\ contextLoopContinue # << >>
      /\ Last(contextLoopBreak) = frames[i].after
      /\ Last(contextLoopContinue) = frames[i].post
  BY InnermostRight
<1> HIDE DEF i
<1>3. OwnerOf(frames[i], blocks) = contextFunc
  <2>1. \A k \in i + 1 .. Len(frames) : k \in i .. Len(frames)
    BY <1>1, CallTypes
  <2> QED
    BY <1>1, <2>1, OwnerBetween DEF Inner
<1>4. FrameOwned(frames[i], OwnerAt(i - 1, frames, blocks), blocks, Len(funcs))
  BY <1>1 DEF OwnedNow, Owned
<1>5. OwnerAt(i - 1, frames, blocks) = contextFunc
  BY <1>1, <1>3, <1>4, OwnerGrows, GrowsRefl DEF TypeOK
<1> QED
  BY <1>1, <1>2, <1>4, <1>5 DEF FrameOwned

\* A break or continue jumps in its function when a loop of it is open; when no loop is,
\* to whatever is on top of the stack, or nothing happens to the blocks.
LEMMA BreakBuilds ==
  ASSUME TypeOK, OwnedNow, StacksRight, Break \/ Continue
  PROVE  /\ blocks' = blocks \/ Builds(blocks', 0, {contextBlock}, {})
         /\ LoopsOpen # {} => /\ status' = status
                              /\ Builds(blocks', 0, {contextBlock}, {})
                              /\ Local(blocks', 0, {contextBlock})
<1>1. frames # << >>
  BY DEF Break, Continue, JumpAllowed, StatementAllowed, CanStand
<1> DEFINE Jump(s) ==
      \/ s # << >> /\ blocks' = Terminate(blocks, contextBlock, Br(Last(s))) /\ status' = status
      \/ s = << >> /\ blocks' = blocks
<1>2. Jump(contextLoopBreak) \/ Jump(contextLoopContinue)
  BY DEF Break, Continue
<1>3. ASSUME NEW s \in Seq(Block), Jump(s)
      PROVE  /\ blocks' = blocks \/ Builds(blocks', 0, {contextBlock}, {})
             /\ s # << >> => /\ status' = status
                             /\ Builds(blocks', 0, {contextBlock}, {})
                             /\ In(Last(s), contextFunc, blocks) => Local(blocks', 0, {contextBlock})
  <2>1. s # << >> => Last(s) \in Block
    BY FrontType
  <2> QED
    BY <1>1, <1>3, <2>1, JumpBuilds
<1> HIDE DEF Jump
<1>4. contextLoopBreak \in Seq(Block) /\ contextLoopContinue \in Seq(Block)
  BY DEF TypeOK
<1> QED
  BY <1>2, <1>3, <1>4, LoopOwned

\* BeginSwitch makes the block after and the default's, which goes on to the one after
\* if the switch has no default.
LEMMA BeginSwitchBuilds ==
  ASSUME TypeOK, OwnedNow, NEW hasDefault \in BOOLEAN, BeginSwitch(hasDefault)
  PROVE  /\ Builds(blocks', 2, {}, IF hasDefault THEN {Fresh(1), Fresh(2)} ELSE {Fresh(1)})
         /\ Local(blocks', 2, {})
<1> DEFINE item == Emit(blocks, contextBlock, [at |-> Here, tag |-> "switch"])
           new  == <<NewBlock(contextFunc), NewBlock(contextFunc)>>
           made == item \o new
           t    == Br(Fresh(1))
<1>1. frames # << >>
  BY DEF BeginSwitch, StatementAllowed, CanStand
<1>2. blocks' = IF hasDefault THEN made ELSE Terminate(made, Fresh(2), t)
  <2>1. blocks[contextBlock].fn = contextFunc
    BY <1>1, Now
  <2> QED
    BY <2>1 DEF BeginSwitch
<1>3. Builds(item, 0, {}, {}) /\ Local(item, 0, {})
  BY <1>1, Now, BuildsNone, BuildsEmit DEF Tags
<1>4. AllOf(new, 2, contextFunc) /\ \A i \in 1 .. 2 : new[i].term = NoTerm
  <2>1. AllOf(new, 2, contextFunc)
    BY <1>1, Now, MadeOf
  <2>2. new[1].term = NoTerm /\ new[2].term = NoTerm
    BY MadeTerm
  <2> QED
    BY <2>1, <2>2
<1> HIDE DEF new, item
<1>5. Builds(made, 2, {}, {Fresh(1), Fresh(2)}) /\ Local(made, 2, {})
  <2>1. \A i \in 1 .. 2 : /\ new[i].term = NoTerm /\ Fresh(0 + i) \in {Fresh(1), Fresh(2)}
                          /\ Aims(new[i].term, contextFunc, made)
    BY <1>4, AimsAt
  <2>2. /\ Builds(made, 0 + 2, {}, {} \cup {Fresh(1), Fresh(2)})
        /\ Local(made, 0 + 2, {})
    BY <1>1, <1>3, <1>4, <2>1, BuildsConcat
  <2>3. 0 + 2 = 2 /\ {} \cup {Fresh(1), Fresh(2)} = {Fresh(1), Fresh(2)}
    OBVIOUS
  <2> QED
    BY <2>2, <2>3
<1> HIDE DEF made
<1>6. /\ Builds(Terminate(made, Fresh(2), t), 2, {}, {Fresh(1)})
      /\ Local(Terminate(made, Fresh(2), t), 2, {})
  <2>1. t \in Term /\ FlowTerm(t)
    BY FreshBlocks, TermTypes, Kinds
  <2>2. Aims(t, contextFunc, made)
    <3>1. Added(blocks, made, 2, contextFunc) /\ 1 \in 1 .. 2
      BY <1>5 DEF Builds
    <3>2. In(Fresh(1), contextFunc, made)
      BY <3>1, AddedIn
    <3> QED
      BY <3>2, AimsAt
  <2>3. Fresh(2) = Len(blocks) + 2 /\ Len(blocks) \in Nat
    BY Numbers
  <2>4. Fresh(2) \in 1 .. Len(blocks) + 2 /\ Fresh(2) \notin 1 .. Len(blocks)
    BY <2>3
  <2> HIDE DEF t
  <2> DEFINE cs == Terminate(made, Fresh(2), t)
  <2>5. /\ Builds(cs, 2, {} \cup {Fresh(2)}, {Fresh(1), Fresh(2)} \ {Fresh(2)})
        /\ Local(cs, 2, {} \cup {Fresh(2)})
    BY <1>1, <1>5, <2>1, <2>2, <2>4, BuildsTerminate
  <2> HIDE DEF cs
  <2>6. \A c \in 1 .. Len(blocks) : c \in {} \cup {Fresh(2)} <=> c \in {}
    BY <2>4
  <2>7. \A i \in 1 .. 2 : Fresh(i) \in {Fresh(1), Fresh(2)} \ {Fresh(2)} => Fresh(i) \in {Fresh(1)}
    OBVIOUS
  <2>8. Builds(cs, 2, {}, {Fresh(1)}) /\ Local(cs, 2, {})
    BY <2>5, <2>6, <2>7, BuildsAs
  <2> QED
    BY <2>8 DEF cs
<1> QED
  BY <1>2, <1>5, <1>6

\* EndDefault ends the block the default begins in.
LEMMA EndDefaultBuilds ==
  ASSUME TypeOK, OwnedNow, EndDefault
  PROVE  Builds(blocks', 0, {Top.dflt}, {}) /\ Local(blocks', 0, {Top.dflt})
<1> DEFINE t == Br(Top.after)
<1>1. /\ frames # << >> /\ Top.kind = "switch" /\ blocks' = Terminate(blocks, Top.dflt, t)
  BY DEF EndDefault, Open
<1>2. /\ t \in Term /\ FlowTerm(t) /\ Aims(t, contextFunc, blocks)
      /\ Top.dflt \in 1 .. Len(blocks) + 0
  BY <1>1, SwitchOwned, TermTypes, Kinds, AimsAt
<1> HIDE DEF t
<1>3. /\ Builds(blocks', 0, {} \cup {Top.dflt}, {} \ {Top.dflt})
      /\ Local(blocks', 0, {} \cup {Top.dflt})
  BY <1>1, <1>2, BuildsNone, BuildsTerminate
<1>4. {} \cup {Top.dflt} = {Top.dflt} /\ {} \ {Top.dflt} = {}
  OBVIOUS
<1> QED
  BY <1>3, <1>4

\* BeginCase makes the block of the case.
LEMMA BeginCaseBuilds ==
  ASSUME TypeOK, OwnedNow, BeginCase
  PROVE  Builds(blocks', 1, {}, {Fresh(1)}) /\ Local(blocks', 1, {})
<1> DEFINE new == <<NewBlock(contextFunc)>>
<1>1. frames # << >>
  BY DEF BeginCase, Open
<1>2. blocks' = blocks \o new
  <2>1. blocks' = Append(blocks, NewBlock(contextFunc))
    BY <1>1, Now DEF BeginCase
  <2>2. NewBlock(contextFunc) \in BasicBlock /\ blocks \in Seq(BasicBlock)
    BY <1>1, Now, MadeOf
  <2> QED
    BY <2>1, <2>2, AppendIsConcat
<1>3. AllOf(new, 1, contextFunc) /\ \A i \in 1 .. 1 : new[i].term = NoTerm
  <2>1. AllOf(new, 1, contextFunc)
    BY <1>1, Now, MadeOf
  <2>2. new[1].term = NoTerm
    BY MadeTerm
  <2> QED
    BY <2>1, <2>2
<1> HIDE DEF new
<1>4. \A i \in 1 .. 1 : /\ new[i].term = NoTerm /\ Fresh(0 + i) \in {Fresh(1)}
                        /\ Aims(new[i].term, contextFunc, blocks \o new)
  BY <1>3, AimsAt
<1>5. /\ Builds(blocks \o new, 0 + 1, {}, {} \cup {Fresh(1)})
      /\ Local(blocks \o new, 0 + 1, {})
  BY <1>1, <1>3, <1>4, BuildsNone, BuildsConcat
<1>6. 0 + 1 = 1 /\ {} \cup {Fresh(1)} = {Fresh(1)}
  OBVIOUS
<1> QED
  BY <1>2, <1>5, <1>6

\* The blocks of the cases of the innermost switch.
CaseBlocks == {Top.cases[k] : k \in 1 .. Len(Top.cases)}

\* EndSwitch ends the block every case begins in and the one the switch stands in; if the
\* last case falls through, the compiler fails.
LEMMA EndSwitchBuilds ==
  ASSUME TypeOK, OwnedNow, EndSwitch
  PROVE  \/ status' = "failed" /\ UNCHANGED <<blocks, contextBlock, frames>>
         \/ /\ Builds(blocks', 0, {contextBlock} \cup CaseBlocks, {})
            /\ (\A b \in CaseBlocks : In(b, contextFunc, blocks)) =>
                 Local(blocks', 0, {contextBlock} \cup CaseBlocks)
            /\ contextBlock' = Top.after /\ frames' = Front(frames) /\ status' = status
<1> DEFINE n       == Len(Top.cases)
           falls   == n > 0 /\ Top.through[n]
           exit(i) == IF Top.through[i] THEN Top.cases[i + 1] ELSE Top.after
           case(b) == CHOOSE i \in 1 .. n : Top.cases[i] = b
           ended   == [b \in DOMAIN blocks |->
                         IF \E i \in 1 .. n : Top.cases[i] = b
                           THEN [blocks[b] EXCEPT !.term = Br(exit(case(b)))]
                           ELSE blocks[b]]
           t       == Switch(<<Top.dflt>> \o Top.cases)
           local   == \A b \in CaseBlocks : In(b, contextFunc, blocks)
<1>1. /\ frames # << >> /\ Top.kind = "switch"
      /\ falls => status' = "failed" /\ UNCHANGED <<blocks, contextBlock, frames>>
      /\ ~ falls => /\ blocks' = Terminate(ended, contextBlock, t)
                    /\ contextBlock' = Top.after /\ frames' = Front(frames) /\ status' = status
  BY DEF EndSwitch, Open
<1>2. Top.cases \in Seq(Block) /\ n \in Nat /\ Top.after \in Block
  <2>1. Top \in SwitchFrame
    BY <1>1, SwitchOwned
  <2> HIDE DEF Top
  <2> QED
    BY <2>1, LenProperties DEF SwitchFrame
<1> SUFFICES ASSUME ~ falls
             PROVE  /\ Builds(blocks', 0, {contextBlock} \cup CaseBlocks, {})
                    /\ local => Local(blocks', 0, {contextBlock} \cup CaseBlocks)
  BY <1>1
<1>3. \A i \in 1 .. n : exit(i) \in Block /\ (local => In(exit(i), contextFunc, blocks))
  <2> TAKE i \in 1 .. n
  <2>1. CASE ~ Top.through[i]
    BY <1>1, <1>2, <2>1, SwitchOwned
  <2>2. CASE Top.through[i]
    <3>1. i # n
      BY <1>2, <2>2
    <3>2. i + 1 \in 1 .. n
      BY <1>2, <3>1
    <3>3. Top.cases[i + 1] \in Block /\ Top.cases[i + 1] \in CaseBlocks
      BY <1>2, <3>2, ElementOfSeq DEF CaseBlocks
    <3> QED
      BY <2>2, <3>3
  <2> QED
    BY <2>1, <2>2
<1>4. \A b \in CaseBlocks : case(b) \in 1 .. n
  BY DEF CaseBlocks
<1>5. \A b \in 1 .. Len(blocks) :
        /\ ended[b] \in BasicBlock /\ ended[b].fn = blocks[b].fn
        /\ b \notin CaseBlocks => ended[b].term = blocks[b].term
        /\ b \in CaseBlocks => ended[b].term = Br(exit(case(b)))
  <2> TAKE b \in 1 .. Len(blocks)
  <2>1. /\ blocks[b] \in BasicBlock /\ DOMAIN blocks = 1 .. Len(blocks)
        /\ b \in CaseBlocks <=> \E i \in 1 .. n : Top.cases[i] = b
    BY ElementOfSeq, LenProperties DEF TypeOK, CaseBlocks
  <2>2. CASE b \in CaseBlocks
    <3>1. exit(case(b)) \in Block
      BY <1>3, <1>4, <2>2
    <3>2. ended[b] = [blocks[b] EXCEPT !.term = Br(exit(case(b)))]
      BY <2>1, <2>2
    <3> HIDE DEF ended, exit, case
    <3>3. Br(exit(case(b))) \in Term
      BY <3>1, TermTypes
    <3> QED
      BY <2>1, <2>2, <3>2, <3>3 DEF BasicBlock
  <2>3. CASE b \notin CaseBlocks
    <3>1. ended[b] = blocks[b]
      BY <2>1, <2>3
    <3> HIDE DEF ended
    <3> QED
      BY <2>1, <2>3, <3>1
  <2> QED
    BY <2>2, <2>3
<1>6. ended \in Seq(BasicBlock) /\ Len(ended) = Len(blocks) /\ Added(blocks, ended, 0, contextFunc)
  <2>1. blocks \in Seq(BasicBlock) /\ DOMAIN blocks = 1 .. Len(blocks) /\ Len(blocks) \in Nat
    BY LenProperties DEF TypeOK
  <2>2. ended = [b \in 1 .. Len(blocks) |-> ended[b]]
    BY <2>1
  <2> HIDE DEF ended
  <2>3. ended \in Seq(BasicBlock) /\ Len(ended) = Len(blocks)
    BY <1>5, <2>1, <2>2, IsASeq
  <2>4. \A b \in 1 .. Len(blocks) : ended[b].fn = blocks[b].fn
    BY <1>5
  <2> QED
    BY ONLY <2>1, <2>3, <2>4 DEF Added, Grows
<1> HIDE DEF ended
<1>7. Builds(ended, 0, CaseBlocks, {}) /\ (local => Local(ended, 0, CaseBlocks))
  <2>1. \A b : FlowTerm(Br(b))
    BY Kinds
  <2>2. \A b \in CaseBlocks : local => Aims(Br(exit(case(b))), contextFunc, ended)
    <3> TAKE b \in CaseBlocks
    <3> HAVE local
    <3>1. In(exit(case(b)), contextFunc, blocks)
      BY <1>3, <1>4
    <3> HIDE DEF exit, case
    <3>2. In(exit(case(b)), contextFunc, ended)
      BY <1>6, <3>1, InGrows DEF Added, TypeOK
    <3> QED
      BY <3>2, AimsAt
  <2> HIDE DEF exit, case, local
  <2>3. Builds(ended, 0, CaseBlocks, {})
    BY <1>5, <1>6, <2>1 DEF Builds
  <2>4. local => Local(ended, 0, CaseBlocks)
    BY <1>5, <2>2 DEF Local
  <2> QED
    BY <2>3, <2>4
<1>8. /\ t \in Term /\ FlowTerm(t)
      /\ local => Aims(t, contextFunc, ended)
  <2> DEFINE to == <<Top.dflt>> \o Top.cases
  <2>1. <<Top.dflt>> \in Seq(Block)
    BY <1>1, SwitchOwned
  <2>2. /\ to \in Seq(Block) /\ Len(to) = 1 + n
        /\ \A i \in 1 .. 1 + n : to[i] = IF i <= 1 THEN Top.dflt ELSE Top.cases[i - 1]
    BY <1>2, <2>1, ConcatProperties
  <2>3. ASSUME local, NEW i \in DOMAIN to
        PROVE  In(to[i], contextFunc, ended)
    <3>1. i \in 1 .. 1 + n
      <4> HIDE DEF to
      <4> QED
        BY <2>2
    <3>2. In(to[i], contextFunc, blocks)
      <4>1. CASE i <= 1
        BY <1>1, <2>2, <3>1, <4>1, SwitchOwned
      <4>2. CASE ~ (i <= 1)
        <5>1. i - 1 \in 1 .. n
          BY <1>2, <3>1, <4>2
        <5>2. to[i] = Top.cases[i - 1]
          BY <2>2, <3>1, <4>2
        <5>3. Top.cases[i - 1] \in CaseBlocks
          BY <5>1 DEF CaseBlocks
        <5> HIDE DEF to
        <5> QED
          BY <2>3, <5>2, <5>3
      <4> QED
        BY <4>1, <4>2
    <3> HIDE DEF to
    <3> QED
      BY <1>6, <3>2, InGrows DEF Added, TypeOK
  <2> HIDE DEF to
  <2>4. t = Switch(to)
    BY DEF to
  <2> QED
    BY <2>2, <2>3, <2>4, TermTypes, Kinds DEF Aims, Switch
<1> HIDE DEF t
<1>9. contextBlock \in 1 .. Len(blocks) + 0
  BY <1>1, Now
<1>10. /\ Builds(Terminate(ended, contextBlock, t), 0, CaseBlocks \cup {contextBlock},
                 {} \ {contextBlock})
       /\ local => Local(Terminate(ended, contextBlock, t), 0, CaseBlocks \cup {contextBlock})
  <2> HIDE DEF local
  <2> QED
    BY <1>1, <1>7, <1>8, <1>9, BuildsTerminate
<1>11. /\ CaseBlocks \cup {contextBlock} = {contextBlock} \cup CaseBlocks
       /\ {} \ {contextBlock} = {}
  OBVIOUS
<1> HIDE DEF local
<1> QED
  BY <1>1, <1>10, <1>11

-----------------------------------------------------------------------------
(* Functions and return                                                      *)

\* cs is blocks with terminator t in the current block.
Returns(cs, t) ==
  /\ cs \in Seq(BasicBlock)
  /\ Len(cs) = Len(blocks)
  /\ \A c \in 1 .. Len(blocks) :
       /\ cs[c].term = IF c = contextBlock THEN t ELSE blocks[c].term
       /\ cs[c].fn = blocks[c].fn

\* A return instruction is emitted at the end of the current block.
LEMMA ReturnTerms ==
  ASSUME TypeOK, OwnedNow, frames # << >>, NEW t \in Term
  PROVE  Returns(Terminate(Emit(blocks, contextBlock, [at |-> Here, tag |-> "ret"]),
                           contextBlock, t), t)
<1> DEFINE es == Emit(blocks, contextBlock, [at |-> Here, tag |-> "ret"])
<1>1. contextBlock \in 1 .. Len(blocks) /\ blocks \in Seq(BasicBlock)
  BY Context DEF TypeOK
<1>2. SameTerms(blocks, es)
  BY <1>1, Now, EmitTerms DEF Tags
<1> HIDE DEF es
<1>3. es \in Seq(BasicBlock) /\ Len(es) = Len(blocks)
  BY <1>2 DEF SameTerms
<1>4. /\ Terminate(es, contextBlock, t) \in Seq(BasicBlock)
      /\ Len(Terminate(es, contextBlock, t)) = Len(es)
      /\ \A c \in 1 .. Len(es) :
           /\ Terminate(es, contextBlock, t)[c].term = IF c = contextBlock THEN t ELSE es[c].term
           /\ Terminate(es, contextBlock, t)[c].fn = es[c].fn
  <2>1. contextBlock \in 1 .. Len(es)
    BY <1>1, <1>3
  <2> QED
    BY <1>3, <2>1, TerminateTerms
<1>5. Returns(Terminate(es, contextBlock, t), t)
  BY <1>2, <1>3, <1>4 DEF Returns, SameTerms
<1> QED
  BY <1>5 DEF es

\* The functions of the module keep their results, and all but f whether they are complete.
FuncsKept(f) ==
  /\ funcs' \in Seq(Func)
  /\ Len(funcs) <= Len(funcs')
  /\ \A k \in 1 .. Len(funcs) :
       /\ funcs'[k].results = funcs[k].results
       /\ k # f => funcs'[k].complete = funcs[k].complete

\* BeginFunc adds a function with an entry block, of a method also the function that
\* interfaces call it through, which is complete: its block returns.
Enters(kind, results) ==
  LET f == Len(funcs) + 1
      n == IF kind = "method" THEN 2 ELSE 1
  IN  /\ FuncsKept(0)
      /\ Len(funcs') = Len(funcs) + n /\ Len(blocks') = Len(blocks) + n
      /\ blocks' \in Seq(BasicBlock)
      /\ funcs'[f].results = results /\ ~ funcs'[f].complete
      /\ \A c \in 1 .. Len(blocks) : /\ blocks'[c].term = blocks[c].term
                                     /\ blocks'[c].fn = blocks[c].fn
      /\ blocks'[Len(blocks) + 1].fn = f /\ blocks'[Len(blocks) + 1].term = NoTerm
      /\ kind = "method" =>
           /\ funcs'[f + 1].results = results
           /\ blocks'[Len(blocks) + 2].fn = f + 1
           /\ blocks'[Len(blocks) + 2].term = IF results = 1 THEN RetVal ELSE RetVoid

\* What the elements of a sequence added at the end are.
LEMMA AddedElements ==
  ASSUME NEW S, NEW s \in Seq(S), NEW x \in S, NEW y \in S
  PROVE  /\ s \o <<x, y>> \in Seq(S)
         /\ Len(s \o <<x, y>>) = Len(s) + 2
         /\ \A i \in 1 .. Len(s) : (s \o <<x, y>>)[i] = s[i]
         /\ (s \o <<x, y>>)[Len(s) + 1] = x
         /\ (s \o <<x, y>>)[Len(s) + 2] = y
<1> DEFINE t == <<x, y>>
<1>1. t \in Seq(S) /\ Len(t) = 2 /\ t[1] = x /\ t[2] = y /\ Len(s) \in Nat
  BY LenProperties
<1> HIDE DEF t
<1>2. /\ s \o t \in Seq(S) /\ Len(s \o t) = Len(s) + Len(t)
      /\ \A i \in 1 .. Len(s) + Len(t) : (s \o t)[i] = IF i <= Len(s) THEN s[i] ELSE t[i - Len(s)]
  BY <1>1, ConcatProperties
<1>3. /\ \A i \in 1 .. Len(s) : (s \o t)[i] = s[i]
      /\ (s \o t)[Len(s) + 1] = x
      /\ (s \o t)[Len(s) + 2] = y
  <2>1. Len(s) + 1 - Len(s) = 1 /\ Len(s) + 2 - Len(s) = 2
    BY <1>1
  <2> QED
    BY <1>1, <1>2, <2>1
<1> QED
  BY <1>1, <1>2, <1>3 DEF t

LEMMA BeginFuncEnters ==
  ASSUME TypeOK, OwnedNow, NEW kind \in {"init", "named", "method", "literal"},
         NEW results \in 0 .. 2, BeginFunc(kind, results)
  PROVE  Enters(kind, results)
<1> DEFINE f     == Len(funcs) + 1
           n     == IF kind = "method" THEN 2 ELSE 1
           entry == NewBlock(f)
           ret   == IF results = 1 THEN RetVal ELSE RetVoid
           jump  == BlockOf(f + 1, << >>, ret)
           call  == Emit(blocks, 1, [at |-> Here, tag |-> "call"])
           g     == NewFunc(kind, results, Fresh(1), FALSE)
           j     == NewFunc("jump", results, Fresh(2), TRUE)
<1>1. /\ blocks' = CASE kind = "init"   -> Append(call, entry)
                     [] kind = "method" -> blocks \o <<entry, jump>>
                     [] OTHER           -> Append(blocks, entry)
      /\ funcs' = Append(funcs, g) \o (IF kind = "method" THEN <<j>> ELSE << >>)
  BY DEF BeginFunc
<1>2. /\ funcs \in Seq(Func) /\ blocks \in Seq(BasicBlock)
      /\ Len(funcs) \in Nat /\ Len(blocks) \in Nat /\ 1 \in 1 .. Len(blocks)
      /\ f \in Nat \ {0} /\ f + 1 \in Nat \ {0} /\ results \in Nat
      /\ Fresh(1) \in Block /\ Fresh(2) \in Block
      /\ [at |-> Here, tag |-> "call"] \in Item
  <2>1. funcs \in Seq(Func) /\ blocks \in Seq(BasicBlock)
    BY DEF TypeOK
  <2>2. /\ Len(funcs) \in Nat /\ Len(blocks) \in Nat /\ 1 \in 1 .. Len(blocks)
        /\ Fresh(1) \in Block /\ Fresh(2) \in Block
    BY Numbers, SMTT(20)
  <2>3. [at |-> Here, tag |-> "call"] \in Item
    BY Numbers DEF Item, Tags
  <2> QED
    BY <2>1, <2>2, <2>3
<1>3. g \in Func /\ j \in Func
  BY <1>2, NewFuncType
<1>4. /\ g.results = results /\ g.complete = FALSE /\ j.results = results
  BY DEF NewFunc
<1> HIDE DEF f
<1>5. /\ entry \in BasicBlock /\ entry.fn = f /\ entry.term = NoTerm
      /\ jump \in BasicBlock /\ jump.fn = f + 1 /\ jump.term = ret
  <2>1. ret \in Term /\ << >> \in Seq(Item)
    BY TermTypes
  <2> DEFINE e == f + 1
  <2>2. e \in Nat \ {0} /\ e = f + 1
    BY <1>2
  <2> HIDE DEF ret, e
  <2>3. entry \in BasicBlock /\ entry.fn = f /\ entry.term = NoTerm
    BY <1>2, MadeOf, MadeTerm
  <2>4. /\ BlockOf(e, << >>, ret) \in BasicBlock /\ BlockOf(e, << >>, ret).fn = e
        /\ BlockOf(e, << >>, ret).term = ret
    BY <2>1, <2>2 DEF BlockOf, BasicBlock
  <2> QED
    BY <2>2, <2>3, <2>4
<1>6. SameTerms(blocks, call)
  BY <1>2, EmitTerms
<1> HIDE DEF g, j, entry, jump, call
<1>7. /\ funcs' \in Seq(Func) /\ Len(funcs') = Len(funcs) + n
      /\ \A k \in 1 .. Len(funcs) : funcs'[k] = funcs[k]
      /\ funcs'[Len(funcs) + 1] = g
      /\ kind = "method" => funcs'[Len(funcs) + 2] = j
  <2>1. CASE kind = "method"
    <3> DEFINE gs == Append(funcs, g)
    <3>1. /\ gs \in Seq(Func) /\ Len(gs) = Len(funcs) + 1 /\ gs[Len(funcs) + 1] = g
          /\ \A k \in 1 .. Len(funcs) : gs[k] = funcs[k]
      BY <1>2, <1>3, AppendType
    <3>2. funcs' = gs \o <<j>>
      BY <1>1, <2>1
    <3> HIDE DEF gs
    <3>3. funcs' = Append(gs, j)
      BY <1>3, <3>1, <3>2, AppendIsConcat
    <3>4. /\ funcs' \in Seq(Func) /\ Len(funcs') = Len(gs) + 1 /\ funcs'[Len(gs) + 1] = j
          /\ \A k \in 1 .. Len(gs) : funcs'[k] = gs[k]
      BY <1>3, <3>1, <3>3, AppendType
    <3>5. Len(funcs) + 1 \in 1 .. Len(gs) /\ Len(gs) + 1 = Len(funcs) + 2
      BY <1>2, <3>1
    <3> QED
      BY <1>2, <2>1, <3>1, <3>4, <3>5
  <2>2. CASE kind # "method"
    <3>1. Append(funcs, g) \in Seq(Func)
      BY <1>2, <1>3, AppendType
    <3>2. funcs' = Append(funcs, g)
      BY <1>1, <2>2, <3>1, ConcatEmptySeq
    <3> QED
      BY <1>2, <1>3, <2>2, <3>2, AppendType
  <2> QED
    BY <2>1, <2>2
<1>8. /\ blocks' \in Seq(BasicBlock) /\ Len(blocks') = Len(blocks) + n
      /\ \A c \in 1 .. Len(blocks) : /\ blocks'[c].term = blocks[c].term
                                     /\ blocks'[c].fn = blocks[c].fn
      /\ blocks'[Len(blocks) + 1] = entry
      /\ kind = "method" => blocks'[Len(blocks) + 2] = jump
  <2>1. CASE kind = "method"
    <3>1. blocks' = blocks \o <<entry, jump>>
      BY <1>1, <2>1
    <3> QED
      BY <1>2, <1>5, <2>1, <3>1, AddedElements
  <2>2. CASE kind # "method"
    <3>1. PICK bs : SameTerms(blocks, bs) /\ blocks' = Append(bs, entry)
      <4>1. SameTerms(blocks, blocks)
        BY <1>2 DEF SameTerms
      <4> QED
        BY <1>1, <1>6, <2>2, <4>1
    <3>2. bs \in Seq(BasicBlock) /\ Len(bs) = Len(blocks)
      BY <3>1 DEF SameTerms
    <3>3. /\ blocks' \in Seq(BasicBlock) /\ Len(blocks') = Len(bs) + 1
          /\ \A c \in 1 .. Len(bs) : blocks'[c] = bs[c]
          /\ blocks'[Len(bs) + 1] = entry
      BY <1>5, <3>1, <3>2, AppendType
    <3> QED
      BY <2>2, <3>1, <3>2, <3>3 DEF SameTerms
  <2> QED
    BY <2>1, <2>2
<1>9. FuncsKept(0)
  BY <1>2, <1>7 DEF FuncsKept
<1> HIDE DEF ret, n
<1> QED
  BY <1>4, <1>5, <1>7, <1>8, <1>9 DEF Enters, f, n, ret

\* BeginMain changes neither.
LEMMA BeginMainEnters ==
  ASSUME TypeOK, OwnedNow, BeginMain
  PROVE  FuncsKept(0) /\ Len(funcs') = Len(funcs) /\ blocks' = blocks
<1> DEFINE g == [funcs[Main] EXCEPT !.at = Here]
<1>1. funcs' = [funcs EXCEPT ![Main].at = Here] /\ blocks' = blocks
  BY DEF BeginMain
<1>2. /\ funcs \in Seq(Func) /\ Len(funcs) \in Nat /\ Main \in 1 .. Len(funcs)
      /\ funcs[Main] \in Func /\ Here \in Nat
  BY Numbers, ElementOfSeq DEF TypeOK, Main
<1>3. g \in Func /\ g.results = funcs[Main].results /\ g.complete = funcs[Main].complete
  BY <1>2 DEF Func
<1>4. funcs' = [funcs EXCEPT ![Main] = g]
  BY <1>1
<1> HIDE DEF g
<1> QED
  BY <1>1, <1>2, <1>3, <1>4, ExceptSeq DEF FuncsKept

\* EndFunc completes the function of the innermost call.  Without results, the current
\* block returns; with results, no block changes, unless the function is called main.
LEMMA EndFuncBuilds ==
  ASSUME TypeOK, OwnedNow, EndFunc
  PROVE  /\ Top.fn = contextFunc /\ Top.fn \in 1 .. Len(funcs)
         /\ FuncsKept(Top.fn) /\ Len(funcs') = Len(funcs)
         /\ funcs'[Top.fn].complete
         /\ funcs[Top.fn].results = 0 => \E t \in {RetVal, RetVoid} : Returns(blocks', t)
         /\ funcs[Top.fn].results # 0 => blocks' = blocks \/ Returns(blocks', RetVal)
         /\ "otherMain" \notin Extra =>
              /\ funcs[Top.fn].results = 0 =>
                   Returns(blocks', IF Top.fn = Main THEN RetVal ELSE RetVoid)
              /\ funcs[Top.fn].results # 0 => Top.fn = Main \/ blocks' = blocks
<1> DEFINE g    == [funcs[Top.fn] EXCEPT !.complete = TRUE]
           ret  == IF Top.fn = Main THEN RetVal ELSE RetVoid
           void == Emit(blocks, contextBlock, [at |-> Here, tag |-> "ret"])
<1>1. /\ frames # << >> /\ Top.kind = "func"
      /\ funcs' = [funcs EXCEPT ![Top.fn].complete = TRUE]
      /\ funcs[Top.fn].results # 0 =>
           blocks' = blocks \/ blocks' = Terminate(blocks, contextBlock, RetVal)
      /\ funcs[Top.fn].results = 0 =>
           \E t \in {RetVal, RetVoid} : blocks' = Terminate(void, contextBlock, t)
      /\ "otherMain" \notin Extra =>
           /\ funcs[Top.fn].results # 0 => Top.fn = Main \/ blocks' = blocks
           /\ funcs[Top.fn].results = 0 => blocks' = Terminate(void, contextBlock, ret)
  BY DEF EndFunc, Open, ReturnAtEnd, NamesOf
<1>2. Top.fn = contextFunc /\ Top.fn \in 1 .. Len(funcs)
  BY <1>1, Context DEF FrameOwned, OwnerOf
<1>3. funcs \in Seq(Func) /\ Len(funcs) \in Nat /\ funcs[Top.fn] \in Func
  BY <1>2, Numbers, ElementOfSeq DEF TypeOK
<1>4. g \in Func /\ g.results = funcs[Top.fn].results /\ g.complete
  BY <1>3 DEF Func
<1>5. funcs' = [funcs EXCEPT ![Top.fn] = g]
  BY <1>1
<1>6. RetVal \in Term /\ RetVoid \in Term /\ ret \in {RetVal, RetVoid}
  BY TermTypes
<1> HIDE DEF g
<1>7. /\ FuncsKept(Top.fn) /\ Len(funcs') = Len(funcs) /\ funcs'[Top.fn].complete
  BY <1>2, <1>3, <1>4, <1>5, ExceptSeq DEF FuncsKept
<1> HIDE DEF ret
<1>8. \A t \in {RetVal, RetVoid} : Returns(Terminate(void, contextBlock, t), t)
  BY <1>1, <1>6, ReturnTerms
<1>9. Returns(Terminate(blocks, contextBlock, RetVal), RetVal)
  <2>1. contextBlock \in 1 .. Len(blocks) /\ blocks \in Seq(BasicBlock)
    BY <1>1, Context DEF TypeOK
  <2> QED
    BY <1>6, <2>1, TerminateTerms DEF Returns
<1> HIDE DEF void
<1> QED
  BY <1>1, <1>2, <1>6, <1>7, <1>8, <1>9 DEF ret

-----------------------------------------------------------------------------
(* RetMatches                                                                *)

\* The functions whose returns carry a value.
Valued(f, fns) == f = Main \/ fns[f].results = 1

\* If terminator t is a return, it is one of function f.
ReturnsAs(t, f, fns) ==
  /\ t.kind = "retval"  => Valued(f, fns)
  /\ t.kind = "retvoid" => ~ Valued(f, fns)

\* The inductive form of RetMatches: for every function, complete or not.
RetRight ==
  \A b \in 1 .. Len(blocks) :
    blocks[b].fn \in 1 .. Len(funcs) /\ ReturnsAs(blocks[b].term, blocks[b].fn, funcs)

\* A return stays one of its function when functions are added or completed.
LEMMA ReturnsStay ==
  ASSUME ResultsKept, NEW f \in 1 .. Len(funcs), NEW t, ReturnsAs(t, f, funcs)
  PROVE  ReturnsAs(t, f, funcs')
BY DEF ResultsKept, ReturnsAs, Valued

\* The function being compiled is a function of the module.
LEMMA FuncNow ==
  ASSUME TypeOK, OwnedNow, RetRight, frames # << >>
  PROVE  /\ contextFunc \in 1 .. Len(funcs) /\ contextBlock \in 1 .. Len(blocks)
         /\ Len(funcs) \in Nat /\ Len(blocks) \in Nat
         /\ funcs[contextFunc].results \in Nat
<1>1. contextBlock \in 1 .. Len(blocks) /\ blocks[contextBlock].fn = contextFunc
  BY Context
<1>2. contextFunc \in 1 .. Len(funcs)
  BY <1>1 DEF RetRight
<1>3. funcs[contextFunc] \in Func
  BY <1>2, ElementOfSeq DEF TypeOK
<1> QED
  BY <1>1, <1>2, <1>3, Numbers DEF Func

\* An action that writes no return keeps RetRight.
LEMMA BuildsReturns ==
  ASSUME TypeOK, OwnedNow, RetRight, frames # << >>, UNCHANGED funcs,
         NEW n \in Nat, NEW W, NEW K, Builds(blocks', n, W, K)
  PROVE  RetRight'
<1>1. Len(blocks) \in Nat /\ contextFunc \in 1 .. Len(funcs)
  BY FuncNow
<1>2. \A t : FlowTerm(t) \/ t = NoTerm => t.kind # "retval" /\ t.kind # "retvoid"
  BY DEF FlowTerm, FlowKinds, NoTerm
<1>3. /\ Len(blocks') = Len(blocks) + n
      /\ \A c \in 1 .. Len(blocks) :
           /\ blocks'[c].fn = blocks[c].fn
           /\ blocks'[c].term = blocks[c].term \/ FlowTerm(blocks'[c].term)
      /\ \A i \in 1 .. n : /\ blocks'[Len(blocks) + i].fn = contextFunc
                           /\ FlowTerm(blocks'[Fresh(i)].term) \/ blocks'[Fresh(i)].term = NoTerm
  BY DEF Builds, Added, Grows, In
<1>4. SUFFICES ASSUME NEW b \in 1 .. Len(blocks')
               PROVE  /\ blocks'[b].fn \in 1 .. Len(funcs)
                      /\ ReturnsAs(blocks'[b].term, blocks'[b].fn, funcs)
  BY DEF RetRight
<1>5. CASE b \in 1 .. Len(blocks)
  BY <1>2, <1>3, <1>5 DEF RetRight, ReturnsAs
<1>6. CASE b \notin 1 .. Len(blocks)
  <2>1. b - Len(blocks) \in 1 .. n /\ Len(blocks) + (b - Len(blocks)) = b
    BY <1>1, <1>3, <1>6
  <2>2. Fresh(b - Len(blocks)) = b
    BY <2>1 DEF Fresh
  <2> QED
    BY <1>1, <1>2, <1>3, <2>1, <2>2 DEF ReturnsAs
<1> QED
  BY <1>5, <1>6

\* So does one that writes no block, if the functions keep their results.
LEMMA SameReturns ==
  ASSUME RetRight, ResultsKept, Len(funcs) \in Nat, Len(funcs') \in Nat,
         Len(funcs) <= Len(funcs'), blocks' = blocks
  PROVE  RetRight'
BY ReturnsStay DEF RetRight

\* So does a return that suits the function being compiled.
LEMMA ReturnReturns ==
  ASSUME TypeOK, OwnedNow, RetRight, frames # << >>, ResultsKept, Len(funcs') = Len(funcs),
         NEW t, ReturnsAs(t, contextFunc, funcs), Returns(blocks', t)
  PROVE  RetRight'
<1>1. blocks[contextBlock].fn = contextFunc
  BY Context
<1>2. SUFFICES ASSUME NEW b \in 1 .. Len(blocks')
               PROVE  /\ blocks'[b].fn \in 1 .. Len(funcs')
                      /\ ReturnsAs(blocks'[b].term, blocks'[b].fn, funcs')
  BY DEF RetRight
<1>3. b \in 1 .. Len(blocks) /\ blocks'[b].fn = blocks[b].fn /\ blocks[b].fn \in 1 .. Len(funcs)
  BY DEF Returns, RetRight
<1>4. ReturnsAs(blocks'[b].term, blocks[b].fn, funcs)
  BY <1>1, <1>3 DEF Returns, RetRight
<1> QED
  BY <1>3, <1>4, ReturnsStay

\* The innermost func frame is that of the function being compiled.
LEMMA OwnFrame ==
  ASSUME TypeOK, OwnedNow, frames # << >>
  PROVE  \E m \in 1 .. Len(frames) :
           /\ frames[m].kind = "func" /\ frames[m].fn = contextFunc
           /\ \A k \in m + 1 .. Len(frames) : frames[k].kind # "func"
<1> DEFINE S == {i \in 1 .. Len(frames) : \A k \in i + 1 .. Len(frames) : frames[k].kind # "func"}
<1>1. Len(frames) \in Nat \ {0}
  BY Context
<1>2. PICK m \in S : \A i \in S : m <= i
  <2>1. Len(frames) \in S
    BY <1>1
  <2>2. S \in SUBSET Nat
    BY <1>1
  <2> HIDE DEF S
  <2> QED
    BY <2>1, <2>2, Least
<1>3. m \in 1 .. Len(frames) /\ \A k \in m + 1 .. Len(frames) : frames[k].kind # "func"
  BY <1>2
<1>4. OwnerOf(frames[m], blocks) = contextFunc
  BY <1>3, OwnerBetween
<1>5. frames[m].kind = "func"
  <2> SUFFICES ASSUME frames[m].kind # "func" PROVE FALSE
    OBVIOUS
  <2>1. CASE m = 1
    <3>1. FrameOwned(frames[1], 0, blocks, Len(funcs)) /\ frames[1] \in Frame
      BY <1>3, <2>1, CallTypes DEF OwnedNow, Owned, OwnerAt
    <3> QED
      BY <2>1, <3>1, FrameKinds DEF FrameOwned
  <2>2. CASE m # 1
    <3>1. m - 1 \in 1 .. Len(frames) /\ \A k \in m - 1 + 1 .. Len(frames) : frames[k].kind # "func"
      BY <1>1, <1>3, <2>2
    <3>2. m - 1 \in S
      BY <3>1
    <3> HIDE DEF S
    <3>3. m <= m - 1
      BY <1>2, <3>2
    <3> QED
      BY <1>3, <3>3
  <2> QED
    BY <2>1, <2>2
<1> QED
  BY <1>3, <1>4, <1>5 DEF OwnerOf

\* While a function with results is compiled, its entry is on top of contextFuncRetVals.
LEMMA RetsOnTop ==
  ASSUME TypeOK, OwnedNow, StacksRight, frames # << >>, funcs[contextFunc].results > 0
  PROVE  /\ contextFuncRetVals # << >>
         /\ Last(contextFuncRetVals).n = funcs[contextFunc].results
<1>1. PICK m \in 1 .. Len(frames) :
        /\ frames[m].kind = "func" /\ frames[m].fn = contextFunc
        /\ \A k \in m + 1 .. Len(frames) : frames[k].kind # "func"
  BY OwnFrame
<1>2. Len(contextFuncRetVals) = frames[m].entry.rets + 1
  BY <1>1, RetsBetween, InsideTypes DEF StacksRight
<1>3. contextFuncRetVals[frames[m].entry.rets + 1]
        = [fn |-> contextFunc, n |-> funcs[contextFunc].results]
  BY <1>1, CallTypes DEF StacksRight, OwnEntries
<1>4. frames[m].entry.rets \in Nat
  BY <1>1, CallTypes DEF Height
<1>5. contextFuncRetVals # << >>
  BY <1>2, <1>4, EmptySeq
<1> QED
  BY <1>2, <1>3, <1>5 DEF Last

\* return with values: `ret' with one value, `ret void' with more (func.go:310-345); main
\* has no results, so it has no such return.
LEMMA ReturnValuesReturns ==
  ASSUME TypeOK, OwnedNow, StacksRight, RetRight, ReturnValues
  PROVE  RetRight'
<1> DEFINE t == IF funcs[contextFunc].results = 1 THEN RetVal ELSE RetVoid
<1>1. frames # << >> /\ funcs[contextFunc].results > 0 /\ UNCHANGED funcs
  BY DEF ReturnValues, ReturnAllowed, JumpAllowed, StatementAllowed, CanStand
<1>2. blocks' = Terminate(Emit(blocks, contextBlock, [at |-> Here, tag |-> "ret"]), contextBlock, t)
  BY DEF ReturnValues
<1>3. contextFunc # Main
  BY <1>1 DEF StacksRight
<1>4. t \in Term /\ ReturnsAs(t, contextFunc, funcs)
  BY <1>3, TermTypes DEF ReturnsAs, Valued, RetVal, RetVoid
<1> HIDE DEF t
<1>5. Returns(blocks', t)
  BY <1>1, <1>2, <1>4, ReturnTerms
<1> QED
  BY <1>1, <1>4, <1>5, ReturnReturns DEF ResultsKept

\* return without values, in a function with named results, finds its entry on the stack.
LEMMA NakedFinds ==
  ASSUME TypeOK, OwnedNow, StacksRight, NakedReturn, "voidReturn" \notin Extra
  PROVE  /\ frames # << >> /\ UNCHANGED <<funcs, status>>
         /\ Last(contextFuncRetVals).n = funcs[contextFunc].results
         /\ funcs[contextFunc].results > 0
         /\ blocks' = Terminate(Emit(blocks, contextBlock, [at |-> Here, tag |-> "ret"]),
                                contextBlock, NakedTerm)
<1>1. frames # << >> /\ funcs[contextFunc].results # 0 /\ UNCHANGED funcs
  BY DEF NakedReturn, ReturnAllowed, JumpAllowed, StatementAllowed, CanStand
<1>2. funcs[contextFunc].results > 0
  <2>1. funcs[contextFunc].results \in Nat
    BY <1>1, OwnFrame, CallTypes
  <2> QED
    BY <1>1, <2>1
<1>3. contextFuncRetVals # << >> /\ Last(contextFuncRetVals).n = funcs[contextFunc].results
  BY <1>1, <1>2, RetsOnTop
<1>4. /\ blocks' = Terminate(Emit(blocks, contextBlock, [at |-> Here, tag |-> "ret"]),
                             contextBlock, NakedTerm)
      /\ status' = status
  BY <1>3 DEF NakedReturn
<1> QED
  BY <1>1, <1>2, <1>3, <1>4

\* It returns what the function does.
LEMMA NakedReturns ==
  ASSUME TypeOK, OwnedNow, StacksRight, RetRight, NakedReturn, "voidReturn" \notin Extra
  PROVE  RetRight'
<1>1. /\ frames # << >> /\ UNCHANGED funcs
      /\ Last(contextFuncRetVals).n = funcs[contextFunc].results
      /\ blocks' = Terminate(Emit(blocks, contextBlock, [at |-> Here, tag |-> "ret"]),
                             contextBlock, NakedTerm)
  BY NakedFinds
<1>2. contextFunc # Main
  BY NakedFinds DEF StacksRight
<1>3. NakedTerm \in Term /\ ReturnsAs(NakedTerm, contextFunc, funcs)
  BY <1>1, <1>2, TermTypes DEF NakedTerm, ReturnsAs, Valued, RetVal, RetVoid
<1>4. Returns(blocks', NakedTerm)
  BY <1>1, <1>3, ReturnTerms
<1> QED
  BY <1>1, <1>3, <1>4, ReturnReturns DEF ResultsKept

\* The end of a function without results: `ret i32 0' in main, `ret void' elsewhere.
LEMMA EndFuncReturns ==
  ASSUME TypeOK, OwnedNow, StacksRight, RetRight, EndFunc, "otherMain" \notin Extra
  PROVE  RetRight'
<1> DEFINE t == IF Top.fn = Main THEN RetVal ELSE RetVoid
<1>1. /\ Top.fn = contextFunc
      /\ ResultsKept /\ Len(funcs') = Len(funcs)
      /\ funcs[Top.fn].results = 0 => Returns(blocks', t)
      /\ funcs[Top.fn].results # 0 => blocks' = blocks
  BY EndFuncBuilds DEF FuncsKept, ResultsKept, StacksRight
<1>2. frames # << >> /\ Len(funcs) \in Nat
  BY Numbers DEF EndFunc, Open
<1>3. CASE funcs[Top.fn].results = 0
  <2>1. ReturnsAs(t, contextFunc, funcs)
    BY <1>1, <1>3 DEF ReturnsAs, Valued, RetVal, RetVoid
  <2> HIDE DEF t
  <2> QED
    BY <1>1, <1>2, <1>3, <2>1, ReturnReturns
<1>4. CASE funcs[Top.fn].results # 0
  <2> HIDE DEF t
  <2> QED
    BY <1>1, <1>2, <1>4, SameReturns
<1> QED
  BY <1>3, <1>4

\* A new function has a block without a terminator; that of the function interfaces call
\* a method through returns what the method does.
LEMMA BeginFuncReturns ==
  ASSUME TypeOK, OwnedNow, RetRight, NEW kind \in {"init", "named", "method", "literal"},
         NEW results \in 0 .. 2, BeginFunc(kind, results)
  PROVE  RetRight'
<1>1. Enters(kind, results)
  BY BeginFuncEnters
<1> DEFINE f == Len(funcs) + 1
           n == IF kind = "method" THEN 2 ELSE 1
           t == IF results = 1 THEN RetVal ELSE RetVoid
<1>2. /\ Len(funcs) \in Nat /\ 2 <= Len(funcs) /\ Len(blocks) \in Nat
  BY Numbers
<1>3. /\ ResultsKept /\ Len(funcs') = Len(funcs) + n /\ Len(blocks') = Len(blocks) + n
      /\ \A c \in 1 .. Len(blocks) : /\ blocks'[c].term = blocks[c].term
                                     /\ blocks'[c].fn = blocks[c].fn
      /\ blocks'[Len(blocks) + 1].fn = f /\ blocks'[Len(blocks) + 1].term = NoTerm
      /\ kind = "method" =>
           /\ funcs'[f + 1].results = results
           /\ blocks'[Len(blocks) + 2].fn = f + 1 /\ blocks'[Len(blocks) + 2].term = t
  BY <1>1 DEF Enters, FuncsKept, ResultsKept
<1>4. SUFFICES ASSUME NEW b \in 1 .. Len(blocks')
               PROVE  /\ blocks'[b].fn \in 1 .. Len(funcs')
                      /\ ReturnsAs(blocks'[b].term, blocks'[b].fn, funcs')
  BY DEF RetRight
<1>5. CASE b \in 1 .. Len(blocks)
  <2>1. blocks[b].fn \in 1 .. Len(funcs) /\ ReturnsAs(blocks[b].term, blocks[b].fn, funcs)
    BY <1>5 DEF RetRight
  <2>2. blocks[b].fn \in 1 .. Len(funcs')
    BY <1>2, <1>3, <2>1, SMTT(20)
  <2> QED
    BY <1>3, <1>5, <2>1, <2>2, ReturnsStay
<1>6. CASE b = Len(blocks) + 1
  <2>1. f \in 1 .. Len(funcs')
    BY <1>2, <1>3
  <2> QED
    BY <1>3, <1>6, <2>1 DEF ReturnsAs, NoTerm
<1>7. CASE b = Len(blocks) + 2 /\ kind = "method"
  <2>1. f + 1 \in 1 .. Len(funcs') /\ f + 1 # Main
    BY <1>2, <1>3, <1>7 DEF Main
  <2>2. ReturnsAs(t, f + 1, funcs')
    BY <1>3, <1>7, <2>1 DEF ReturnsAs, Valued, RetVal, RetVoid
  <2> QED
    BY <1>3, <1>7, <2>1, <2>2
<1>8. b \in 1 .. Len(blocks) \/ b = Len(blocks) + 1 \/ (b = Len(blocks) + 2 /\ kind = "method")
  BY <1>2, <1>3, <1>4
<1> QED
  BY <1>5, <1>6, <1>7, <1>8

\* Every step writes the returns of its function, if functions without results have no
\* return statement and none but main is called main.
LEMMA NextReturns ==
  ASSUME TypeOK, OwnedNow, StacksRight, RetRight, [Next]_vars,
         "voidReturn" \notin Extra, "otherMain" \notin Extra
  PROVE  RetRight'
<1> DEFINE Plain == frames # << >> /\ UNCHANGED funcs /\ \E n \in Nat : \E W, K : Builds(blocks', n, W, K)
           Idle  == UNCHANGED funcs /\ blocks' = blocks
<1>1. Plain => RetRight'
  BY BuildsReturns
<1>2. Idle => RetRight'
  BY SameReturns, Numbers DEF ResultsKept
<1>3. CASE Stmt \/ EndAppend \/ NestedAppend \/ \E fallthrough \in BOOLEAN : EndCase(fallthrough)
  <2>1. frames # << >> /\ UNCHANGED funcs
    BY <1>3 DEF Stmt, EndAppend, NestedAppend, EndCase, StatementAllowed, ExpressionAllowed,
                CanStand, Open
  <2>2. Builds(blocks', 0, {}, {})
    BY <1>3, StraightBuilds
  <2>3. Plain
    BY <2>1, <2>2
  <2> QED
    BY <1>1, <2>3
<1>4. CASE Index \/ Substring \/ TypeAssertion
  <2>1. frames # << >> /\ UNCHANGED funcs
    BY <1>4 DEF Index, Substring, TypeAssertion, StatementAllowed, ExpressionAllowed, CanStand
  <2>2. \E n \in Nat : \E W, K : Builds(blocks', n, W, K)
    <3>1. 2 \in Nat /\ 3 \in Nat
      OBVIOUS
    <3> QED
      BY <1>4, <3>1, IndexBuilds, SubstringBuilds, TypeAssertionBuilds
  <2> QED
    BY <1>1, <2>1, <2>2
<1>5. CASE \E self \in BOOLEAN : BeginAppend(self)
  <2>1. frames # << >> /\ UNCHANGED funcs
    BY <1>5 DEF BeginAppend, StatementAllowed, CanStand
  <2>2. Builds(blocks', 4, {contextBlock}, {}) /\ 4 \in Nat
    BY <1>5, BeginAppendBuilds
  <2> QED
    BY <1>1, <2>1, <2>2
<1>6. CASE \E hasElse \in BOOLEAN : BeginIf(hasElse)
  <2>1. frames # << >> /\ UNCHANGED funcs
    BY <1>6 DEF BeginIf, StatementAllowed, CanStand
  <2>2. PICK hasElse \in BOOLEAN : BeginIf(hasElse)
    BY <1>6
  <2> DEFINE n == IF hasElse THEN 3 ELSE 2
  <2>3. Builds(blocks', n, {contextBlock}, {Fresh(1), Fresh(2), Fresh(n)}) /\ n \in Nat
    BY <2>2, BeginIfBuilds
  <2> HIDE DEF n
  <2> QED
    BY <1>1, <2>1, <2>3
<1>7. CASE BeginElse
  <2> DEFINE W == IF blocks[Top.tru].term = NoTerm THEN {Top.tru} ELSE {}
  <2>1. frames # << >> /\ UNCHANGED funcs
    BY <1>7 DEF BeginElse, Open
  <2>2. Builds(blocks', 0, W, {})
    BY <1>7, BeginElseBuilds
  <2> HIDE DEF W
  <2> QED
    BY <1>1, <2>1, <2>2
<1>8. CASE EndIf
  <2>1. frames # << >> /\ UNCHANGED funcs
    BY <1>8 DEF EndIf, Open
  <2>2. \E W : Builds(blocks', 0, W, {})
    BY <1>8, EndIfBuilds
  <2> QED
    BY <1>1, <2>1, <2>2
<1>9. CASE \E form \in {"plain", "checked", "range"} : BeginFor(form)
  <2>1. frames # << >> /\ UNCHANGED funcs
    BY <1>9 DEF BeginFor, StatementAllowed, CanStand
  <2>2. PICK form \in {"plain", "checked", "range"} : BeginFor(form)
    BY <1>9
  <2> DEFINE n == IF form = "plain" THEN 4 ELSE 6
  <2>3. Builds(blocks', n, {contextBlock}, {Fresh(3), Fresh(4), contextBlock'}) /\ n \in Nat
    BY <2>2, BeginForBuilds
  <2> HIDE DEF n
  <2> QED
    BY <1>1, <2>1, <2>3
<1>10. CASE EndFor
  <2>1. frames # << >> /\ UNCHANGED funcs
    BY <1>10 DEF EndFor, Open
  <2>2. Builds(blocks', 0, {contextBlock, Top.post}, {})
    BY <1>10, EndForBuilds
  <2> QED
    BY <1>1, <2>1, <2>2
<1>11. CASE Break \/ Continue
  <2>1. frames # << >> /\ UNCHANGED funcs
    BY <1>11 DEF Break, Continue, JumpAllowed, StatementAllowed, CanStand
  <2>2. blocks' = blocks \/ Builds(blocks', 0, {contextBlock}, {})
    BY <1>11, BreakBuilds
  <2> QED
    BY <1>1, <1>2, <2>1, <2>2
<1>12. CASE \E hasDefault \in BOOLEAN : BeginSwitch(hasDefault)
  <2>1. frames # << >> /\ UNCHANGED funcs
    BY <1>12 DEF BeginSwitch, StatementAllowed, CanStand
  <2>2. (\E K : Builds(blocks', 2, {}, K)) /\ 2 \in Nat
    BY <1>12, BeginSwitchBuilds
  <2> QED
    BY <1>1, <2>1, <2>2
<1>13. CASE EndDefault \/ BeginCase
  <2>1. frames # << >> /\ UNCHANGED funcs
    BY <1>13 DEF EndDefault, BeginCase, Open
  <2>2. (\E n \in {0, 1} : \E W, K : Builds(blocks', n, W, K)) /\ 0 \in Nat /\ 1 \in Nat
    BY <1>13, EndDefaultBuilds, BeginCaseBuilds
  <2> QED
    BY <1>1, <2>1, <2>2
<1>14. CASE EndSwitch
  <2>1. frames # << >> /\ UNCHANGED funcs
    BY <1>14 DEF EndSwitch, Open
  <2>2. blocks' = blocks \/ Builds(blocks', 0, {contextBlock} \cup CaseBlocks, {})
    BY <1>14, EndSwitchBuilds
  <2> QED
    BY <1>1, <1>2, <2>1, <2>2
<1>15. CASE BeginMain
  BY <1>15, BeginMainEnters, SameReturns, Numbers DEF FuncsKept, ResultsKept
<1>16. CASE EndFunc
  BY <1>16, EndFuncReturns
<1>17. CASE \E kind \in {"init", "named", "method", "literal"}, results \in 0 .. 2 :
              BeginFunc(kind, results)
  BY <1>17, BeginFuncReturns
<1>18. CASE ReturnValues \/ NakedReturn
  BY <1>18, ReturnValuesReturns, NakedReturns
<1>19. CASE Finish \/ UNCHANGED vars
  BY <1>2, <1>19 DEF Finish, vars
<1> QED
  BY <1>3, <1>4, <1>5, <1>6, <1>7, <1>8, <1>9, <1>10, <1>11, <1>12, <1>13, <1>14, <1>15,
     <1>16, <1>17, <1>18, <1>19 DEF Next

\* The functions that addGlobal makes: the one that initialises globals returns.
LEMMA InitReturns == Init => RetRight
<1> SUFFICES ASSUME Init PROVE RetRight
  OBVIOUS
<1>1. /\ blocks = <<BlockOf(GlobalInit, << >>, RetVoid), NewBlock(Main)>>
      /\ funcs = <<NewFunc("globalinit", 0, 1, TRUE), NewFunc("main", 0, 2, FALSE)>>
  BY DEF Init
<1>2. /\ Len(blocks) = 2 /\ Len(funcs) = 2 /\ funcs[1].results = 0
      /\ blocks[1].fn = 1 /\ blocks[1].term = RetVoid /\ blocks[2].fn = 2 /\ blocks[2].term = NoTerm
  BY <1>1 DEF BlockOf, NewBlock, NewFunc, GlobalInit, Main
<1> QED
  BY <1>2 DEF RetRight, ReturnsAs, Valued, RetVoid, NoTerm, Main

\* The inductive invariant, with the returns.
LEMMA ReturnsAlways ==
  ASSUME "voidReturn" \notin Extra, "otherMain" \notin Extra
  PROVE  Spec => [](TypeOK /\ OwnedNow /\ StacksRight /\ RetRight)
<1>1. Init => TypeOK /\ OwnedNow /\ StacksRight /\ RetRight
  BY InitOwned, InitRight, InitReturns
<1>2. (TypeOK /\ OwnedNow /\ StacksRight /\ RetRight) /\ [Next]_vars
        => (TypeOK /\ OwnedNow /\ StacksRight /\ RetRight)'
  BY NextOwned, NextRight, NextReturns
<1> QED
  BY <1>1, <1>2, PTL DEF Spec

\* A function with one result, and main, only returns values, any other only returns void
\* (func.go:242-253, :310-358), for programs of any length and all forms but two: a return
\* in a function without results, which looks at whatever entry is on top of the stack, and
\* a function of another package called main, which returns main's 0 (func.go:251).
THEOREM ReturnsMatch ==
  ASSUME {"voidReturn", "otherMain"} \cap Extra = {}
  PROVE  Spec => []RetMatches
<1>0. "voidReturn" \notin Extra /\ "otherMain" \notin Extra
  OBVIOUS
<1>1. TypeOK /\ OwnedNow /\ StacksRight /\ RetRight => RetMatches
  <2>1. TypeOK => DOMAIN blocks = 1 .. Len(blocks)
    BY LenProperties DEF TypeOK
  <2> QED
    BY <2>1 DEF RetMatches, BlocksOf, RetRight, ReturnsAs, Valued
<1> QED
  BY <1>0, <1>1, ReturnsAlways, PTL

-----------------------------------------------------------------------------
(* NoPanic                                                                   *)

\* A break or continue of a loop finds it on the stacks.
LEMMA JumpsFind ==
  ASSUME TypeOK, OwnedNow, StacksRight, Break \/ Continue, "breakInSwitch" \notin Extra
  PROVE  status' = status
<1>1. LoopsOpen # {}
  <2>1. CASE Break
    <3> DEFINE i == InnermostOf(BreakablesOpen)
    <3>1. BreakablesOpen \in SUBSET (DOMAIN frames) /\ BreakablesOpen # {}
      BY <2>1 DEF Break, BreakablesOpen
    <3>2. i \in BreakablesOpen
      BY <3>1, InnermostType
    <3>3. frames[i].kind # "switch"
      BY <2>1 DEF Break
    <3> HIDE DEF i
    <3>4. i \in LoopsOpen
      BY <3>2, <3>3 DEF BreakablesOpen, LoopsOpen
    <3> QED
      BY <3>4
  <2>2. CASE Continue
    BY <2>2 DEF Continue
  <2> QED
    BY <2>1, <2>2
<1> QED
  BY <1>1, BreakBuilds

\* The compiler does not panic (an empty stack indexed in for.go and func.go, the value of
\* the outer append in append.go, caseBlocks one past its end in switch.go), for programs
\* of any length, as long as no break leaves a switch, no last case falls through, no
\* append has an append as its item and no function without results has a return.
THEOREM NeverPanics ==
  ASSUME {"breakInSwitch", "fallIntoDefault", "blocksInItem", "voidReturn"} \cap Extra = {}
  PROVE  Spec => []NoPanic
<1>1. /\ "breakInSwitch" \notin Extra /\ "fallIntoDefault" \notin Extra
      /\ "blocksInItem" \notin Extra /\ "voidReturn" \notin Extra
  OBVIOUS
<1> DEFINE Inv == TypeOK /\ OwnedNow /\ StacksRight
<1>2. Init => NoPanic
  BY DEF Init, NoPanic
<1>3. Inv /\ NoPanic /\ [Next]_vars => NoPanic'
  <2> SUFFICES ASSUME Inv, NoPanic, [Next]_vars PROVE NoPanic'
    OBVIOUS
  <2> SUFFICES status' = status \/ status' = "done"
    BY DEF NoPanic
  <2>1. CASE Stmt \/ Index \/ Substring \/ TypeAssertion \/ EndAppend
               \/ \E self \in BOOLEAN : BeginAppend(self)
    BY <2>1 DEF Stmt, Index, Substring, TypeAssertion, EndAppend, BeginAppend
  <2>2. CASE NestedAppend
    BY <1>1, <2>2 DEF NestedAppend, ExpressionAllowed
  <2>3. CASE (\E hasElse \in BOOLEAN : BeginIf(hasElse)) \/ BeginElse \/ EndIf
    BY <2>3 DEF BeginIf, BeginElse, EndIf
  <2>4. CASE (\E form \in {"plain", "checked", "range"} : BeginFor(form)) \/ EndFor
    BY <2>4 DEF BeginFor, EndFor
  <2>5. CASE Break \/ Continue
    BY <1>1, <2>5, JumpsFind
  <2>6. CASE \/ \E hasDefault \in BOOLEAN : BeginSwitch(hasDefault)
             \/ EndDefault \/ BeginCase
             \/ \E fallthrough \in BOOLEAN : EndCase(fallthrough)
    BY <2>6 DEF BeginSwitch, EndDefault, BeginCase, EndCase
  <2>7. CASE EndSwitch
    BY <1>1, <2>7 DEF EndSwitch
  <2>8. CASE \/ BeginMain \/ EndFunc
             \/ \E kind \in {"init", "named", "method", "literal"}, results \in 0 .. 2 :
                  BeginFunc(kind, results)
    BY <2>8 DEF BeginMain, BeginFunc, EnterFunc, EndFunc
  <2>9. CASE ReturnValues \/ Finish \/ UNCHANGED vars
    BY <2>9 DEF ReturnValues, Finish, vars
  <2>10. CASE NakedReturn
    BY <1>1, <2>10, NakedFinds
  <2> QED
    BY <2>1, <2>2, <2>3, <2>4, <2>5, <2>6, <2>7, <2>8, <2>9, <2>10 DEF Next
<1>4. Spec => []Inv
  BY RightAlways
<1> QED
  BY <1>2, <1>3, <1>4, PTL DEF Spec

=============================================================================
