-------------------------- MODULE CodegenFaithful --------------------------
(***************************************************************************)
(* The emitted blocks do what the program says.                            *)
(*                                                                         *)
(* Every action leaves the blocks labelled (Traced in CodegenPlaces): one  *)
(* lemma for each, the invariant, and from it that a complete function,    *)
(* all of whose blocks have ended, does what its source does.              *)
(***************************************************************************)
EXTENDS CodegenPlaces

-----------------------------------------------------------------------------
(* Straight-line code and expressions                                        *)

\* x[i], with its bounds check.
LEMMA IndexTraced ==
  ASSUME Known, TypeOK', Extra = {}, NEW L, NEW S, Traced(L, S), Index
  PROVE  \E M, R : Traced(M, R)'
<1> DEFINE t0   == [op |-> "check", of |-> 0, form |-> "index"]
           x    == It(Here, "index")
           f    == blocks[contextBlock].fn
           made == <<BlockOf(f, <<It(Here, "panic")>>, Unreachable), NewBlock(f)>>
           t    == CondBr(Fresh(1), Fresh(2))
           c    == Append(blocks[contextBlock].code, x)
           ls   == <<<<Here, "panic">>, <<Here, "safe">>>>
           ss   == <<Ended, OpenAt(<<Here + 1, "at">>)>>
<1>0. TypeOK /\ OwnedNow
  BY DEF Known
<1>1. /\ CanStand("check") /\ Top.kind # "append" /\ src' = Append(src, t0) /\ t0 \in Token
      /\ blocks' = Checked(blocks, contextBlock, Here, f) /\ contextBlock' = Fresh(2)
      /\ UNCHANGED <<funcs, frames, contextCondAfter>>
  BY DEF Index, ExpressionAllowed, Open, CanStand, Put, stacks, Token, Ops, Forms
<1>2. /\ frames # << >> /\ contextBlock \in 1 .. Len(blocks) /\ Top.kind # "switch"
      /\ f \in Nat \ {0}
  <2>1. f = contextFunc /\ frames # << >>
    BY <1>1, Stands
  <2> QED
    BY <1>0, <1>1, <2>1, Stands, Context
<1>3. /\ Here \in Nat /\ Len(blocks) \in Nat /\ x \in Item /\ <<It(Here, "panic")>> \in Seq(Item)
      /\ Fresh(1) \in Block /\ Fresh(2) \in Block /\ Fresh(1) = Len(blocks) + 1 /\ Fresh(2) = Len(blocks) + 2
  BY <1>0, Numbers, ItemTypes DEF It, Tags
<1>4. made \in Seq(BasicBlock) /\ t \in Term /\ Len(made) = 2
  <2>1. BlockOf(f, <<It(Here, "panic")>>, Unreachable) \in BasicBlock /\ NewBlock(f) \in BasicBlock
    BY <1>2, <1>3, BlockTypes, TermTypes
  <2> QED
    BY <1>3, <2>1, TermTypes
<1>5. Makes(blocks, blocks', contextBlock, c, t, made)
  <2>1. blocks \in Seq(BasicBlock) /\ blocks' = Terminate(Emit(blocks, contextBlock, x) \o made, contextBlock, t)
    BY <1>0, <1>1 DEF TypeOK, Checked, WithCheck, It, Fresh
  <2> HIDE DEF made, t, x
  <2> QED
    BY <1>2, <1>3, <1>4, <2>1, MakesAll
<1>6. PICK M, R : With(L, S, M, R, contextBlock, Ended, ls, ss, 2)
  BY <1>2, <1>3, WithExists
<1>7. Extends(src', src) /\ \A A, T : Solves(A, T, src') => Says(A, T, t0, Here, CasesBefore(src', Here))
  BY <1>1, Speaks
<1>8. \A A, T : Solves(A, T, src') =>
        /\ A[<<Here, "at">>] = {x} /\ A[<<Here, "panic">>] = {It(Here, "panic")}
        /\ Same(A, T, <<Here, "safe">>, <<Here + 1, "at">>)
  <2> TAKE A, T
  <2> HAVE Solves(A, T, src')
  <2>1. Says(A, T, t0, Here, CasesBefore(src', Here))
    BY <1>7
  <2> QED
    BY <2>1 DEF Says
<1>9. /\ Fresh(1) \in DOMAIN M /\ Fresh(2) \in DOMAIN M
      /\ M[Fresh(1)] = <<Here, "panic">> /\ M[Fresh(2)] = <<Here, "safe">>
      /\ R[Fresh(2)] = OpenAt(<<Here + 1, "at">>)
  BY <1>3, <1>6 DEF With
<1>10. Good(M, src', blocks'[contextBlock], L[contextBlock], Ended)
  <2> DEFINE k2 == blocks'[contextBlock]
  <2>1. Holds(src', k2, L[contextBlock], x)
    <3> HIDE DEF x, made, t
    <3> QED
      BY <1>1, <1>3, <1>5, <1>7, <1>8, Emitted
  <2>2. k2.term = CondBr(Fresh(1), Fresh(2)) /\ x.tag \in Decisions
    BY <1>5 DEF Makes, It, Decisions
  <2>3. \A A, T : Solves(A, T, src') => Flow(A, x) = <<A[M[Fresh(1)]], A[M[Fresh(2)]]>>
    <3> TAKE A, T
    <3> HAVE Solves(A, T, src')
    <3>1. Flow(A, x) = <<{It(Here, "panic")}, A[<<Here, "safe">>]>>
      BY FlowOf
    <3> HIDE DEF x
    <3> QED
      BY <1>8, <1>9, <3>1
  <2> HIDE DEF k2, x
  <2>4. Good(M, src', k2, L[contextBlock], Ended)
    BY <1>9, <2>1, <2>2, <2>3, EndsBoth
  <2> QED
    BY <2>4 DEF k2
<1>11. Good(M, src', made[1], ls[1], ss[1])
  <2>1. made[1].code = <<It(Here, "panic")>> /\ made[1].term = Unreachable
    BY DEF BlockOf
  <2> HIDE DEF made
  <2>2. Good(M, src', made[1], <<Here, "panic">>, Ended)
    BY <1>8, <2>1, PanicEnds
  <2> QED
    BY <2>2
<1>12. Good(M, src', made[2], ls[2], ss[2]) /\ made[2].term = NoTerm
  <2>1. made[2].code = << >> /\ made[2].term = NoTerm
    BY DEF BlockOf, NewBlock
  <2> HIDE DEF made
  <2>2. Good(M, src', made[2], <<Here, "safe">>, OpenAt(<<Here + 1, "at">>))
    BY <1>8, <2>1, EmptyOpen
  <2> QED
    BY <2>1, <2>2
<1>13. ls[1] \in Places /\ ls[2] \in Places /\ ss[1] = Ended
  BY <1>3 DEF Places, Marks
<1>14. blocks'[contextBlock'].term = NoTerm
  <2>1. blocks'[Fresh(2)] = made[2]
    BY <1>3, <1>4, <1>5 DEF Makes
  <2> QED
    BY <1>1, <1>12, <2>1
<1>20. S[contextBlock] = OpenAt(<<Here, "at">>)
  BY <1>1, Stands
<1>15. Current(M, R)'
  <2>1. Last(frames').kind # "switch"
    BY <1>1, <1>2 DEF Top
  <2>2. R[contextBlock'] = OpenAt(<<Here + 1, "at">>)
    BY <1>1, <1>9
  <2>3. t0.op = "check"
    OBVIOUS
  <2> HIDE DEF t0
  <2> QED
    BY <1>1, <1>14, <2>1, <2>2, <2>3, CurrentOpen DEF MayJump
<1>16. SwitchTraced(Top, contextBlock', M, R, src')
  BY <1>2 DEF SwitchTraced
<1>17. \A i \in 1 .. 2 : /\ Good(M, src', made[i], ls[i], ss[i])
                         /\ ss[i] = Ended \/ made[i].term = NoTerm
                         /\ ls[i] \in Places
  <2> HIDE DEF made, ls, ss
  <2> QED
    BY <1>11, <1>12, <1>13
<1>18. Writes(L, S, M, R, contextBlock, c, t, made, Ended, ls, ss)
  <2>1. Makes(blocks, blocks', contextBlock, c, t, made) /\ Len(made) = 2
    BY <1>4, <1>5
  <2> HIDE DEF made, ls, ss, t, c
  <2> QED
    BY <2>1, <1>6, <1>10, <1>17 DEF Writes
<1> HIDE DEF made, ls, ss, t, c
<1>19. Traced(M, R)'
  BY <1>1, <1>2, <1>7, <1>15, <1>16, <1>18, <1>20, StraightMakes
<1> QED
  BY <1>19

\* What a statement finds.
LEMMA Ready ==
  ASSUME Known, Extra = {}, NEW L, NEW S, Traced(L, S), NEW s, CanStand(s)
  PROVE  /\ TypeOK /\ OwnedNow /\ frames \in Seq(Frame) /\ blocks \in Seq(BasicBlock)
         /\ frames # << >> /\ contextBlock \in 1 .. Len(blocks) /\ blocks[contextBlock].fn \in Nat \ {0}
         /\ S[contextBlock] = OpenAt(<<Here, "at">>)
         /\ s # "stmt" => Top.kind # "switch"
         /\ Here \in Nat /\ Len(blocks) \in Nat
         /\ Fresh(1) \in Block /\ Fresh(2) \in Block /\ Fresh(3) \in Block /\ Fresh(4) \in Block
         /\ Fresh(5) \in Block /\ Fresh(6) \in Block
<1>1. TypeOK /\ OwnedNow /\ frames \in Seq(Frame) /\ blocks \in Seq(BasicBlock)
  BY DEF Known, TypeOK
<1>2. /\ frames # << >> /\ contextBlock \in 1 .. Len(blocks) /\ S[contextBlock] = OpenAt(<<Here, "at">>)
      /\ s # "stmt" => Top.kind # "switch"
  BY Stands
<1>3. blocks[contextBlock].fn \in Nat \ {0}
  BY <1>1, <1>2, Context
<1>4. Here \in Nat /\ Len(blocks) \in Nat
  BY <1>1, Numbers
<1> QED
  BY <1>1, <1>2, <1>3, <1>4, FreshBlocks

LEMMA HereItems ==
  ASSUME Here \in Nat
  PROVE  /\ It(Here, "stmt") \in Item /\ It(Here, "index") \in Item /\ It(Here, "start") \in Item
         /\ It(Here, "end") \in Item /\ It(Here, "assert") \in Item /\ It(Here, "panic") \in Item
         /\ It(Here, "if") \in Item /\ It(Here, "init") \in Item /\ It(Here, "cond") \in Item
         /\ It(Here, "switch") \in Item /\ It(Here, "ret") \in Item /\ It(Here, "call") \in Item
BY DEF It, Item, Tags

\* The labels of the blocks made.
LEMMA WithMade ==
  ASSUME Len(blocks) \in Nat, NEW L, NEW S, NEW M, NEW R, NEW b, NEW st, NEW ls, NEW ss, NEW n \in Nat,
         With(L, S, M, R, b, st, ls, ss, n)
  PROVE  /\ \A i \in 1 .. n : Fresh(i) \in DOMAIN M /\ M[Fresh(i)] = ls[i] /\ R[Fresh(i)] = ss[i]
         /\ \A x \in 1 .. Len(blocks) : x \in DOMAIN M
         /\ DOMAIN M = DOMAIN R
<1>1. \A i \in 1 .. n : Fresh(i) \in 1 .. Len(blocks) + n
  BY DEF Fresh
<1>2. \A x \in 1 .. Len(blocks) : x \in 1 .. Len(blocks) + n
  OBVIOUS
<1> QED
  BY <1>1, <1>2 DEF With

\* Code goes on in the n-th of the blocks made.
LEMMA GoesOn ==
  ASSUME Known, NEW t0 \in Token, src' = Append(src, t0), t0.op \notin {"break", "continue", "return"},
         NEW L, NEW S, NEW M, NEW R, NEW c, NEW t, NEW made, NEW st, NEW ls, NEW ss,
         Writes(L, S, M, R, contextBlock, c, t, made, st, ls, ss), NEW n \in 1 .. Len(made),
         contextBlock' = Fresh(n), ss[n] = OpenAt(<<Here + 1, "at">>),
         made[n].term = NoTerm \/ (made[n].term = Unreachable /\ ls[n][2] = "add"
                                     /\ Last(frames').kind # "switch")
  PROVE  Current(M, R)'
<1>1. M[Fresh(n)] = ls[n] /\ R[Fresh(n)] = ss[n] /\ blocks'[Fresh(n)] = made[n]
  BY DEF Writes, With, Makes, Fresh
<1>2. MayJump(blocks'[contextBlock'].term, M[contextBlock'], contextCondAfter', Len(contextCondAfter'))
  BY <1>1 DEF MayJump
<1> QED
  BY <1>1, <1>2, CurrentOpen

\* x[a:b] of a string, with its two checks.
LEMMA SubstringTraced ==
  ASSUME Known, TypeOK', Extra = {}, NEW L, NEW S, Traced(L, S), Substring
  PROVE  \E M, R : Traced(M, R)'
<1> DEFINE t0   == [op |-> "check", of |-> 0, form |-> "substring"]
           x    == It(Here, "start")
           y    == It(Here, "end")
           f    == blocks[contextBlock].fn
           m1   == BlockOf(f, <<It(Here, "panic")>>, Unreachable)
           m2   == NewBlock(f)
           m3   == BlockOf(f, <<y>>, CondBr(Fresh(2), Fresh(1)))
           made == <<m1, m2, m3>>
           t    == CondBr(Fresh(3), Fresh(1))
           c    == Append(blocks[contextBlock].code, x)
           ls   == <<<<Here, "panic">>, <<Here, "safe">>, <<Here, "end">>>>
           ss   == <<Ended, OpenAt(<<Here + 1, "at">>), Ended>>
<1>0. CanStand("check")
  BY DEF Substring, ExpressionAllowed
<1>1. /\ CanStand("check") /\ Top.kind # "append" /\ src' = Append(src, t0) /\ t0 \in Token
      /\ blocks' = Terminate(Emit(blocks, contextBlock, x) \o made, contextBlock, t)
      /\ contextBlock' = Fresh(2)
      /\ UNCHANGED <<funcs, frames, contextCondAfter>>
  BY DEF Substring, ExpressionAllowed, Open, CanStand, Put, stacks, Token, Ops, Forms, It
<1>2. /\ frames # << >> /\ contextBlock \in 1 .. Len(blocks) /\ Top.kind # "switch"
      /\ S[contextBlock] = OpenAt(<<Here, "at">>)
      /\ f \in Nat \ {0} /\ Here \in Nat /\ Len(blocks) \in Nat /\ blocks \in Seq(BasicBlock)
      /\ x \in Item /\ <<It(Here, "panic")>> \in Seq(Item) /\ <<y>> \in Seq(Item)
      /\ Fresh(1) \in Block /\ Fresh(2) \in Block /\ Fresh(3) \in Block
  <2> HIDE DEF x, y
  <2>0. Here \in Nat
    BY <1>0, Ready
  <2>1. x \in Item /\ y \in Item /\ It(Here, "panic") \in Item
    BY <2>0, HereItems DEF x, y
  <2>2. /\ frames # << >> /\ contextBlock \in 1 .. Len(blocks) /\ Top.kind # "switch"
        /\ S[contextBlock] = OpenAt(<<Here, "at">>)
        /\ f \in Nat \ {0} /\ Here \in Nat /\ Len(blocks) \in Nat /\ blocks \in Seq(BasicBlock)
    <3>1. frames # << >> /\ contextBlock \in 1 .. Len(blocks) /\ S[contextBlock] = OpenAt(<<Here, "at">>)
      BY <1>0, Ready
    <3>2. f \in Nat \ {0}
      BY <1>0, Ready
    <3>3. Here \in Nat /\ Len(blocks) \in Nat /\ blocks \in Seq(BasicBlock)
      BY <1>0, Ready
    <3>4. Top.kind # "switch"
      BY <1>0, Ready
    <3> QED
      BY <3>1, <3>2, <3>3, <3>4
  <2>3. Fresh(1) \in Block /\ Fresh(2) \in Block /\ Fresh(3) \in Block
    BY <1>0, Ready
  <2> QED
    BY <2>1, <2>2, <2>3
<1> HIDE DEF f
<1>3. /\ m1 \in BasicBlock /\ m1.code = <<It(Here, "panic")>> /\ m1.term = Unreachable
      /\ m2 \in BasicBlock /\ m2.code = << >> /\ m2.term = NoTerm
      /\ m3 \in BasicBlock /\ m3.code = <<y>> /\ m3.term = CondBr(Fresh(2), Fresh(1)) /\ t \in Term
  <2> HIDE DEF y
  <2>1. Unreachable \in Term /\ CondBr(Fresh(2), Fresh(1)) \in Term /\ t \in Term
    BY <1>2, TermTypes
  <2>2. m1 \in BasicBlock /\ m2 \in BasicBlock
    BY <1>2, <2>1, BlockTypes
  <2>3. m3 \in BasicBlock
    BY <1>2, <2>1, BlockTypes
  <2>4. /\ m1.code = <<It(Here, "panic")>> /\ m1.term = Unreachable
        /\ m2.code = << >> /\ m2.term = NoTerm
        /\ m3.code = <<y>> /\ m3.term = CondBr(Fresh(2), Fresh(1))
    BY DEF BlockOf, NewBlock
  <2> QED
    BY <2>1, <2>2, <2>3, <2>4
<1> HIDE DEF m1, m2, m3
<1>4. Makes(blocks, blocks', contextBlock, c, t, made) /\ Len(made) = 3
  <2>1. made \in Seq(BasicBlock) /\ Len(made) = 3
    BY <1>3
  <2> HIDE DEF made, t, x
  <2> QED
    BY <1>1, <1>2, <1>3, <2>1, MakesAll
<1>5. PICK M, R : With(L, S, M, R, contextBlock, Ended, ls, ss, 3)
  BY <1>2, WithExists
<1>6. /\ Extends(src', src)
      /\ \A A, T : Solves(A, T, src') =>
           /\ A[<<Here, "at">>] = {x} /\ A[<<Here, "panic">>] = {It(Here, "panic")}
           /\ A[<<Here, "end">>] = {y} /\ Same(A, T, <<Here, "safe">>, <<Here + 1, "at">>)
  <2>1. Extends(src', src) /\ \A A, T : Solves(A, T, src') => Says(A, T, t0, Here, CasesBefore(src', Here))
    BY <1>1, Speaks
  <2> QED
    BY <2>1 DEF Says
<1>7. /\ Fresh(1) \in DOMAIN M /\ Fresh(2) \in DOMAIN M /\ Fresh(3) \in DOMAIN M
      /\ M[Fresh(1)] = <<Here, "panic">> /\ M[Fresh(2)] = <<Here, "safe">>
      /\ M[Fresh(3)] = <<Here, "end">>
  BY <1>2, <1>5, WithMade
<1>8. Good(M, src', blocks'[contextBlock], L[contextBlock], Ended)
  <2> DEFINE k2 == blocks'[contextBlock]
  <2>1. Holds(src', k2, L[contextBlock], x)
    <3> HIDE DEF x, made, t
    <3> QED
      BY <1>1, <1>2, <1>4, <1>6, Emitted
  <2>2. k2.term = CondBr(Fresh(3), Fresh(1)) /\ x.tag \in Decisions
    BY <1>4 DEF Makes, It, Decisions
  <2>3. \A A : Flow(A, x) = <<{y}, {It(Here, "panic")}>>
    BY FlowOf
  <2>4. \A A, T : Solves(A, T, src') => Flow(A, x) = <<A[M[Fresh(3)]], A[M[Fresh(1)]]>>
    BY <1>6, <1>7, <2>3
  <2> HIDE DEF k2, x, y
  <2> QED
    BY <1>7, <2>1, <2>2, <2>4, EndsBoth DEF k2
<1>9. Good(M, src', m1, <<Here, "panic">>, Ended)
  BY <1>3, <1>6, PanicEnds
<1>10. Good(M, src', m2, <<Here, "safe">>, OpenAt(<<Here + 1, "at">>))
  BY <1>3, <1>6, EmptyOpen
<1>11. Good(M, src', m3, <<Here, "end">>, Ended)
  <2>1. \A A : Flow(A, y) = <<A[<<Here, "safe">>], {It(Here, "panic")}>> /\ y.tag \in Decisions
    BY FlowOf DEF It, Decisions
  <2> HIDE DEF y
  <2>2. Holds(src', m3, <<Here, "end">>, y)
    BY <1>3, <1>6, MadeHolds
  <2>3. /\ y.tag \in Decisions
        /\ \A A, T : Solves(A, T, src') => Flow(A, y) = <<A[M[Fresh(2)]], A[M[Fresh(1)]]>>
    BY <1>6, <1>7, <2>1
  <2> QED
    BY <1>3, <1>7, <2>2, <2>3, EndsBoth
<1>12. Writes(L, S, M, R, contextBlock, c, t, made, Ended, ls, ss)
  <2>1. \A i \in 1 .. 3 : /\ Good(M, src', made[i], ls[i], ss[i]) /\ ls[i] \in Places
                          /\ ss[i] = Ended \/ made[i].term = NoTerm
    <3>1. /\ Good(M, src', made[1], ls[1], ss[1]) /\ ss[1] = Ended
          /\ Good(M, src', made[2], ls[2], ss[2]) /\ made[2].term = NoTerm
          /\ Good(M, src', made[3], ls[3], ss[3]) /\ ss[3] = Ended
      BY <1>3, <1>9, <1>10, <1>11
    <3>2. ls[1] \in Places /\ ls[2] \in Places /\ ls[3] \in Places
      BY <1>2 DEF Places, Marks
    <3> HIDE DEF made, ls, ss
    <3> QED
      BY <3>1, <3>2
  <2> HIDE DEF made, ls, ss, t, c
  <2> QED
    BY <1>4, <1>5, <1>8, <2>1 DEF Writes
<1>13. ss[2] = OpenAt(<<Here + 1, "at">>) /\ made[2].term = NoTerm /\ 2 \in 1 .. Len(made)
       /\ t0.op = "check"
  BY <1>3
<1> HIDE DEF made, ls, ss, t, c, t0
<1>14. Current(M, R)'
  BY <1>1, <1>12, <1>13, GoesOn
<1>15. SwitchTraced(Top, contextBlock', M, R, src')
  BY <1>2 DEF SwitchTraced
<1>16. Traced(M, R)'
  BY <1>1, <1>2, <1>6, <1>12, <1>14, <1>15, StraightMakes
<1> QED
  BY <1>16

\* x.(T).
LEMMA TypeAssertionTraced ==
  ASSUME Known, TypeOK', Extra = {}, NEW L, NEW S, Traced(L, S), TypeAssertion
  PROVE  \E M, R : Traced(M, R)'
<1> DEFINE t0   == [op |-> "check", of |-> 0, form |-> "assertion"]
           x    == It(Here, "assert")
           f    == blocks[contextBlock].fn
           m1   == BlockOf(f, << >>, Br(Fresh(3)))
           m3   == NewBlock(f)
           made == <<m1, m1, m3>>
           t    == CondBr(Fresh(1), Fresh(2))
           c    == Append(blocks[contextBlock].code, x)
           ls   == <<<<Here, "side">>, <<Here, "side">>, <<Here, "safe">>>>
           ss   == <<Ended, Ended, OpenAt(<<Here + 1, "at">>)>>
<1>0. CanStand("check")
  BY DEF TypeAssertion, StatementAllowed
<1>1. /\ CanStand("check") /\ Top.kind # "append" /\ src' = Append(src, t0) /\ t0 \in Token
      /\ blocks' = Terminate(Emit(blocks, contextBlock, x) \o made, contextBlock, t)
      /\ contextBlock' = Fresh(3)
      /\ UNCHANGED <<funcs, frames, contextCondAfter>>
  BY DEF TypeAssertion, StatementAllowed, Open, CanStand, Put, stacks, Token, Ops, Forms, It
<1>2. /\ frames # << >> /\ contextBlock \in 1 .. Len(blocks) /\ Top.kind # "switch"
      /\ S[contextBlock] = OpenAt(<<Here, "at">>)
      /\ f \in Nat \ {0} /\ Here \in Nat /\ Len(blocks) \in Nat /\ blocks \in Seq(BasicBlock)
      /\ x \in Item /\ Fresh(1) \in Block /\ Fresh(2) \in Block /\ Fresh(3) \in Block
  <2> HIDE DEF x
  <2>0. Here \in Nat
    BY <1>0, Ready
  <2>1. x \in Item
    BY <2>0, HereItems DEF x
  <2>2. /\ frames # << >> /\ contextBlock \in 1 .. Len(blocks) /\ Top.kind # "switch"
        /\ S[contextBlock] = OpenAt(<<Here, "at">>)
        /\ f \in Nat \ {0} /\ Here \in Nat /\ Len(blocks) \in Nat /\ blocks \in Seq(BasicBlock)
    <3>1. frames # << >> /\ contextBlock \in 1 .. Len(blocks) /\ S[contextBlock] = OpenAt(<<Here, "at">>)
      BY <1>0, Ready
    <3>2. f \in Nat \ {0}
      BY <1>0, Ready
    <3>3. Here \in Nat /\ Len(blocks) \in Nat /\ blocks \in Seq(BasicBlock)
      BY <1>0, Ready
    <3>4. Top.kind # "switch"
      BY <1>0, Ready
    <3> QED
      BY <3>1, <3>2, <3>3, <3>4
  <2>3. Fresh(1) \in Block /\ Fresh(2) \in Block /\ Fresh(3) \in Block
    BY <1>0, Ready
  <2> QED
    BY <2>1, <2>2, <2>3
<1> HIDE DEF f
<1>3. /\ m1 \in BasicBlock /\ m1.code = << >> /\ m1.term = Br(Fresh(3))
      /\ m3 \in BasicBlock /\ m3.code = << >> /\ m3.term = NoTerm /\ t \in Term
  <2>1. << >> \in Seq(Item) /\ Br(Fresh(3)) \in Term /\ t \in Term
    BY <1>2, TermTypes
  <2>2. m1 \in BasicBlock /\ m3 \in BasicBlock
    BY <1>2, <2>1, BlockTypes
  <2>3. /\ m1.code = << >> /\ m1.term = Br(Fresh(3)) /\ m3.code = << >> /\ m3.term = NoTerm
    BY DEF BlockOf, NewBlock
  <2> QED
    BY <2>1, <2>2, <2>3
<1> HIDE DEF m1, m3
<1>4. Makes(blocks, blocks', contextBlock, c, t, made) /\ Len(made) = 3
  <2>1. made \in Seq(BasicBlock) /\ Len(made) = 3
    BY <1>3
  <2> HIDE DEF made, t, x
  <2> QED
    BY <1>1, <1>2, <1>3, <2>1, MakesAll
<1>5. PICK M, R : With(L, S, M, R, contextBlock, Ended, ls, ss, 3)
  BY <1>2, WithExists
<1>6. /\ Extends(src', src)
      /\ \A A, T : Solves(A, T, src') =>
           /\ A[<<Here, "at">>] = {x} /\ Passes(A, T, <<Here, "side">>, <<Here, "safe">>)
           /\ Same(A, T, <<Here, "safe">>, <<Here + 1, "at">>)
  <2>1. Extends(src', src) /\ \A A, T : Solves(A, T, src') => Says(A, T, t0, Here, CasesBefore(src', Here))
    BY <1>1, Speaks
  <2> QED
    BY <2>1 DEF Says
<1>7. /\ Fresh(1) \in DOMAIN M /\ Fresh(2) \in DOMAIN M /\ Fresh(3) \in DOMAIN M
      /\ M[Fresh(1)] = <<Here, "side">> /\ M[Fresh(2)] = <<Here, "side">>
      /\ M[Fresh(3)] = <<Here, "safe">>
  BY <1>2, <1>5, WithMade
<1>8. Good(M, src', blocks'[contextBlock], L[contextBlock], Ended)
  <2> DEFINE k2 == blocks'[contextBlock]
  <2>1. Holds(src', k2, L[contextBlock], x)
    <3> HIDE DEF x, made, t
    <3> QED
      BY <1>1, <1>2, <1>4, <1>6, Emitted
  <2>2. k2.term = CondBr(Fresh(1), Fresh(2)) /\ x.tag \notin Decisions
    BY <1>4 DEF Makes, It, Decisions
  <2>3. \A A, T : Solves(A, T, src') => Flow(A, x) = <<A[<<Here, "side">>]>>
    <3> TAKE A, T
    <3> HAVE Solves(A, T, src')
    <3>1. Flow(A, x) = <<A[<<Here + 1, "at">>]>>
      BY FlowOf
    <3>2. A[<<Here, "side">>] = A[<<Here + 1, "at">>]
      BY <1>6 DEF Passes, Same
    <3> QED
      BY <3>1, <3>2
  <2> HIDE DEF k2, x
  <2> QED
    BY <1>7, <2>1, <2>2, <2>3, EndsOne DEF k2
<1>9. Good(M, src', m1, <<Here, "side">>, Ended)
  BY <1>3, <1>6, <1>7, EmptyEnds
<1>10. Good(M, src', m3, <<Here, "safe">>, OpenAt(<<Here + 1, "at">>))
  BY <1>3, <1>6, EmptyOpen
<1>12. Writes(L, S, M, R, contextBlock, c, t, made, Ended, ls, ss)
  <2>1. \A i \in 1 .. 3 : /\ Good(M, src', made[i], ls[i], ss[i]) /\ ls[i] \in Places
                          /\ ss[i] = Ended \/ made[i].term = NoTerm
    <3>1. /\ Good(M, src', made[1], ls[1], ss[1]) /\ ss[1] = Ended
          /\ Good(M, src', made[2], ls[2], ss[2]) /\ ss[2] = Ended
          /\ Good(M, src', made[3], ls[3], ss[3]) /\ made[3].term = NoTerm
      BY <1>3, <1>9, <1>10
    <3>2. ls[1] \in Places /\ ls[2] \in Places /\ ls[3] \in Places
      BY <1>2 DEF Places, Marks
    <3> HIDE DEF made, ls, ss
    <3> QED
      BY <3>1, <3>2
  <2> HIDE DEF made, ls, ss, t, c
  <2> QED
    BY <1>4, <1>5, <1>8, <2>1 DEF Writes
<1>13. ss[3] = OpenAt(<<Here + 1, "at">>) /\ made[3].term = NoTerm /\ 3 \in 1 .. Len(made)
       /\ t0.op = "check"
  BY <1>3
<1> HIDE DEF made, ls, ss, t, c, t0
<1>14. Current(M, R)'
  BY <1>1, <1>12, <1>13, GoesOn
<1>15. SwitchTraced(Top, contextBlock', M, R, src')
  BY <1>2 DEF SwitchTraced
<1>16. Traced(M, R)'
  BY <1>1, <1>2, <1>6, <1>12, <1>14, <1>15, StraightMakes
<1> QED
  BY <1>16

-----------------------------------------------------------------------------
(* Break, continue, return                                                   *)

\* What a statement other than straight-line code finds.
Prepared(S) ==
  /\ frames \in Seq(Frame) /\ blocks \in Seq(BasicBlock) /\ frames # << >>
  /\ Len(frames) \in 1 .. Len(frames) /\ Top = frames[Len(frames)]
  /\ contextBlock \in 1 .. Len(blocks) /\ S[contextBlock] = OpenAt(<<Here, "at">>)
  /\ blocks[contextBlock].fn \in Nat \ {0} /\ Here \in Nat /\ Len(blocks) \in Nat
  /\ Top.kind # "switch" /\ TypeOK /\ OwnedNow

LEMMA PreparedIs ==
  ASSUME Known, Extra = {}, NEW L, NEW S, Traced(L, S), NEW s, CanStand(s), s # "stmt"
  PROVE  Prepared(S)
<1>1. frames # << >> /\ contextBlock \in 1 .. Len(blocks) /\ S[contextBlock] = OpenAt(<<Here, "at">>)
  BY Ready
<1>2. blocks[contextBlock].fn \in Nat \ {0}
  BY Ready
<1>3. Here \in Nat /\ Len(blocks) \in Nat /\ blocks \in Seq(BasicBlock) /\ frames \in Seq(Frame)
  BY Ready
<1>4. Top.kind # "switch"
  BY Ready
<1>5. TypeOK /\ OwnedNow
  BY Ready
<1>6. Len(frames) \in 1 .. Len(frames) /\ Top = frames[Len(frames)]
  BY <1>1, <1>5, Context
<1> QED
  BY <1>1, <1>2, <1>3, <1>4, <1>5, <1>6 DEF Prepared

\* A statement that leaves the block it is compiled in.
LEMMA JumpTraced ==
  ASSUME Known, TypeOK', NEW L, NEW S, Traced(L, S), Prepared(S),
         Top.kind \in {"if", "func"}, Top.kind = "func" => funcs[Top.fn].results > 0,
         NEW t0 \in Token, src' = Append(src, t0), t0.op \in {"break", "continue", "return"},
         UNCHANGED <<funcs, frames, contextCondAfter, contextBlock>>,
         NEW c, NEW t, Makes(blocks, blocks', contextBlock, c, t, << >>),
         NEW M, NEW R, With(L, S, M, R, contextBlock, Ended, << >>, << >>, 0),
         Good(M, src', blocks'[contextBlock], L[contextBlock], Ended)
  PROVE  Traced(M, R)'
<1>1. frames # << >> /\ contextBlock \in 1 .. Len(blocks) /\ S[contextBlock] = OpenAt(<<Here, "at">>)
      /\ Top.kind # "switch"
  BY DEF Prepared
<1>2. Extends(src', src)
  BY Speaks
<1>3. Writes(L, S, M, R, contextBlock, c, t, << >>, Ended, << >>, << >>)
  <2>1. Len(<< >>) = 0 /\ 1 .. 0 = {}
    OBVIOUS
  <2> QED
    BY <2>1 DEF Writes
<1>4. Last(src') = t0 /\ src' # << >>
  BY PutIs DEF Known, TypeOK
<1>5. AfterJump'
  BY <1>4 DEF AfterJump
<1>6. R[contextBlock'] = Ended
  BY <1>1 DEF With
<1>7. Current(M, R)'
  BY <1>5, <1>6 DEF Current, Top
<1>8. SwitchTraced(Top, contextBlock', M, R, src')
  BY <1>1 DEF SwitchTraced
<1>9. UNCHANGED <<funcs, frames, contextCondAfter>> /\ contextBlock' = contextBlock
  OBVIOUS
<1> QED
  BY <1>1, <1>2, <1>3, <1>7, <1>8, <1>9, StraightMakes

\* The loop a break or a continue leaves or continues.
LEMMA LoopLabels ==
  ASSUME Known, Extra = {}, NEW L, NEW S, Traced(L, S), Break \/ Continue
  PROVE  /\ LoopsOpen # {} /\ Top.kind # "func"
         /\ contextLoopBreak # << >> /\ contextLoopContinue # << >>
         /\ Last(contextLoopBreak) \in 1 .. Len(blocks)
         /\ L[Last(contextLoopBreak)] = <<frames[InnermostOf(LoopsOpen)].at, "after">>
         /\ Last(contextLoopContinue) \in 1 .. Len(blocks)
         /\ L[Last(contextLoopContinue)] = <<frames[InnermostOf(LoopsOpen)].at, "post">>
         /\ frames[InnermostOf(LoopsOpen)].at \in Nat
<1> DEFINE i == InnermostOf(LoopsOpen)
<1>0. TypeOK /\ OwnedNow /\ StacksRight /\ CallsRight
  BY DEF Known
<1>1. LoopsOpen # {}
  BY <1>0, JumpsInLoop
<1>2. i \in LoopsOpen
  <2>1. LoopsOpen \in SUBSET (DOMAIN frames)
    BY DEF LoopsOpen
  <2> QED
    BY <1>0, <1>1, <2>1, InnermostType
<1>3. /\ contextLoopBreak # << >> /\ contextLoopContinue # << >>
      /\ Last(contextLoopBreak) = frames[i].after /\ Last(contextLoopContinue) = frames[i].post
  BY <1>0, <1>1, InnermostRight
<1>4. Last(contextLoopBreak) \in 1 .. Len(blocks) /\ Last(contextLoopContinue) \in 1 .. Len(blocks)
  BY <1>0, <1>1, LoopOwned DEF In
<1>5. /\ i \in 1 .. Len(frames) /\ frames[i].kind = "for" /\ Top.kind # "func" /\ frames[i].at \in Nat
  <2>1. DOMAIN frames = 1 .. Len(frames) /\ Len(frames) \in Nat
    BY <1>0, CallTypes
  <2>2. i \in 1 .. Len(frames) /\ frames[i].kind = "for" /\ Inner(i)
    BY <1>2, <2>1 DEF LoopsOpen
  <2>3. Len(frames) \in i .. Len(frames) /\ frames # << >>
    BY <2>1, <2>2
  <2>4. Top = frames[Len(frames)]
    BY <1>0, <2>3, Context
  <2> QED
    BY <1>0, <2>2, <2>3, <2>4, CallTypes DEF Inner
<1>6. ForTraced(frames[i], L, S)
  BY <1>5 DEF Traced, FramesTraced, FrameTraced
<1> QED
  BY <1>1, <1>3, <1>4, <1>5, <1>6 DEF ForTraced, MadeFor

LEMMA BreakTraced ==
  ASSUME Known, TypeOK', Extra = {}, NEW L, NEW S, Traced(L, S), Break
  PROVE  \E M, R : Traced(M, R)'
<1> DEFINE loop == frames[InnermostOf(LoopsOpen)]
           t0   == [op |-> "break", of |-> loop.at, form |-> "plain"]
           b    == Last(contextLoopBreak)
           c    == blocks[contextBlock].code
<1>1. CanStand("break") /\ Top.kind \notin {"append", "for"}
  BY DEF Break, JumpAllowed, StatementAllowed, Open, CanStand
<1>2. /\ frames # << >> /\ contextBlock \in 1 .. Len(blocks) /\ blocks \in Seq(BasicBlock)
      /\ Len(blocks) \in Nat /\ Here \in Nat /\ Prepared(S) /\ Top \in Frame /\ Top.kind # "switch"
  <2>1. Prepared(S)
    BY <1>1, PreparedIs
  <2> QED
    BY <2>1, Context DEF Prepared
<1>3. /\ LoopsOpen # {} /\ Top.kind # "func" /\ contextLoopBreak # << >>
      /\ b \in 1 .. Len(blocks) /\ L[b] = <<loop.at, "after">> /\ loop.at \in Nat
  BY LoopLabels
<1>4. InnermostOf(BreakablesOpen) = InnermostOf(LoopsOpen)
  <2> DEFINE m == InnermostOf(BreakablesOpen)
             n == InnermostOf(LoopsOpen)
  <2>0. TypeOK /\ DOMAIN frames = 1 .. Len(frames) /\ Len(frames) \in Nat
    BY CallTypes DEF Known
  <2>1. /\ BreakablesOpen \in SUBSET (DOMAIN frames) /\ LoopsOpen \in SUBSET (DOMAIN frames)
        /\ LoopsOpen \subseteq BreakablesOpen
    BY DEF BreakablesOpen, LoopsOpen
  <2>2. /\ m \in BreakablesOpen /\ \A j \in BreakablesOpen : j <= m
        /\ n \in LoopsOpen /\ \A j \in LoopsOpen : j <= n
    <3> HIDE DEF m, n
    <3> QED
      BY <1>3, <2>0, <2>1, InnermostType DEF m, n
  <2>3. frames[m].kind # "switch"
    BY DEF Break
  <2> HIDE DEF m, n
  <2>4. m \in LoopsOpen
    BY <2>2, <2>3 DEF BreakablesOpen, LoopsOpen
  <2>5. m \in Nat /\ n \in Nat /\ m <= n /\ n <= m
    BY <2>0, <2>1, <2>2, <2>4
  <2> QED
    BY <2>5 DEF m, n
<1>5. /\ src' = Append(src, t0) /\ t0 \in Token
      /\ blocks' = Terminate(blocks, contextBlock, Br(b))
      /\ UNCHANGED <<funcs, frames, contextCondAfter, contextBlock>>
  <2>1. src' = Append(src, t0)
    BY <1>4 DEF Break, Put
  <2>2. t0 \in Token
    BY <1>3 DEF Token, Ops, Forms
  <2>3. blocks' = Terminate(blocks, contextBlock, Br(b))
    BY <1>3 DEF Break
  <2>4. UNCHANGED <<funcs, frames, contextCondAfter, contextBlock>>
    BY DEF Break, stacks
  <2> QED
    BY <2>1, <2>2, <2>3, <2>4
<1>6. PICK M, R : With(L, S, M, R, contextBlock, Ended, << >>, << >>, 0)
  BY <1>2, WithExists
<1>7. Edits(blocks, blocks', contextBlock, c, Br(b))
  <2>1. b \in Block /\ Br(b) \in Term
    BY <1>2, <1>3, TermTypes DEF Block
  <2> HIDE DEF b
  <2> QED
    BY <1>2, <1>5, <2>1, TerminateIs
<1>8. Makes(blocks, blocks', contextBlock, c, Br(b), << >>)
  <2> HIDE DEF b, c
  <2> QED
    BY <1>2, <1>7, EditsMakes
<1>9. Good(M, src', blocks'[contextBlock], L[contextBlock], Ended)
  <2>1. Extends(src', src) /\ \A A, T : Solves(A, T, src') => Says(A, T, t0, Here, CasesBefore(src', Here))
    BY <1>5, Speaks
  <2>2. \A A, T : Solves(A, T, src') => Passes(A, T, <<Here, "at">>, <<loop.at, "after">>)
    BY <2>1 DEF Says
  <2>3. b \in DOMAIN M /\ M[b] = <<loop.at, "after">>
    BY <1>2, <1>3, <1>6 DEF With
  <2>4. Good(L, src, blocks[contextBlock], L[contextBlock], OpenAt(<<Here, "at">>))
    BY <1>1, Stands
  <2>5. blocks'[contextBlock].code = blocks[contextBlock].code /\ blocks'[contextBlock].term = Br(b)
    BY <1>7 DEF Edits
  <2> HIDE DEF b, loop
  <2> QED
    BY <2>1, <2>2, <2>3, <2>4, <2>5, OpenEnds, Zenon
<1>10. Top.kind \in {"if", "func"} /\ (Top.kind = "func" => funcs[Top.fn].results > 0)
       /\ t0.op \in {"break", "continue", "return"}
  BY <1>1, <1>2, <1>3, FrameKinds
<1> HIDE DEF t0, b, c
<1>11. Traced(M, R)'
  BY <1>2, <1>5, <1>6, <1>8, <1>9, <1>10, JumpTraced
<1> QED
  BY <1>11

LEMMA ContinueTraced ==
  ASSUME Known, TypeOK', Extra = {}, NEW L, NEW S, Traced(L, S), Continue
  PROVE  \E M, R : Traced(M, R)'
<1> DEFINE loop == frames[InnermostOf(LoopsOpen)]
           t0   == [op |-> "continue", of |-> loop.at, form |-> "plain"]
           b    == Last(contextLoopContinue)
           c    == blocks[contextBlock].code
<1>1. CanStand("continue") /\ Top.kind \notin {"append", "for"}
  BY DEF Continue, JumpAllowed, StatementAllowed, Open, CanStand
<1>2. /\ frames # << >> /\ contextBlock \in 1 .. Len(blocks) /\ blocks \in Seq(BasicBlock)
      /\ Len(blocks) \in Nat /\ Here \in Nat /\ Prepared(S) /\ Top \in Frame /\ Top.kind # "switch"
  <2>1. Prepared(S)
    BY <1>1, PreparedIs
  <2> QED
    BY <2>1, Context DEF Prepared
<1>3. /\ Top.kind # "func" /\ contextLoopContinue # << >>
      /\ b \in 1 .. Len(blocks) /\ L[b] = <<loop.at, "post">> /\ loop.at \in Nat
  BY LoopLabels
<1>5. /\ src' = Append(src, t0) /\ t0 \in Token
      /\ blocks' = Terminate(blocks, contextBlock, Br(b))
      /\ UNCHANGED <<funcs, frames, contextCondAfter, contextBlock>>
  <2>1. src' = Append(src, t0)
    BY DEF Continue, Put
  <2>2. t0 \in Token
    BY <1>3 DEF Token, Ops, Forms
  <2>3. blocks' = Terminate(blocks, contextBlock, Br(b))
    BY <1>3 DEF Continue
  <2>4. UNCHANGED <<funcs, frames, contextCondAfter, contextBlock>>
    BY DEF Continue, stacks
  <2> QED
    BY <2>1, <2>2, <2>3, <2>4
<1>6. PICK M, R : With(L, S, M, R, contextBlock, Ended, << >>, << >>, 0)
  BY <1>2, WithExists
<1>7. Edits(blocks, blocks', contextBlock, c, Br(b))
  <2>1. b \in Block /\ Br(b) \in Term
    BY <1>2, <1>3, TermTypes DEF Block
  <2> HIDE DEF b
  <2> QED
    BY <1>2, <1>5, <2>1, TerminateIs
<1>8. Makes(blocks, blocks', contextBlock, c, Br(b), << >>)
  <2> HIDE DEF b, c
  <2> QED
    BY <1>2, <1>7, EditsMakes
<1>9. Good(M, src', blocks'[contextBlock], L[contextBlock], Ended)
  <2>1. Extends(src', src) /\ \A A, T : Solves(A, T, src') => Says(A, T, t0, Here, CasesBefore(src', Here))
    BY <1>5, Speaks
  <2>2. \A A, T : Solves(A, T, src') => Passes(A, T, <<Here, "at">>, <<loop.at, "post">>)
    BY <2>1 DEF Says
  <2>3. b \in DOMAIN M /\ M[b] = <<loop.at, "post">>
    BY <1>2, <1>3, <1>6 DEF With
  <2>4. Good(L, src, blocks[contextBlock], L[contextBlock], OpenAt(<<Here, "at">>))
    BY <1>1, Stands
  <2>5. blocks'[contextBlock].code = blocks[contextBlock].code /\ blocks'[contextBlock].term = Br(b)
    BY <1>7 DEF Edits
  <2> HIDE DEF b, loop
  <2> QED
    BY <2>1, <2>2, <2>3, <2>4, <2>5, OpenEnds
<1>10. Top.kind \in {"if", "func"} /\ (Top.kind = "func" => funcs[Top.fn].results > 0)
       /\ t0.op \in {"break", "continue", "return"}
  BY <1>1, <1>2, <1>3, FrameKinds
<1> HIDE DEF t0, b, c
<1>11. Traced(M, R)'
  BY <1>2, <1>5, <1>6, <1>8, <1>9, <1>10, JumpTraced
<1> QED
  BY <1>11

\* A return: its item, and no way on.
LEMMA ReturnTraced ==
  ASSUME Known, TypeOK', Extra = {}, NEW L, NEW S, Traced(L, S), ReturnAllowed("return"),
         funcs[contextFunc].results > 0, NEW form \in Forms, Put("return", 0, form),
         NEW t \in {RetVal, RetVoid},
         blocks' = Terminate(Emit(blocks, contextBlock, It(Here, "ret")), contextBlock, t),
         UNCHANGED <<funcs, frames, contextCondAfter, contextBlock>>
  PROVE  \E M, R : Traced(M, R)'
<1> DEFINE t0   == [op |-> "return", of |-> 0, form |-> form]
           x    == It(Here, "ret")
           c    == Append(blocks[contextBlock].code, x)
<1>1. CanStand("return") /\ Top.kind \notin {"append", "for"}
  BY DEF ReturnAllowed, JumpAllowed, StatementAllowed, Open, CanStand
<1>2. /\ frames # << >> /\ contextBlock \in 1 .. Len(blocks) /\ blocks \in Seq(BasicBlock)
      /\ Len(blocks) \in Nat /\ Here \in Nat /\ Prepared(S) /\ Top \in Frame /\ Top.kind # "switch"
      /\ contextFunc = OwnerOf(Top, blocks)
  <2>1. Prepared(S)
    BY <1>1, PreparedIs
  <2> QED
    BY <2>1, Context DEF Prepared
<1>3. src' = Append(src, t0) /\ t0 \in Token
  BY DEF Put, Token, Ops
<1>6. PICK M, R : With(L, S, M, R, contextBlock, Ended, << >>, << >>, 0)
  BY <1>2, WithExists
<1>7. Edits(blocks, blocks', contextBlock, c, t)
  <2>1. x \in Item /\ t \in Term
    BY <1>2, TermTypes, HereItems
  <2> HIDE DEF x
  <2> QED
    BY <1>2, <2>1, EndIs DEF x
<1>8. Makes(blocks, blocks', contextBlock, c, t, << >>)
  <2> HIDE DEF c
  <2> QED
    BY <1>2, <1>7, EditsMakes
<1>9. Good(M, src', blocks'[contextBlock], L[contextBlock], Ended)
  <2>1. Extends(src', src) /\ \A A, T : Solves(A, T, src') => Says(A, T, t0, Here, CasesBefore(src', Here))
    BY <1>3, Speaks
  <2>2. \A A, T : Solves(A, T, src') => A[<<Here, "at">>] = {x}
    BY <2>1 DEF Says
  <2>3. x \in Item
    BY <1>2, HereItems
  <2>4. Holds(src', blocks'[contextBlock], L[contextBlock], x)
    <3> HIDE DEF x
    <3> QED
      BY <1>1, <1>8, <2>1, <2>2, <2>3, Emitted
  <2>5. blocks'[contextBlock].term = t
    BY <1>7 DEF Edits
  <2>6. \A A : Flow(A, x) = << >>
    BY FlowOf
  <2> HIDE DEF x
  <2> QED
    BY <2>4, <2>5, <2>6, EndsHere
<1>10. Top.kind \in {"if", "func"} /\ (Top.kind = "func" => funcs[Top.fn].results > 0)
       /\ t0.op \in {"break", "continue", "return"}
  BY <1>1, <1>2, FrameKinds DEF OwnerOf
<1> HIDE DEF t0, c
<1>11. Traced(M, R)'
  BY <1>2, <1>3, <1>6, <1>8, <1>9, <1>10, JumpTraced
<1> QED
  BY <1>11

LEMMA ReturnsTraced ==
  ASSUME Known, TypeOK', Extra = {}, status' # "failed", NEW L, NEW S, Traced(L, S),
         ReturnValues \/ NakedReturn
  PROVE  \E M, R : Traced(M, R)'
<1>1. CASE ReturnValues
  <2> DEFINE t == IF funcs[contextFunc].results = 1 THEN RetVal ELSE RetVoid
  <2>1. /\ ReturnAllowed("return") /\ funcs[contextFunc].results > 0
        /\ Put("return", 0, "values") /\ UNCHANGED <<funcs, frames, contextCondAfter, contextBlock>>
        /\ blocks' = Terminate(Emit(blocks, contextBlock, It(Here, "ret")), contextBlock, t)
    BY <1>1 DEF ReturnValues, stacks, It
  <2>2. t \in {RetVal, RetVoid} /\ "values" \in Forms
    BY DEF Forms
  <2> HIDE DEF t
  <2> QED
    BY <2>1, <2>2, ReturnTraced
<1>2. CASE NakedReturn
  <2>1. /\ ReturnAllowed("return") /\ funcs[contextFunc].results # 0
        /\ Put("return", 0, "naked") /\ UNCHANGED <<funcs, frames, contextCondAfter, contextBlock>>
        /\ blocks' = Terminate(Emit(blocks, contextBlock, It(Here, "ret")), contextBlock, NakedTerm)
    BY <1>2 DEF NakedReturn, stacks, It
  <2>2. NakedTerm \in {RetVal, RetVoid} /\ "naked" \in Forms
    BY DEF Forms, NakedTerm
  <2>3. funcs[contextFunc].results > 0
    <3>1. frames # << >>
      BY <2>1 DEF ReturnAllowed, JumpAllowed, StatementAllowed, CanStand
    <3>2. contextFunc \in 1 .. Len(funcs)
      BY <3>1, FuncNow DEF Known
    <3>3. funcs[contextFunc] \in Func
      BY <3>2, ElementOfSeq DEF Known, TypeOK
    <3>4. funcs[contextFunc].results \in Nat
      BY <3>3 DEF Func
    <3> QED
      BY <2>1, <3>4
  <2> QED
    BY <2>1, <2>2, <2>3, ReturnTraced
<1> QED
  BY <1>1, <1>2

-----------------------------------------------------------------------------
(* Statements in the bodies of a switch                                      *)

\* The cases of a switch stay known while another token than a case of it is read.
LEMMA CasesStay ==
  ASSUME NEW f, f.cases \in Seq(Block), f.through \in Seq(BOOLEAN), NEW L, NEW S, NEW M, NEW R, NEW s,
         src \in Seq(Token), NEW t0 \in Token, src' = Append(src, t0),
         CasesTraced(f, s, L, S, src), t0.op # "case",
         Len(f.through) < Len(f.cases) \/ Len(f.through) = 0,
         \A k \in 1 .. Len(f.cases) : M[f.cases[k]] = L[f.cases[k]],
         \A k \in 1 .. Len(f.through) : R[f.cases[k]] = S[f.cases[k]]
  PROVE  CasesTraced(f, s, M, R, src')
<1>1. /\ Len(src) \in Nat /\ Here \in 1 .. Len(src') /\ src'[Here] = t0
      /\ \A q \in 1 .. Len(src) : src'[q] = src[q] /\ q \in 1 .. Len(src')
      /\ \A q \in 1 .. Len(src') : q \in 1 .. Len(src) \/ q = Here
  BY PutIs
<1>2. CaseTokens(f.at, src') = CaseTokens(f.at, src)
  BY <1>1 DEF CaseTokens
<1>3. Len(f.cases) \in Nat /\ Len(f.through) \in Nat
  BY LenProperties
<1>4. ASSUME NEW k \in 1 .. Len(f.through) PROVE CaseEnds(f, k, s, R, src')
  <2>1. k < Len(f.cases)
    BY <1>3
  <2>2. CaseEnds(f, k, s, S, src)
    BY DEF CasesTraced
  <2>3. PICK e \in 1 .. Len(src) :
          /\ S[f.cases[k]] = OpenAt(<<e, "at">>) /\ src[e].of = f.at
          /\ IF f.through[k] THEN src[e].op = "fallthrough" /\ s[k + 1] = e + 1
                             ELSE src[e].op = "endcase"
    BY <2>1, <2>2 DEF CaseEnds
  <2>4. e \in 1 .. Len(src') /\ src'[e] = src[e] /\ R[f.cases[k]] = OpenAt(<<e, "at">>)
    BY <1>1, <2>3
  <2> QED
    BY <2>1, <2>3, <2>4 DEF CaseEnds
<1> QED
  BY <1>2, <1>4 DEF CasesTraced

\* What is known of the blocks of the innermost call, if it is a switch.
LEMMA SwitchIn ==
  ASSUME Known, frames # << >>, Top.kind = "switch"
  PROVE  /\ Top \in SwitchFrame /\ Top.cases \in Seq(Block) /\ Top.through \in Seq(BOOLEAN)
         /\ Top.after \in 1 .. Len(blocks) /\ Top.dflt \in 1 .. Len(blocks)
         /\ Top.pre \in 1 .. Len(blocks)
         /\ \A k \in 1 .. Len(Top.cases) : Top.cases[k] \in 1 .. Len(blocks)
         /\ Len(Top.cases) \in Nat /\ Len(Top.through) \in Nat
<1>1. Top \in SwitchFrame
  BY Context, FrameKinds DEF Known
<1>2. FrameOwned(Top, OwnerAt(Len(frames) - 1, frames, blocks), blocks, Len(funcs))
  BY Context DEF Known
<1>3. Top.after \in 1 .. Len(blocks) /\ Top.dflt \in 1 .. Len(blocks) /\ Top.pre \in 1 .. Len(blocks)
  BY <1>2 DEF FrameOwned, In
<1>4. \A k \in 1 .. Len(Top.cases) : Top.cases[k] \in 1 .. Len(blocks)
  BY DEF Known, CallsRight, SwitchAt, In
<1>5. Top.cases \in Seq(Block) /\ Top.through \in Seq(BOOLEAN)
  BY <1>1 DEF SwitchFrame
<1> QED
  BY <1>1, <1>3, <1>4, <1>5, LenProperties

\* A statement in a body of a switch.
LEMMA SwitchStays ==
  ASSUME Known, NEW L, NEW S, Traced(L, S), frames # << >>,
         Top.kind = "switch" => Top.open # "none", S[contextBlock] = OpenAt(<<Here, "at">>),
         NEW t0 \in Token, src' = Append(src, t0), t0.op # "case",
         NEW M, NEW R, NEW pl, With(L, S, M, R, contextBlock, OpenAt(pl), << >>, << >>, 0)
  PROVE  SwitchTraced(Top, contextBlock, M, R, src')
<1> SUFFICES ASSUME Top.kind = "switch" PROVE SwitchTraced(Top, contextBlock, M, R, src')
  BY DEF SwitchTraced
<1>1. SwitchTraced(Top, contextBlock, L, S, src)
  BY DEF Traced
<1>2. /\ Top.cases \in Seq(Block) /\ Top.through \in Seq(BOOLEAN)
      /\ Top.after \in 1 .. Len(blocks) /\ Top.dflt \in 1 .. Len(blocks) /\ Top.pre \in 1 .. Len(blocks)
      /\ \A k \in 1 .. Len(Top.cases) : Top.cases[k] \in 1 .. Len(blocks)
      /\ Len(Top.cases) \in Nat /\ Len(Top.through) \in Nat /\ Top.open \in {"default", "case"}
  BY SwitchIn DEF SwitchFrame
<1>3. \A b \in 1 .. Len(blocks) : /\ M[b] = L[b]
                                  /\ b # contextBlock => R[b] = S[b]
  BY DEF With
<1>4. /\ Top.after # contextBlock /\ Top.pre # contextBlock
      /\ Top.open # "default" => Top.dflt # contextBlock
  BY <1>1, StatesDiffer DEF SwitchTraced, MadeFor
<1>5. Len(Top.through) < Len(Top.cases) \/ Len(Top.through) = 0
  BY <1>1, <1>2 DEF SwitchTraced
<1>6. PICK s : CasesTraced(Top, s, L, S, src)
  BY <1>1 DEF SwitchTraced
<1>7. \A k \in 1 .. Len(Top.through) : k \in 1 .. Len(Top.cases)
  BY <1>2, <1>5
<1>8. \A k \in 1 .. Len(Top.through) : Top.cases[k] # contextBlock
  <2> TAKE k \in 1 .. Len(Top.through)
  <2>1. CaseEnds(Top, k, s, S, src)
    BY <1>6 DEF CasesTraced
  <2>2. PICK e \in 1 .. Len(src) : S[Top.cases[k]] = OpenAt(<<e, "at">>)
    BY <2>1 DEF CaseEnds
  <2>3. <<e, "at">> # <<Here, "at">>
    <3>1. Len(src) \in Nat
      BY LenProperties DEF Known, TypeOK
    <3>2. e # Here
      BY <3>1 DEF Here
    <3> QED
      BY <3>2
  <2>4. OpenAt(<<e, "at">>) # OpenAt(<<Here, "at">>)
    BY <2>3, StatesDiffer, Zenon
  <2> QED
    BY <2>2, <2>4
<1>9. CasesTraced(Top, s, M, R, src')
  <2>1. src \in Seq(Token)
    BY DEF Known, TypeOK
  <2> QED
    BY <1>2, <1>3, <1>5, <1>6, <1>7, <1>8, <2>1, CasesStay
<1>10. MadeFor(M, R, Top.after, <<Top.at, "after">>) /\ M[Top.dflt] = <<Top.at, "dflt">>
       /\ (Top.open # "default" => R[Top.dflt] = Ended) /\ R[Top.pre] = Choosing(Top.at)
  BY <1>1, <1>2, <1>3, <1>4 DEF SwitchTraced, MadeFor
<1> QED
  BY <1>1, <1>9, <1>10 DEF SwitchTraced

\* Straight-line code.
LEMMA StmtTraced ==
  ASSUME Known, TypeOK', Extra = {}, NEW L, NEW S, Traced(L, S), Stmt
  PROVE  \E M, R : Traced(M, R)'
<1> DEFINE t0   == [op |-> "stmt", of |-> 0, form |-> "plain"]
           x    == It(Here, "stmt")
           t    == blocks[contextBlock].term
           c    == Append(blocks[contextBlock].code, x)
           next == <<Here + 1, "at">>
<1>1. /\ CanStand("stmt") /\ Top.kind # "append" /\ src' = Append(src, t0) /\ t0 \in Token
      /\ blocks' = Emit(blocks, contextBlock, x)
      /\ UNCHANGED <<funcs, frames, contextCondAfter, contextBlock>>
  BY DEF Stmt, StatementAllowed, CanStand, Open, Put, stacks, Token, Ops, Forms, It
<1>2. /\ frames # << >> /\ contextBlock \in 1 .. Len(blocks) /\ S[contextBlock] = OpenAt(<<Here, "at">>)
      /\ MayJump(t, L[contextBlock], contextCondAfter, Len(contextCondAfter))
  BY <1>1, Stands
<1>3. Top.kind = "switch" => Top.open # "none" /\ t = NoTerm
  BY <1>1, Stands
<1>4. Here \in Nat /\ Len(blocks) \in Nat /\ blocks \in Seq(BasicBlock) /\ frames \in Seq(Frame)
  BY <1>1, Ready
<1>5. x \in Item
  BY <1>4, HereItems
<1>6. PICK M, R : With(L, S, M, R, contextBlock, OpenAt(next), << >>, << >>, 0)
  BY <1>2, <1>4, WithExists
<1>7. Edits(blocks, blocks', contextBlock, c, t)
  <2> HIDE DEF x
  <2> QED
    BY <1>1, <1>2, <1>4, <1>5, EmitIs
<1>8. Makes(blocks, blocks', contextBlock, c, t, << >>)
  <2> HIDE DEF c, t
  <2> QED
    BY <1>4, <1>7, EditsMakes
<1>9. /\ Extends(src', src)
      /\ \A A, T : Solves(A, T, src') => A[<<Here, "at">>] = {x}
  <2>1. Extends(src', src) /\ \A A, T : Solves(A, T, src') => Says(A, T, t0, Here, CasesBefore(src', Here))
    BY <1>1, Speaks
  <2> QED
    BY <2>1 DEF Says
<1>10. Good(M, src', blocks'[contextBlock], L[contextBlock], OpenAt(next))
  <2>1. Holds(src', blocks'[contextBlock], L[contextBlock], x)
    <3> HIDE DEF x
    <3> QED
      BY <1>1, <1>5, <1>8, <1>9, Emitted
  <2>2. x.tag \notin Decisions /\ \A A : Flow(A, x) = <<A[next]>>
    BY FlowOf DEF It, Decisions
  <2> HIDE DEF x, next
  <2> QED
    BY <2>1, <2>2, HoldsOpen
<1>11. Writes(L, S, M, R, contextBlock, c, t, << >>, OpenAt(next), << >>, << >>)
  <2>1. Len(<< >>) = 0 /\ 1 .. 0 = {}
    OBVIOUS
  <2>2. Back(contextBlock, frames', contextBlock')
    <3>1. frames' = frames /\ contextBlock' = contextBlock
      BY <1>1
    <3>2. Back(contextBlock, frames, contextBlock)
      BY <1>2, <1>4, BackNow
    <3> QED
      BY <3>1, <3>2
  <2> HIDE DEF t, c, next
  <2> QED
    BY <1>6, <1>8, <1>10, <2>1, <2>2 DEF Writes
<1>12. t0.op = "stmt"
  OBVIOUS
<1>13. blocks'[contextBlock].term = t /\ M[contextBlock] = L[contextBlock]
       /\ R[contextBlock] = OpenAt(next)
  BY <1>2, <1>6, <1>7 DEF Edits, With
<1>14. Current(M, R)'
  <2>1. MayJump(blocks'[contextBlock'].term, M[contextBlock'], contextCondAfter', Len(contextCondAfter'))
    BY <1>1, <1>2, <1>13
  <2>2. Last(frames').kind = "switch" => blocks'[contextBlock'].term = NoTerm
    BY <1>1, <1>3, <1>13 DEF Top
  <2>3. R[contextBlock'] = OpenAt(<<Here + 1, "at">>)
    BY <1>1, <1>13
  <2> HIDE DEF t0
  <2> QED
    BY <1>1, <1>12, <2>1, <2>2, <2>3, CurrentOpen
<1>15. SwitchTraced(Top, contextBlock', M, R, src')
  <2>1. SwitchTraced(Top, contextBlock, M, R, src')
    <3> HIDE DEF t0
    <3> QED
      BY <1>1, <1>2, <1>3, <1>6, <1>12, SwitchStays
  <2> QED
    BY <1>1, <2>1
<1> HIDE DEF t0, t, c, next
<1>16. Traced(M, R)'
  BY <1>1, <1>2, <1>9, <1>11, <1>14, <1>15, StraightMakes
<1> QED
  BY <1>16

-----------------------------------------------------------------------------
(* Calls that are opened                                                     *)

\* A call other than a function literal is opened.
LEMMA PushMakes ==
  ASSUME Known, TypeOK', NEW L, NEW S, Traced(L, S), Prepared(S), Extends(src', src),
         NEW f \in Frame, f.kind # "func", frames' = Append(frames, f), UNCHANGED funcs,
         \/ contextCondAfter' = contextCondAfter
         \/ \E b \in Block : contextCondAfter' = Append(contextCondAfter, b),
         NEW M, NEW R, NEW c, NEW t, NEW made, NEW st, NEW ls, NEW ss,
         Writes(L, S, M, R, contextBlock, c, t, made, st, ls, ss),
         Remembers(f) = contextBlock \/ (st = Ended /\ Top.kind # "append"),
         FrameTraced(f, contextBlock', M, R, blocks', contextCondAfter'),
         SwitchTraced(f, contextBlock', M, R, src'), Current(M, R)'
  PROVE  Traced(M, R)'
<1>1. /\ frames # << >> /\ contextBlock \in 1 .. Len(blocks) /\ S[contextBlock] = OpenAt(<<Here, "at">>)
      /\ Len(blocks) \in Nat /\ frames \in Seq(Frame)
  BY DEF Prepared
<1>2. PICK b : b = contextBlock
  OBVIOUS
<1>3. BlocksNext(L, S, M, R, {b}) /\ R[b] = st
  <2>1. Writes(L, S, M, R, b, c, t, made, st, ls, ss)
    BY <1>2
  <2> QED
    BY <1>1, <1>2, <2>1, MakesNext
<1>4. Free(S, {b})
  BY <1>1, <1>2 DEF Free
<1>5. EntriesTraced(M)'
  <2>1. Len(blocks') \in Nat
    BY LenProperties DEF TypeOK
  <2> QED
    BY <1>1, <1>3, <2>1, EntriesSame DEF Traced
<1>6. MainWaits(frames', funcs') => MainWaits(frames, funcs)
  <2>1. \A i \in 1 .. Len(frames) : i \in 1 .. Len(frames') /\ frames'[i] = frames[i]
    <3>1. Len(frames) \in Nat /\ Len(frames') = Len(frames) + 1
          /\ \A i \in 1 .. Len(frames) : frames'[i] = frames[i]
      BY <1>1, AppendType, LenProperties
    <3> QED
      BY <3>1
  <2> QED
    BY <2>1 DEF MainWaits
<1>7. MainWaits(frames', funcs') => 2 \notin {b}
  BY <1>1, <1>4, <1>6, MainSpared, FreeOfTop
<1>8. \A k \in 1 .. Len(funcs) : funcs'[k].kind = funcs[k].kind
  OBVIOUS
<1>9. Remembers(f) = contextBlock \/ (contextBlock \in {b} /\ R[contextBlock] = Ended /\ Top.kind # "append")
  BY <1>2, <1>3
<1> QED
  BY <1>3, <1>4, <1>5, <1>6, <1>7, <1>8, <1>9, PushTraced

-----------------------------------------------------------------------------
(* Append                                                                    *)

\* Blocks and a terminator, without an instruction.
LEMMA MakesOnly ==
  ASSUME NEW bs \in Seq(BasicBlock), NEW b \in 1 .. Len(bs), NEW made \in Seq(BasicBlock), NEW t \in Term
  PROVE  Makes(bs, Terminate(bs \o made, b, t), b, bs[b].code, t, made)
<1> DEFINE c  == bs[b].code
           u  == bs[b].term
           ds == bs \o made
<1>1. Edits(bs, bs, b, c, u)
  BY DEF Edits
<1> HIDE DEF c, u
<1>2. Makes(bs, ds, b, c, u, made)
  BY <1>1, ConcatIs
<1> HIDE DEF ds
<1>3. Makes(bs, Terminate(ds, b, t), b, c, t, made)
  BY <1>2, MakesEnd
<1> QED
  BY <1>3 DEF ds, c

\* A call is opened: the innermost call goes on in the current block.
LEMMA BackOpened ==
  ASSUME NEW fs \in Seq(Frame), NEW f \in Frame, NEW cb
  PROVE  Back(cb, Append(fs, f), cb) /\ Last(Append(fs, f)) = f /\ Append(fs, f) # << >>
<1>1. Append(fs, f) \in Seq(Frame) /\ Append(fs, f) # << >> /\ Last(Append(fs, f)) = f
  BY AppendType, AppendProperties, PushReturning DEF Pushes
<1> QED
  BY <1>1, BackNow

\* The blocks of an append.
LEMMA AppendEnds ==
  ASSUME NEW sr, NEW M, NEW h, NEW b1 \in DOMAIN M, NEW b2 \in DOMAIN M, NEW b4 \in DOMAIN M,
         M[b2] = <<h, "add">>, M[b4] = <<h, "bytes">>,
         \A A, T : Solves(A, T, sr) =>
           /\ Passes(A, T, <<h, "copy">>, <<h, "bytes">>) /\ Passes(A, T, <<h, "copy">>, <<h, "add">>)
           /\ Passes(A, T, <<h, "bytes">>, <<h, "add">>) /\ Same(A, T, <<h, "add">>, <<h + 1, "at">>),
         NEW m1, m1.code = << >>, m1.term = Br(b4), NEW m2, m2.code = << >>,
         NEW m3, m3.code = << >>, m3.term = Br(b2), NEW m4, m4.code = << >>, m4.term = CondBr(b4, b2)
  PROVE  /\ Good(M, sr, m1, <<h, "copy">>, Ended) /\ Good(M, sr, m2, <<h, "add">>, OpenAt(<<h + 1, "at">>))
         /\ Good(M, sr, m3, <<h, "copy">>, Ended) /\ Good(M, sr, m4, <<h, "bytes">>, Ended)
<1>1. Good(M, sr, m1, <<h, "copy">>, Ended)
  BY EmptyEnds
<1>2. Good(M, sr, m2, <<h, "add">>, OpenAt(<<h + 1, "at">>))
  BY EmptyOpen
<1>3. Good(M, sr, m3, <<h, "copy">>, Ended)
  BY EmptyEnds
<1>4. Good(M, sr, m4, <<h, "bytes">>, Ended)
  <2> DEFINE to == m4.term.to
  <2>1. /\ m4.term.kind # "none" /\ DOMAIN to = {1, 2} /\ to[1] = b4 /\ to[2] = b2
    BY Targets
  <2> HIDE DEF to
  <2>2. \A i \in DOMAIN to : to[i] \in DOMAIN M
    BY <2>1
  <2>3. \A A, T : Solves(A, T, sr) => /\ \A i \in DOMAIN to : A[M[to[i]]] = A[<<h, "bytes">>]
                                      /\ \E i \in DOMAIN to : <<<<h, "bytes">>, M[to[i]]>> \in T
    <3> TAKE A, T
    <3> HAVE Solves(A, T, sr)
    <3>1. A[<<h, "bytes">>] = A[<<h, "add">>] /\ <<<<h, "bytes">>, <<h, "add">>>> \in T
      BY DEF Passes
    <3>2. \A i \in DOMAIN to : A[M[to[i]]] = A[<<h, "bytes">>]
      BY <2>1, <3>1
    <3>3. 2 \in DOMAIN to /\ <<<<h, "bytes">>, M[to[2]]>> \in T
      BY <2>1, <3>1
    <3> QED
      BY <3>2, <3>3
  <2> QED
    BY <2>1, <2>2, <2>3, EmptyEnded DEF to
<1> QED
  BY <1>1, <1>2, <1>3, <1>4

\* x = append(s, ...), before its item.
LEMMA BeginAppendTraced ==
  ASSUME Known, TypeOK', Extra = {}, NEW L, NEW S, Traced(L, S), NEW self \in BOOLEAN, BeginAppend(self)
  PROVE  \E M, R : Traced(M, R)'
<1> DEFINE t0   == [op |-> "append", of |-> 0, form |-> IF self THEN "self" ELSE "copy"]
           f    == blocks[contextBlock].fn
           m1   == BlockOf(f, << >>, Br(Fresh(4)))
           m2   == BlockOf(f, << >>, Unreachable)
           m3   == BlockOf(f, << >>, Br(Fresh(2)))
           m4   == BlockOf(f, << >>, CondBr(Fresh(4), Fresh(2)))
           made == <<m1, m2, m3, m4>>
           t    == IF self THEN CondBr(Fresh(3), Fresh(1)) ELSE Br(Fresh(1))
           c    == blocks[contextBlock].code
           ls   == <<<<Here, "copy">>, <<Here, "add">>, <<Here, "copy">>, <<Here, "bytes">>>>
           ss   == <<Ended, OpenAt(<<Here + 1, "at">>), Ended, Ended>>
           g    == [kind |-> "append", at |-> Here, entry |-> Heights, add |-> Fresh(2)]
<1>0. CanStand("append") /\ Top.kind # "append"
  BY DEF BeginAppend, StatementAllowed, Open, CanStand
<1>1. /\ src' = Append(src, t0) /\ t0 \in Token
      /\ blocks' = Terminate(blocks \o made, contextBlock, t)
      /\ contextBlock' = Fresh(2) /\ frames' = Append(frames, g)
      /\ UNCHANGED <<funcs, contextCondAfter>>
  <2>1. src' = Append(src, t0) /\ t0 \in Token
    BY DEF BeginAppend, Put, Token, Ops, Forms
  <2>2. blocks' = Terminate(blocks \o made, contextBlock, t)
    BY DEF BeginAppend
  <2>3. contextBlock' = Fresh(2) /\ frames' = Append(frames, g) /\ UNCHANGED <<funcs, contextCondAfter>>
    BY DEF BeginAppend, stacks
  <2> QED
    BY <2>1, <2>2, <2>3
<1>2. Prepared(S)
  BY <1>0, PreparedIs
<1>3. /\ contextBlock \in 1 .. Len(blocks) /\ S[contextBlock] = OpenAt(<<Here, "at">>)
      /\ f \in Nat \ {0} /\ Here \in Nat /\ Len(blocks) \in Nat /\ blocks \in Seq(BasicBlock)
      /\ frames \in Seq(Frame) /\ TypeOK /\ OwnedNow
  BY <1>2 DEF Prepared
<1>4. Fresh(1) \in Block /\ Fresh(2) \in Block /\ Fresh(3) \in Block /\ Fresh(4) \in Block
  BY <1>3, FreshBlocks
<1>5. g \in Frame /\ g.kind = "append" /\ g.add = Fresh(2)
  BY <1>3, <1>4, Numbers DEF Frame, AppendFrame
<1> HIDE DEF f, g
<1>6. /\ m1 \in BasicBlock /\ m2 \in BasicBlock /\ m3 \in BasicBlock /\ m4 \in BasicBlock /\ t \in Term
  <2>1. /\ << >> \in Seq(Item) /\ Br(Fresh(4)) \in Term /\ Br(Fresh(2)) \in Term /\ Unreachable \in Term
        /\ CondBr(Fresh(4), Fresh(2)) \in Term /\ t \in Term
    BY <1>4, TermTypes
  <2>2. m1 \in BasicBlock /\ m2 \in BasicBlock
    BY <1>3, <2>1, BlockTypes
  <2>3. m3 \in BasicBlock /\ m4 \in BasicBlock
    BY <1>3, <2>1, BlockTypes
  <2> QED
    BY <2>1, <2>2, <2>3
<1>7. /\ m1.code = << >> /\ m1.term = Br(Fresh(4)) /\ m2.code = << >> /\ m2.term = Unreachable
      /\ m3.code = << >> /\ m3.term = Br(Fresh(2)) /\ m4.code = << >> /\ m4.term = CondBr(Fresh(4), Fresh(2))
  BY DEF BlockOf
<1> HIDE DEF m1, m2, m3, m4
<1>8. Makes(blocks, blocks', contextBlock, c, t, made) /\ Len(made) = 4
  <2>1. made \in Seq(BasicBlock) /\ Len(made) = 4
    BY <1>6
  <2> HIDE DEF made, t
  <2> QED
    BY <1>1, <1>3, <1>6, <2>1, MakesOnly
<1>9. PICK M, R : With(L, S, M, R, contextBlock, Ended, ls, ss, 4)
  BY <1>3, WithExists
<1>10. /\ Extends(src', src)
       /\ \A A, T : Solves(A, T, src') =>
            /\ Passes(A, T, <<Here, "at">>, <<Here, "copy">>)
            /\ Passes(A, T, <<Here, "copy">>, <<Here, "bytes">>)
            /\ Passes(A, T, <<Here, "copy">>, <<Here, "add">>)
            /\ Passes(A, T, <<Here, "bytes">>, <<Here, "add">>)
            /\ Same(A, T, <<Here, "add">>, <<Here + 1, "at">>)
  <2>1. Extends(src', src) /\ \A A, T : Solves(A, T, src') => Says(A, T, t0, Here, CasesBefore(src', Here))
    BY <1>1, Speaks
  <2> QED
    BY <2>1 DEF Says
<1>11. /\ Fresh(1) \in DOMAIN M /\ Fresh(2) \in DOMAIN M /\ Fresh(3) \in DOMAIN M /\ Fresh(4) \in DOMAIN M
       /\ M[Fresh(1)] = <<Here, "copy">> /\ M[Fresh(2)] = <<Here, "add">>
       /\ M[Fresh(3)] = <<Here, "copy">> /\ M[Fresh(4)] = <<Here, "bytes">>
  BY <1>3, <1>9, WithMade
<1>12. Good(M, src', blocks'[contextBlock], L[contextBlock], Ended)
  <2>1. Good(L, src, blocks[contextBlock], L[contextBlock], OpenAt(<<Here, "at">>))
    BY <1>0, Stands
  <2>2. blocks'[contextBlock].code = c /\ blocks'[contextBlock].term = t
    BY <1>8 DEF Makes
  <2>3. CASE self
    <3>1. blocks'[contextBlock].term = CondBr(Fresh(3), Fresh(1))
      BY <2>2, <2>3
    <3> QED
      BY <1>10, <1>11, <2>1, <2>2, <3>1, OpenEnds
  <2>4. CASE ~ self
    <3>1. blocks'[contextBlock].term = Br(Fresh(1))
      BY <2>2, <2>4
    <3> QED
      BY <1>10, <1>11, <2>1, <2>2, <3>1, OpenEnds
  <2> QED
    BY <2>3, <2>4
<1>13. /\ Good(M, src', m1, <<Here, "copy">>, Ended) /\ Good(M, src', m3, <<Here, "copy">>, Ended)
       /\ Good(M, src', m2, <<Here, "add">>, OpenAt(<<Here + 1, "at">>))
       /\ Good(M, src', m4, <<Here, "bytes">>, Ended)
  BY <1>7, <1>10, <1>11, AppendEnds
<1>14. Back(Fresh(2), frames', contextBlock') /\ Last(frames') = g /\ frames' # << >>
  BY <1>1, <1>3, <1>5, BackOpened
<1>15. Writes(L, S, M, R, contextBlock, c, t, made, Ended, ls, ss)
  <2>1. \A i \in 1 .. 4 : /\ Good(M, src', made[i], ls[i], ss[i]) /\ ls[i] \in Places
                          /\ ss[i] = Ended \/ Back(Fresh(i), frames', contextBlock')
    <3>1. /\ Good(M, src', made[1], ls[1], ss[1]) /\ ss[1] = Ended
          /\ Good(M, src', made[2], ls[2], ss[2])
          /\ Good(M, src', made[3], ls[3], ss[3]) /\ ss[3] = Ended
          /\ Good(M, src', made[4], ls[4], ss[4]) /\ ss[4] = Ended
      BY <1>13
    <3>2. ls[1] \in Places /\ ls[2] \in Places /\ ls[3] \in Places /\ ls[4] \in Places
      BY <1>3 DEF Places, Marks
    <3> HIDE DEF made, ls, ss
    <3> QED
      BY <1>14, <3>1, <3>2
  <2> HIDE DEF made, ls, ss, t, c
  <2> QED
    BY <1>8, <1>9, <1>12, <2>1 DEF Writes
<1>16. /\ ss[2] = OpenAt(<<Here + 1, "at">>) /\ made[2].term = Unreachable /\ ls[2][2] = "add"
       /\ 2 \in 1 .. Len(made) /\ t0.op = "append" /\ Last(frames').kind # "switch"
  BY <1>5, <1>7, <1>14
<1> HIDE DEF made, ls, ss, t, c, t0
<1>17. Current(M, R)'
  BY <1>1, <1>15, <1>16, GoesOn
<1>18. SwitchTraced(g, contextBlock', M, R, src')
  BY <1>5 DEF SwitchTraced
<1>19. FrameTraced(g, contextBlock', M, R, blocks', contextCondAfter')
  BY <1>1, <1>5 DEF FrameTraced, IfTraced, ForTraced, FuncTraced, AppendTraced
<1>20. Traced(M, R)'
  BY <1>0, <1>1, <1>2, <1>5, <1>10, <1>15, <1>17, <1>18, <1>19, PushMakes
<1> QED
  BY <1>20

-----------------------------------------------------------------------------
(* Calls that are closed                                                     *)

\* What the end of a call, or of one of its bodies, finds.
Closing(L, S) ==
  /\ TypeOK /\ OwnedNow /\ StacksRight /\ CallsRight /\ frames # << >>
  /\ frames \in Seq(Frame) /\ blocks \in Seq(BasicBlock) /\ Len(blocks) \in Nat /\ Here \in Nat
  /\ Top \in Frame /\ Top = frames[Len(frames)] /\ Len(frames) \in 1 .. Len(frames)
  /\ contextBlock \in 1 .. Len(blocks) /\ blocks[contextBlock].fn \in Nat \ {0}
  /\ FrameOwned(Top, OwnerAt(Len(frames) - 1, frames, blocks), blocks, Len(funcs))
  /\ Top.at \in 1 .. Len(src) /\ Top.at \in Nat
  /\ FrameTraced(Top, contextBlock, L, S, blocks, contextCondAfter)
  /\ Good(L, src, blocks[contextBlock], L[contextBlock], S[contextBlock])

LEMMA ClosingIs ==
  ASSUME Known, NEW L, NEW S, Traced(L, S), frames # << >>
  PROVE  Closing(L, S)
<1>1. TypeOK /\ OwnedNow /\ StacksRight /\ CallsRight
  BY DEF Known
<1>2. frames \in Seq(Frame) /\ blocks \in Seq(BasicBlock) /\ Len(blocks) \in Nat /\ Here \in Nat
  BY <1>1, Numbers DEF TypeOK
<1>3. /\ Top \in Frame /\ Top = frames[Len(frames)] /\ contextBlock \in 1 .. Len(blocks)
      /\ FrameOwned(Top, OwnerAt(Len(frames) - 1, frames, blocks), blocks, Len(funcs))
  BY <1>1, Context
<1>4. Len(frames) \in 1 .. Len(frames) /\ blocks[contextBlock].fn \in Nat \ {0}
  BY <1>1, Context
<1>5. Top.at \in 1 .. Len(src) /\ Top.at \in Nat
  <2>1. Top.at \in 1 .. Len(src)
    BY <1>3, <1>4 DEF Known, TokensKnown, Placed
  <2>2. Len(src) \in Nat
    BY <1>1, LenProperties DEF TypeOK
  <2> QED
    BY <2>1, <2>2
<1>6. FrameTraced(Top, contextBlock, L, S, blocks, contextCondAfter)
  BY <1>3, <1>4 DEF Traced, FramesTraced, Returning
<1>7. Good(L, src, blocks[contextBlock], L[contextBlock], S[contextBlock])
  BY <1>3 DEF Traced, BlocksTraced
<1> QED
  BY <1>1, <1>2, <1>3, <1>4, <1>5, <1>6, <1>7 DEF Closing

\* A call other than a function's is closed.
LEMMA PopMakes ==
  ASSUME Known, TypeOK', NEW L, NEW S, Traced(L, S), Closing(L, S), Top.kind # "func",
         frames' = Front(frames), Extends(src', src), UNCHANGED funcs,
         \/ contextCondAfter' = contextCondAfter
         \/ Top.kind = "if" /\ contextCondAfter' = Front(contextCondAfter),
         NEW M, NEW R, NEW W, BlocksNext(L, S, M, R, W), OfTop(L, S, W),
         contextBlock \in W \/ S[contextBlock] = Ended,
         Top.kind = "switch" => Top.pre \in W /\ R[Top.pre] = Ended,
         Current(M, R)'
  PROVE  Traced(M, R)'
<1>1. frames # << >> /\ Len(blocks) \in Nat /\ frames \in Seq(Frame) /\ Top = Last(frames)
  BY DEF Closing, Top
<1>2. EntriesTraced(M)'
  <2>1. Len(blocks') \in Nat
    BY LenProperties DEF TypeOK
  <2> QED
    BY <1>1, <2>1, EntriesSame DEF Traced
<1>3. MainWaits(frames', funcs') => MainWaits(frames, funcs)
  <2>1. /\ \A i \in 1 .. Len(frames) : i \in 1 .. Len(frames') \/ i = Len(frames)
        /\ \A i \in 1 .. Len(frames') : frames'[i] = frames[i]
        /\ Top = frames[Len(frames)]
    <3>1. Nested(frames)
      BY DEF Known, CallsRight
    <3>2. Pops(frames, frames', contextBlock, contextBlock')
      BY <1>1, <3>1, PopReturning
    <3> QED
      BY <1>1, <3>2 DEF Pops
  <2> QED
    BY <2>1 DEF MainWaits
<1>4. \A k \in 1 .. Len(funcs) : funcs'[k].kind = funcs[k].kind
  OBVIOUS
<1>5. \/ Remembers(Top) = contextBlock'
      \/ /\ Top.kind # "func"
         /\ \/ Remembers(Top) = NoBlock
            \/ R[Remembers(Top)] = Ended /\ Remembers(Top) \in W
  BY DEF Remembers
<1> QED
  BY <1>1, <1>2, <1>3, <1>4, <1>5, PopTraced

\* The item of an append is stored.
LEMMA EndAppendTraced ==
  ASSUME Known, TypeOK', Extra = {}, NEW L, NEW S, Traced(L, S), EndAppend
  PROVE  \E M, R : Traced(M, R)'
<1> DEFINE p    == Top.at
           t0   == [op |-> "endappend", of |-> p, form |-> "plain"]
           x    == It(p, "append")
           t    == blocks[contextBlock].term
           c    == Append(blocks[contextBlock].code, x)
           next == <<Here + 1, "at">>
<1>1. Closing(L, S) /\ Top.kind = "append"
  BY ClosingIs DEF EndAppend, Open
<1>2. /\ frames # << >> /\ contextBlock \in 1 .. Len(blocks) /\ blocks \in Seq(BasicBlock)
      /\ Len(blocks) \in Nat /\ Here \in Nat /\ p \in Nat /\ frames \in Seq(Frame)
      /\ Top.add = contextBlock
  BY <1>1 DEF Closing, FrameTraced, AppendTraced
<1>3. /\ src' = Append(src, t0) /\ t0 \in Token /\ contextBlock' = contextBlock
      /\ blocks' = Emit(blocks, contextBlock, x) /\ frames' = Front(frames)
      /\ UNCHANGED <<funcs, contextCondAfter>>
  <2>1. t0 \in Token
    BY <1>2 DEF Token, Ops, Forms
  <2>2. src' = Append(src, t0) /\ contextBlock' = contextBlock /\ frames' = Front(frames)
        /\ UNCHANGED <<funcs, contextCondAfter>>
    BY <1>2 DEF EndAppend, Put, stacks
  <2>3. blocks' = Emit(blocks, contextBlock, x)
    BY <1>2 DEF EndAppend, It
  <2> QED
    BY <2>1, <2>2, <2>3
<1> HIDE DEF p
<1>4. /\ S[contextBlock] = OpenAt(<<Here, "at">>)
      /\ MayJump(t, L[contextBlock], contextCondAfter, Len(contextCondAfter))
  <2>1. Current(L, S)
    BY <1>2 DEF Traced
  <2> QED
    BY <1>1, <2>1 DEF Current
<1>5. x \in Item
  BY <1>2 DEF It, Item, Tags
<1>6. PICK M, R : With(L, S, M, R, contextBlock, OpenAt(next), << >>, << >>, 0)
  BY <1>2, WithExists
<1>7. Edits(blocks, blocks', contextBlock, c, t)
  <2> HIDE DEF x
  <2> QED
    BY <1>2, <1>3, <1>5, EmitIs
<1>8. Makes(blocks, blocks', contextBlock, c, t, << >>)
  <2> HIDE DEF c, t
  <2> QED
    BY <1>2, <1>7, EditsMakes
<1>9. /\ Extends(src', src)
      /\ \A A, T : Solves(A, T, src') => A[<<Here, "at">>] = {x} /\ A[<<p, "after">>] = A[next]
  <2>1. Extends(src', src) /\ \A A, T : Solves(A, T, src') => Says(A, T, t0, Here, CasesBefore(src', Here))
    BY <1>3, Speaks
  <2>2. \A A, T : Solves(A, T, src') => A[<<Here, "at">>] = {x}
    BY <2>1 DEF Says
  <2>3. \A A, T : Solves(A, T, src') => A[<<p, "after">>] = A[next]
    BY <2>1 DEF Says, Same, Closers
  <2> QED
    BY <2>1, <2>2, <2>3
<1>10. Good(M, src', blocks'[contextBlock], L[contextBlock], OpenAt(next))
  <2> DEFINE k  == blocks[contextBlock]
             k2 == blocks'[contextBlock]
             lab == L[contextBlock]
  <2>1. k.code \in Seq(Item)
    <3>1. k \in BasicBlock
      BY <1>2, ElementOfSeq
    <3> QED
      BY <3>1 DEF BasicBlock
  <2>2. Good(L, src, k, lab, OpenAt(<<Here, "at">>)) /\ k2.code = Append(k.code, x)
    BY <1>1, <1>4, <1>7 DEF Closing, Edits
  <2>3. x.tag \notin Decisions /\ \A A : Flow(A, x) = <<A[<<p, "after">>]>>
    BY FlowOf DEF It, Decisions
  <2> HIDE DEF x, next, k, k2, lab
  <2>4. Holds(src', k2, lab, x)
    BY <1>5, <1>9, <2>1, <2>2, EmitHolds
  <2>5. \A A, T : Solves(A, T, src') => Flow(A, x) = <<A[next]>>
    BY <1>9, <2>3
  <2>6. Good(M, src', k2, lab, OpenAt(next))
    BY <2>3, <2>4, <2>5, HoldsOpen
  <2> QED
    BY <2>6 DEF k2, lab
<1>11. frames' # << >> /\ Last(frames').kind # "switch" /\ Back(contextBlock, frames', contextBlock')
  <2>1. frames' # << >> /\ frames' \in Seq(Frame) /\ Last(frames').kind # "switch"
    BY <1>1, <1>3, Outer DEF Closing
  <2>2. Back(contextBlock', frames', contextBlock')
    BY <2>1, BackNow
  <2> QED
    BY <1>3, <2>1, <2>2
<1>12. Writes(L, S, M, R, contextBlock, c, t, << >>, OpenAt(next), << >>, << >>)
  <2>1. Len(<< >>) = 0 /\ 1 .. 0 = {}
    OBVIOUS
  <2> HIDE DEF t, c, next
  <2> QED
    BY <1>6, <1>8, <1>10, <1>11, <2>1 DEF Writes
<1>13. PICK b : b = contextBlock
  OBVIOUS
<1>14. BlocksNext(L, S, M, R, {b}) /\ R[b] = OpenAt(next)
  <2>1. Writes(L, S, M, R, b, c, t, << >>, OpenAt(next), << >>, << >>)
    BY <1>12, <1>13
  <2> HIDE DEF c, t, next
  <2> QED
    BY <1>2, <1>13, <2>1, MakesNext
<1>15. OfTop(L, S, {b})
  BY <1>4, <1>13 DEF OfTop
<1>16. Current(M, R)'
  <2>1. t0.op = "endappend"
    OBVIOUS
  <2>2. MayJump(blocks'[contextBlock'].term, M[contextBlock'], contextCondAfter', Len(contextCondAfter'))
    <3>1. blocks'[contextBlock].term = t /\ M[contextBlock] = L[contextBlock]
      BY <1>2, <1>6, <1>7 DEF Edits, With
    <3> QED
      BY <1>3, <1>4, <3>1
  <2>3. R[contextBlock'] = OpenAt(<<Here + 1, "at">>)
    BY <1>3, <1>13, <1>14
  <2> HIDE DEF t0
  <2> QED
    BY <1>3, <1>11, <2>1, <2>2, <2>3, CurrentOpen
<1> HIDE DEF t0, t, c, next
<1>17. Traced(M, R)'
  <2>1. contextBlock \in {b} /\ Top.kind \notin {"func", "switch"}
    BY <1>1, <1>13
  <2> QED
    BY <1>1, <1>3, <1>9, <1>14, <1>15, <1>16, <2>1, PopMakes
<1> QED
  BY <1>17

-----------------------------------------------------------------------------
(* If                                                                        *)

\* The condition of an if.
LEMMA BeginIfTraced ==
  ASSUME Known, TypeOK', Extra = {}, NEW L, NEW S, Traced(L, S), NEW hasElse \in BOOLEAN, BeginIf(hasElse)
  PROVE  \E M, R : Traced(M, R)'
<1> DEFINE t0   == [op |-> "if", of |-> 0, form |-> IF hasElse THEN "else" ELSE "plain"]
           x    == It(Here, "if")
           f    == blocks[contextBlock].fn
           m1   == NewBlock(f)
           n    == IF hasElse THEN 3 ELSE 2
           made == IF hasElse THEN <<m1, m1, m1>> ELSE <<m1, m1>>
           fls  == IF hasElse THEN Fresh(3) ELSE Fresh(1)
           t    == CondBr(Fresh(2), fls)
           c    == Append(blocks[contextBlock].code, x)
           ls   == <<<<Here, "after">>, <<Here + 1, "at">>, <<Here, "else">>>>
           ss   == <<New, OpenAt(<<Here + 1, "at">>), New>>
           g    == [kind |-> "if", at |-> Here, entry |-> Heights, hasElse |-> hasElse,
                    arm |-> "true", tru |-> Fresh(2), fls |-> fls, after |-> Fresh(1)]
<1>0. CanStand("if") /\ Top.kind # "append"
  BY DEF BeginIf, StatementAllowed, Open, CanStand
<1>1. /\ src' = Append(src, t0) /\ t0 \in Token
      /\ blocks' = Terminate(Emit(blocks, contextBlock, x) \o made, contextBlock, t)
      /\ contextBlock' = Fresh(2) /\ frames' = Append(frames, g)
      /\ UNCHANGED funcs /\ contextCondAfter' = Append(contextCondAfter, Fresh(1))
  <2>1. src' = Append(src, t0) /\ t0 \in Token
    BY DEF BeginIf, Put, Token, Ops, Forms
  <2>2. blocks' = Terminate(Emit(blocks, contextBlock, x) \o made, contextBlock, t)
    BY DEF BeginIf, It
  <2>3. contextBlock' = Fresh(2) /\ frames' = Append(frames, g)
        /\ UNCHANGED funcs /\ contextCondAfter' = Append(contextCondAfter, Fresh(1))
    BY DEF BeginIf
  <2> QED
    BY <2>1, <2>2, <2>3
<1>2. Prepared(S)
  BY <1>0, PreparedIs
<1>3. /\ contextBlock \in 1 .. Len(blocks) /\ S[contextBlock] = OpenAt(<<Here, "at">>)
      /\ f \in Nat \ {0} /\ Here \in Nat /\ Len(blocks) \in Nat /\ blocks \in Seq(BasicBlock)
      /\ frames \in Seq(Frame) /\ TypeOK /\ OwnedNow
  BY <1>2 DEF Prepared
<1>4. Fresh(1) \in Block /\ Fresh(2) \in Block /\ Fresh(3) \in Block /\ fls \in Block /\ n \in Nat
  <2>1. Fresh(1) \in Block /\ Fresh(2) \in Block /\ Fresh(3) \in Block
    BY <1>3, FreshBlocks
  <2> QED
    BY <2>1
<1>5. x \in Item
  BY <1>3, HereItems
<1>6. /\ g \in Frame /\ g.kind = "if" /\ g.at = Here /\ g.after = Fresh(1) /\ g.hasElse = hasElse
      /\ hasElse => g.fls = Fresh(3)
      /\ Arm(g) = Fresh(2)
  <2> HIDE DEF fls
  <2>1. g \in IfFrame
    BY <1>3, <1>4, Numbers DEF IfFrame
  <2>2. Arm(g) = Fresh(2)
    BY DEF Arm
  <2> QED
    BY <2>1, <2>2 DEF Frame, fls
<1> HIDE DEF f, g
<1>7. m1 \in BasicBlock /\ m1.code = << >> /\ m1.term = NoTerm /\ t \in Term
  <2>1. << >> \in Seq(Item) /\ NoTerm \in Term /\ t \in Term
    BY <1>4, TermTypes
  <2>2. m1 \in BasicBlock
    BY <1>3, <2>1, BlockTypes
  <2> QED
    BY <2>1, <2>2 DEF BlockOf, NewBlock
<1> HIDE DEF m1
<1>8. made \in Seq(BasicBlock) /\ Len(made) = n /\ \A i \in 1 .. n : made[i] = m1
  BY <1>7
<1>9. Makes(blocks, blocks', contextBlock, c, t, made)
  <2> HIDE DEF made, t, x
  <2> QED
    BY <1>1, <1>3, <1>5, <1>7, <1>8, MakesAll
<1>10. PICK M, R : With(L, S, M, R, contextBlock, Ended, ls, ss, n)
  BY <1>3, <1>4, WithExists
<1>11. /\ Extends(src', src)
       /\ \A A, T : Solves(A, T, src') =>
            /\ A[<<Here, "at">>] = {x}
            /\ ~ hasElse => A[<<Here, "else">>] = A[<<Here, "after">>]
  <2>1. Extends(src', src) /\ \A A, T : Solves(A, T, src') => Says(A, T, t0, Here, CasesBefore(src', Here))
    BY <1>1, Speaks
  <2> QED
    BY <2>1 DEF Says, Same
<1>12. /\ Fresh(1) \in DOMAIN M /\ Fresh(2) \in DOMAIN M /\ (hasElse => Fresh(3) \in DOMAIN M)
       /\ M[Fresh(1)] = <<Here, "after">> /\ M[Fresh(2)] = <<Here + 1, "at">>
       /\ hasElse => M[Fresh(3)] = <<Here, "else">> /\ R[Fresh(3)] = New
       /\ R[Fresh(1)] = New
  BY <1>3, <1>10, WithMade
<1>13. Good(M, src', blocks'[contextBlock], L[contextBlock], Ended)
  <2> DEFINE k2 == blocks'[contextBlock]
  <2>1. Holds(src', k2, L[contextBlock], x)
    <3> HIDE DEF x, made, t
    <3> QED
      BY <1>0, <1>5, <1>9, <1>11, Emitted
  <2>2. k2.term = CondBr(Fresh(2), fls) /\ x.tag \in Decisions
    BY <1>9 DEF Makes, It, Decisions
  <2>3. \A A : Flow(A, x) = <<A[<<Here + 1, "at">>], A[<<Here, "else">>]>>
    BY FlowOf
  <2>4. \A A, T : Solves(A, T, src') => Flow(A, x) = <<A[M[Fresh(2)]], A[M[fls]]>>
    BY <1>11, <1>12, <2>3
  <2>5. fls \in DOMAIN M
    BY <1>12
  <2> HIDE DEF k2, x, fls
  <2> QED
    BY <1>12, <2>1, <2>2, <2>4, <2>5, EndsBoth DEF k2
<1>14. \A lab : /\ Good(M, src', m1, lab, New)
                /\ lab = <<Here + 1, "at">> => Good(M, src', m1, lab, OpenAt(<<Here + 1, "at">>))
  <2>1. \A A, T : Same(A, T, <<Here + 1, "at">>, <<Here + 1, "at">>)
    BY DEF Same
  <2>2. Good(M, src', m1, <<Here + 1, "at">>, OpenAt(<<Here + 1, "at">>))
    BY <1>7, <2>1, EmptyOpen
  <2> QED
    BY <1>7, <2>2, MadeNew
<1>15. Writes(L, S, M, R, contextBlock, c, t, made, Ended, ls, ss)
  <2>1. \A i \in 1 .. 3 : Good(M, src', m1, ls[i], ss[i]) /\ ls[i] \in Places
    <3>1. Good(M, src', m1, ls[1], ss[1]) /\ Good(M, src', m1, ls[2], ss[2]) /\ Good(M, src', m1, ls[3], ss[3])
      BY <1>14
    <3>2. ls[1] \in Places /\ ls[2] \in Places /\ ls[3] \in Places
      BY <1>3 DEF Places, Marks
    <3> HIDE DEF ls, ss
    <3> QED
      BY <3>1, <3>2
  <2>2. \A i \in 1 .. n : i \in 1 .. 3
    OBVIOUS
  <2> HIDE DEF made, ls, ss, t, c, n
  <2> QED
    BY <1>4, <1>7, <1>8, <1>9, <1>10, <1>13, <2>1, <2>2 DEF Writes
<1>16. /\ ss[2] = OpenAt(<<Here + 1, "at">>) /\ made[2].term = NoTerm
       /\ 2 \in 1 .. Len(made) /\ t0.op = "if"
  BY <1>7, <1>8
<1>17. FrameTraced(g, contextBlock', M, R, blocks', contextCondAfter')
  <2>1. IfTraced(g, contextBlock', M, R)
    <3> HIDE DEF t0, n, made, fls, t, c, ls, ss, x
    <3>1. M[Arm(g)][2] \in {"at", "else"}
      BY <1>6, <1>12
    <3> QED
      BY <1>1, <1>6, <1>12, <3>1 DEF IfTraced, MadeFor
  <2> QED
    BY <1>6, <2>1 DEF FrameTraced, ForTraced, FuncTraced, AppendTraced
<1> HIDE DEF made, ls, ss, t, c, t0, n, fls
<1>18. Current(M, R)'
  BY <1>1, <1>15, <1>16, GoesOn
<1>19. SwitchTraced(g, contextBlock', M, R, src')
  BY <1>6 DEF SwitchTraced
<1>20. Traced(M, R)'
  <2>1. g.kind # "func" /\ \E b \in Block : contextCondAfter' = Append(contextCondAfter, b)
    BY <1>1, <1>4, <1>6
  <2> QED
    BY <1>0, <1>1, <1>2, <1>6, <1>11, <1>15, <1>17, <1>18, <1>19, <2>1, PushMakes
<1> QED
  BY <1>20

\* Block e ends, and code goes on in block b, which is there already.
LEMMA EndsAndBegins ==
  ASSUME Len(blocks) \in Nat, NEW L, NEW S, BlocksTraced(L, S),
         NEW e \in 1 .. Len(blocks), NEW b \in 1 .. Len(blocks), e # b, NEW pl,
         NEW R, R = [x \in 1 .. Len(blocks) |-> IF x = e THEN Ended
                                                ELSE IF x = b THEN OpenAt(pl) ELSE S[x]],
         NEW W, W = IF S[e] = Ended THEN {b} ELSE {e, b},
         Len(blocks') = Len(blocks),
         \A x \in 1 .. Len(blocks) : /\ blocks'[x].fn = blocks[x].fn
                                     /\ x \notin {e, b} => blocks'[x] = blocks[x],
         IF S[e] = Ended THEN blocks'[e] = blocks[e] ELSE Good(L, src', blocks'[e], L[e], Ended),
         Good(L, src', blocks'[b], L[b], OpenAt(pl)),
         blocks'[b].term = NoTerm \/ Back(b, frames', contextBlock')
  PROVE  BlocksNext(L, S, L, R, W) /\ R[b] = OpenAt(pl)
<1>1. /\ DOMAIN R = 1 .. Len(blocks') /\ R[e] = Ended /\ R[b] = OpenAt(pl)
      /\ \A x \in 1 .. Len(blocks) : x \notin {e, b} => R[x] = S[x]
  OBVIOUS
<1>2. Wrote(L, S, L, R, W)
  <2>1. DOMAIN L = 1 .. Len(blocks') /\ Len(blocks) <= Len(blocks')
    BY DEF BlocksTraced
  <2>2. ASSUME NEW x \in 1 .. Len(blocks), x \notin W PROVE R[x] = S[x] /\ blocks'[x] = blocks[x]
    BY <1>1, <2>2
  <2> QED
    BY <1>1, <2>1, <2>2 DEF Wrote
<1>3. \A x \in W : Fine(L, R, x)
  <2>1. Fine(L, R, b)
    BY <1>1 DEF Fine, Rests
  <2>2. S[e] # Ended => Fine(L, R, e)
    BY <1>1 DEF Fine, Rests
  <2> QED
    BY <2>1, <2>2
<1>4. Len(blocks) + 1 .. Len(blocks') = {}
  OBVIOUS
<1> QED
  BY <1>1, <1>2, <1>3, <1>4 DEF BlocksNext

\* The innermost if is on top of the stack of after blocks.
LEMMA TopAfter ==
  ASSUME Known, frames # << >>, Top.kind = "if"
  PROVE  /\ contextCondAfter \in Seq(Block) /\ Len(contextCondAfter) \in Nat \ {0}
         /\ contextCondAfter # << >>
         /\ contextCondAfter[Len(contextCondAfter)] = Top.after
<1>1. /\ TypeOK /\ OwnedNow /\ StacksRight /\ contextCondAfter \in Seq(Block)
      /\ Len(contextCondAfter) \in Nat
  BY LenProperties DEF Known, TypeOK
<1>2. /\ Len(frames) \in 1 .. Len(frames) /\ Top = frames[Len(frames)]
      /\ Heights = Inside(Top) /\ Top.entry \in Height
  BY <1>1, TopHeights
<1>3. Len(contextCondAfter) = Top.entry.cond + 1 /\ Top.entry.cond \in Nat
  BY <1>2 DEF Heights, Inside, Height
<1>4. contextCondAfter[Top.entry.cond + 1] = Top.after
  <2>1. DOMAIN frames = 1 .. Len(frames)
    BY <1>1, CallTypes
  <2>2. OwnEntries
    BY <1>1 DEF StacksRight
  <2> QED
    BY <1>2, <2>1, <2>2 DEF OwnEntries
<1>5. contextCondAfter # << >>
  BY <1>1, <1>3, EmptySeq
<1> QED
  BY <1>1, <1>3, <1>4, <1>5

\* The arm of an if has ended, or ends with a jump to the block after the if.
LEMMA ArmTraced ==
  ASSUME Known, Extra = {}, NEW L, NEW S, Traced(L, S), Closing(L, S), Top.kind = "if",
         BranchMayEnd(Arm(Top))
  PROVE  \/ S[contextBlock] = Ended /\ ArmClosed(Arm(Top)) = blocks
         \/ /\ S[contextBlock] = OpenAt(<<Here, "at">>)
            /\ Edits(blocks, ArmClosed(Arm(Top)), contextBlock, blocks[contextBlock].code, Br(Top.after))
<1> DEFINE e == Arm(Top)
           k == blocks[contextBlock]
<1>1. /\ e \in 1 .. Len(blocks) /\ Top.after \in 1 .. Len(blocks)
      /\ L[e][2] \in {"at", "else"} /\ (S[e] = Ended \/ e = contextBlock)
  <2>1. In(Top.tru, OwnerAt(Len(frames) - 1, frames, blocks), blocks)
        /\ In(Top.fls, OwnerAt(Len(frames) - 1, frames, blocks), blocks)
        /\ In(Top.after, OwnerAt(Len(frames) - 1, frames, blocks), blocks)
    BY DEF Closing, FrameOwned
  <2>2. IfTraced(Top, contextBlock, L, S)
    BY DEF Closing, FrameTraced
  <2> QED
    BY <2>1, <2>2 DEF Arm, In, IfTraced
<1>2. L[e] # Nowhere /\ L[e][2] # "add"
  BY <1>1 DEF Nowhere
<1>3. frames # << >> /\ contextBlock \in 1 .. Len(blocks) /\ blocks \in Seq(BasicBlock) /\ Len(blocks) \in Nat
  BY DEF Closing
<1>4. ArmClosed(e) = IF blocks[e].term = NoTerm THEN Terminate(blocks, e, Br(Top.after)) ELSE blocks
  BY DEF ArmClosed
<1>5. S[e] = Ended => blocks[e].term # NoTerm
  <2>1. Good(L, src, blocks[e], L[e], S[e])
    BY <1>1 DEF Traced, BlocksTraced
  <2>2. S[e] = Ended => Shaped(L, blocks[e], Ended)
    BY <1>2, <2>1 DEF Good
  <2> QED
    BY <2>2 DEF Shaped, Ended, NoTerm
<1>6. Current(L, S)
  BY <1>3 DEF Traced
<1>7. CASE AfterJump
  <2>1. S[contextBlock] = Ended
    BY <1>6, <1>7 DEF Current
  <2> HIDE DEF e
  <2>2. ArmClosed(e) = blocks
    BY <1>1, <1>4, <1>5, <2>1
  <2> QED
    BY <2>1, <2>2 DEF e
<1>8. CASE ~ AfterJump
  <2>1. S[contextBlock] = OpenAt(<<Here, "at">>)
        /\ MayJump(k.term, L[contextBlock], contextCondAfter, Len(contextCondAfter))
    BY <1>6, <1>8 DEF Current
  <2>2. contextCondAfter[Len(contextCondAfter)] = Top.after
    BY <1>3, TopAfter
  <2>3. k.term = NoTerm \/ (k.term = Unreachable /\ L[contextBlock][2] = "add") \/ k.term = Br(Top.after)
    BY <2>1, <2>2 DEF MayJump
  <2>4. Edits(blocks, blocks, contextBlock, k.code, k.term)
    BY <1>3 DEF Edits
  <2>5. Edits(blocks, ArmClosed(e), contextBlock, k.code, Br(Top.after))
    <3>1. CASE e # contextBlock
      <4>1. ArmClosed(e) = blocks
        <5> HIDE DEF e
        <5> QED
          BY <1>1, <1>4, <1>5, <3>1
      <4>2. k.term.kind \notin {"none", "unreachable"}
        BY <3>1 DEF BranchMayEnd
      <4>3. k.term = Br(Top.after)
        BY <2>3, <4>2 DEF NoTerm, Unreachable
      <4> HIDE DEF k, e
      <4> QED
        BY <2>4, <4>1, <4>3
    <3>2. CASE e = contextBlock
      <4> HIDE DEF e
      <4>1. k.term = NoTerm \/ k.term = Br(Top.after)
        BY <1>2, <2>3, <3>2
      <4>2. CASE k.term = NoTerm
        <5>1. ArmClosed(e) = Terminate(blocks, contextBlock, Br(Top.after))
          BY <1>4, <3>2, <4>2
        <5>2. Br(Top.after) \in Term
          <6>1. Top.after \in Block
            BY <1>1, <1>3 DEF Block
          <6> QED
            BY <6>1, TermTypes
        <5> QED
          BY <1>3, <5>1, <5>2, TerminateIs
      <4>3. CASE k.term # NoTerm
        <5>1. ArmClosed(e) = blocks
          BY <1>4, <3>2, <4>3
        <5> HIDE DEF k
        <5> QED
          BY <2>4, <4>1, <4>3, <5>1
      <4> QED
        BY <4>2, <4>3
    <3> QED
      BY <3>1, <3>2
  <2> QED
    BY <2>1, <2>5
<1> QED
  BY <1>7, <1>8

\* The block that waits for the end of the arm is known to the jump from it.
LEMMA ArmGood ==
  ASSUME Known, NEW L, NEW S, Traced(L, S), Closing(L, S), Top.kind = "if",
         NEW t0 \in Token, src' = Append(src, t0), t0.op \in {"else", "endif"}, t0.of = Top.at,
         S[contextBlock] = OpenAt(<<Here, "at">>), NEW k2,
         k2.code = blocks[contextBlock].code, k2.term = Br(Top.after)
  PROVE  Good(L, src', k2, L[contextBlock], Ended)
<1>1. Extends(src', src) /\ \A A, T : Solves(A, T, src') => Says(A, T, t0, Here, CasesBefore(src', Here))
  BY Speaks
<1>2. \A A, T : Solves(A, T, src') => Passes(A, T, <<Here, "at">>, <<Top.at, "after">>)
  BY <1>1 DEF Says
<1>3. Top.after \in DOMAIN L /\ L[Top.after] = <<Top.at, "after">>
  <2>1. In(Top.after, OwnerAt(Len(frames) - 1, frames, blocks), blocks)
    BY DEF Closing, FrameOwned
  <2>2. DOMAIN L = 1 .. Len(blocks)
    BY DEF Traced, BlocksTraced
  <2>3. IfTraced(Top, contextBlock, L, S)
    BY DEF Closing, FrameTraced
  <2> QED
    BY <2>1, <2>2, <2>3 DEF In, IfTraced, MadeFor
<1>4. Good(L, src, blocks[contextBlock], L[contextBlock], OpenAt(<<Here, "at">>))
  BY DEF Closing
<1>5. PICK p \in DOMAIN L : p = Top.after
  BY <1>3
<1>6. k2.term = Br(p) /\ \A A, T : Solves(A, T, src') => Passes(A, T, <<Here, "at">>, L[p])
  <2>1. L[p] = <<Top.at, "after">>
    BY <1>3, <1>5
  <2> QED
    BY <1>2, <1>5, <2>1
<1> QED
  BY <1>1, <1>4, <1>6, OpenEnds

\* What the end of an arm, in block e, does to the blocks.
ArmShut(L, S, bs, e) ==
  /\ bs \in Seq(BasicBlock) /\ Len(bs) = Len(blocks)
  /\ \A x \in 1 .. Len(blocks) : bs[x].fn = blocks[x].fn /\ (x # e => bs[x] = blocks[x])
  /\ S[e] # Ended => S[e] = OpenAt(<<Here, "at">>)
  /\ IF S[e] = Ended THEN bs[e] = blocks[e] ELSE Good(L, src', bs[e], L[e], Ended)

LEMMA ArmStep ==
  ASSUME Known, Extra = {}, NEW L, NEW S, Traced(L, S), Closing(L, S), Top.kind = "if",
         BranchMayEnd(Arm(Top)), NEW t0 \in Token, src' = Append(src, t0),
         t0.op \in {"else", "endif"}, t0.of = Top.at,
         NEW bs, bs = ArmClosed(Arm(Top)), NEW e, e = contextBlock
  PROVE  ArmShut(L, S, bs, e)
<1>1. blocks \in Seq(BasicBlock) /\ e \in 1 .. Len(blocks)
  BY DEF Closing
<1>2. CASE S[contextBlock] = Ended /\ bs = blocks
  BY <1>1, <1>2 DEF ArmShut
<1>3. CASE S[contextBlock] = OpenAt(<<Here, "at">>)
           /\ Edits(blocks, bs, contextBlock, blocks[contextBlock].code, Br(Top.after))
  <2>1. /\ bs \in Seq(BasicBlock) /\ Len(bs) = Len(blocks)
        /\ \A x \in 1 .. Len(blocks) : x # e => bs[x] = blocks[x]
        /\ bs[e].fn = blocks[e].fn /\ bs[e].code = blocks[e].code /\ bs[e].term = Br(Top.after)
    BY <1>3 DEF Edits
  <2>2. \A x \in 1 .. Len(blocks) : bs[x].fn = blocks[x].fn
    BY <2>1
  <2>3. Good(L, src', bs[e], L[e], Ended)
    BY <1>3, <2>1, ArmGood
  <2> QED
    BY <1>3, <2>1, <2>2, <2>3, StatesDiffer DEF ArmShut
<1>4. \/ S[contextBlock] = Ended /\ bs = blocks
      \/ /\ S[contextBlock] = OpenAt(<<Here, "at">>)
         /\ Edits(blocks, bs, contextBlock, blocks[contextBlock].code, Br(Top.after))
  BY ArmTraced
<1> QED
  BY <1>2, <1>3, <1>4

\* A block that has been made and not begun.
LEMMA MadeIs ==
  ASSUME NEW L, NEW S, Traced(L, S), NEW b \in 1 .. Len(blocks), NEW p, NEW m, m # "none",
         MadeFor(L, S, b, <<p, m>>)
  PROVE  blocks[b].code = << >> /\ blocks[b].term = NoTerm /\ L[b] = <<p, m>> /\ S[b] = New
<1>1. L[b] # Nowhere /\ Good(L, src, blocks[b], L[b], New) /\ L[b] = <<p, m>> /\ S[b] = New
  <2>1. Good(L, src, blocks[b], L[b], S[b])
    BY DEF Traced, BlocksTraced
  <2> QED
    BY <2>1 DEF MadeFor, Nowhere
<1>2. Shaped(L, blocks[b], New)
  BY <1>1 DEF Good
<1> QED
  BY <1>1, <1>2 DEF Shaped, New

\* The else.
LEMMA BeginElseTraced ==
  ASSUME Known, TypeOK', Extra = {}, NEW L, NEW S, Traced(L, S), BeginElse
  PROVE  \E M, R : Traced(M, R)'
<1> DEFINE p    == Top.at
           t0   == [op |-> "else", of |-> p, form |-> "plain"]
           next == <<Here + 1, "at">>
           g    == [Top EXCEPT !.arm = "false"]
<1>1. Closing(L, S) /\ Top.kind = "if" /\ Top.hasElse /\ Top.arm = "true"
  BY ClosingIs DEF BeginElse, Open
<1>2. /\ frames # << >> /\ contextBlock \in 1 .. Len(blocks) /\ Len(blocks) \in Nat /\ Here \in Nat
      /\ p \in Nat /\ frames \in Seq(Frame) /\ Top \in Frame
  BY <1>1 DEF Closing
<1>3. Arm(Top) = Top.tru
  BY <1>1 DEF Arm
<1>4. /\ src' = Append(src, t0) /\ t0 \in Token /\ contextBlock' = Top.fls
      /\ blocks' = ArmClosed(Arm(Top)) /\ frames' = [frames EXCEPT ![Len(frames)] = g]
      /\ UNCHANGED <<funcs, contextCondAfter>> /\ BranchMayEnd(Arm(Top))
  <2>1. t0 \in Token
    BY <1>2 DEF Token, Ops, Forms
  <2>2. src' = Append(src, t0) /\ contextBlock' = Top.fls /\ UNCHANGED <<funcs, contextCondAfter>>
    BY DEF BeginElse, Put, stacks
  <2>3. frames' = [frames EXCEPT ![Len(frames)] = g]
    <3>1. Top = frames[Len(frames)] /\ frames' = [frames EXCEPT ![Len(frames)].arm = "false"]
      BY <1>1 DEF BeginElse, Closing
    <3> QED
      BY <3>1
  <2>4. blocks' = ArmClosed(Arm(Top)) /\ BranchMayEnd(Arm(Top))
    BY <1>3 DEF BeginElse
  <2> QED
    BY <2>1, <2>2, <2>3, <2>4
<1>5. /\ Top.fls \in 1 .. Len(blocks) /\ Top.after \in 1 .. Len(blocks)
      /\ MadeFor(L, S, Top.fls, <<p, "else">>) /\ MadeFor(L, S, Top.after, <<p, "after">>)
  <2>1. In(Top.fls, OwnerAt(Len(frames) - 1, frames, blocks), blocks)
        /\ In(Top.after, OwnerAt(Len(frames) - 1, frames, blocks), blocks)
    BY <1>1 DEF Closing, FrameOwned
  <2>2. IfTraced(Top, contextBlock, L, S)
    BY <1>1 DEF Closing, FrameTraced
  <2> QED
    BY <1>1, <2>1, <2>2 DEF IfTraced, In
<1>6. /\ g \in Frame /\ g.kind = "if" /\ g.at = p /\ g.after = Top.after /\ Arm(g) = Top.fls
      /\ g.arm = "false"
  <2>1. Top \in IfFrame
    BY <1>1, <1>2, FrameKinds
  <2>2. g \in IfFrame /\ g.kind = "if" /\ g.at = p /\ g.after = Top.after /\ g.arm = "false"
        /\ g.hasElse = Top.hasElse /\ g.fls = Top.fls
    BY <2>1 DEF IfFrame
  <2> QED
    BY <1>1, <2>2 DEF Frame, Arm
<1>7. /\ blocks[Top.fls].code = << >> /\ blocks[Top.fls].term = NoTerm
      /\ L[Top.fls] = <<p, "else">> /\ S[Top.fls] = New
      /\ L[Top.after] = <<p, "after">> /\ S[Top.after] = New
  BY <1>5, MadeIs
<1> HIDE DEF g, p
<1>8. PICK e, b, bs : e = contextBlock /\ b = Top.fls /\ bs = ArmClosed(Arm(Top))
  OBVIOUS
<1>9. ArmShut(L, S, bs, e)
  <2>1. t0.op \in {"else", "endif"} /\ t0.of = Top.at
    BY DEF p
  <2> HIDE DEF t0
  <2> QED
    BY <1>1, <1>4, <1>8, <2>1, ArmStep
<1>10. e # b /\ e # Top.after /\ b # Top.after
  <2>1. S[e] = Ended \/ S[e] = OpenAt(<<Here, "at">>)
    BY <1>9 DEF ArmShut
  <2>2. S[e] # New
    BY <2>1, StatesDiffer
  <2>3. L[b] # L[Top.after]
    BY <1>7, <1>8
  <2> QED
    BY <1>7, <1>8, <2>2, <2>3
<1>11. Extends(src', src) /\ \A A, T : Solves(A, T, src') => Same(A, T, <<p, "else">>, next)
  <2>1. Extends(src', src) /\ \A A, T : Solves(A, T, src') => Says(A, T, t0, Here, CasesBefore(src', Here))
    BY <1>4, Speaks
  <2> QED
    BY <2>1 DEF Says
<1>12. PICK R : R = [x \in 1 .. Len(blocks) |-> IF x = e THEN Ended ELSE IF x = b THEN OpenAt(next) ELSE S[x]]
  OBVIOUS
<1>13. PICK W : W = IF S[e] = Ended THEN {b} ELSE {e, b}
  OBVIOUS
<1>14. blocks' = bs /\ blocks'[b].code = << >> /\ blocks'[b].term = NoTerm /\ L[b] = <<p, "else">>
  BY <1>4, <1>5, <1>7, <1>8, <1>9, <1>10 DEF ArmShut
<1>15. BlocksNext(L, S, L, R, W) /\ R[b] = OpenAt(next)
  <2>1. Good(L, src', blocks'[b], L[b], OpenAt(next))
    BY <1>11, <1>14, EmptyOpen
  <2>2. BlocksTraced(L, S)
    BY DEF Traced
  <2>3. /\ Len(blocks') = Len(blocks) /\ e \in 1 .. Len(blocks) /\ b \in 1 .. Len(blocks)
        /\ \A x \in 1 .. Len(blocks) : /\ blocks'[x].fn = blocks[x].fn
                                       /\ x \notin {e, b} => blocks'[x] = blocks[x]
    BY <1>2, <1>5, <1>8, <1>9, <1>14 DEF ArmShut
  <2>4. IF S[e] = Ended THEN blocks'[e] = blocks[e] ELSE Good(L, src', blocks'[e], L[e], Ended)
    BY <1>9, <1>14 DEF ArmShut
  <2> HIDE DEF next
  <2> QED
    BY <1>2, <1>10, <1>12, <1>13, <1>14, <2>1, <2>2, <2>3, <2>4, EndsAndBegins
<1>16. OfTop(L, S, W)
  <2>1. L[b][1] = Top.at /\ S[b] = New
    BY <1>7, <1>8 DEF p
  <2> QED
    BY <1>9, <1>13, <2>1 DEF OfTop, ArmShut
<1>17. contextBlock \in W \/ S[contextBlock] = Ended
  BY <1>8, <1>13
<1>18. FrameTraced(g, contextBlock', L, R, blocks', contextCondAfter')
  <2>1. R[Top.after] = New
    BY <1>5, <1>7, <1>8, <1>10, <1>12
  <2>2. IfTraced(g, contextBlock', L, R)
    BY <1>4, <1>6, <1>7, <2>1 DEF IfTraced, MadeFor
  <2> QED
    BY <1>6, <2>2 DEF FrameTraced, ForTraced, FuncTraced, AppendTraced
<1>19. SwitchTraced(g, contextBlock', L, R, src')
  BY <1>6 DEF SwitchTraced
<1>20. Last(frames') = g
  <2>1. g.kind = Last(frames).kind /\ Remembers(g) = Remembers(Last(frames))
    BY <1>1, <1>6 DEF Remembers, Top
  <2>2. Changes(frames, g, frames', contextBlock, contextBlock')
    BY <1>2, <1>4, <1>6, <2>1, TopReturning
  <2> QED
    BY <2>2 DEF Changes
<1>21. Current(L, R)'
  <2>1. t0.op = "else"
    OBVIOUS
  <2>2. MayJump(blocks'[contextBlock'].term, L[contextBlock'], contextCondAfter', Len(contextCondAfter'))
    BY <1>4, <1>8, <1>14 DEF MayJump
  <2>3. R[contextBlock'] = OpenAt(<<Here + 1, "at">>) /\ Last(frames').kind # "switch"
    BY <1>4, <1>6, <1>8, <1>15, <1>20
  <2> HIDE DEF t0
  <2> QED
    BY <1>4, <2>1, <2>2, <2>3, CurrentOpen
<1> HIDE DEF t0, next
<1>22. Traced(L, R)'
  <2>1. g.kind = Top.kind /\ Remembers(g) = Remembers(Top) /\ g.at = Top.at /\ Top.kind # "func"
    BY <1>1, <1>6 DEF Remembers, p
  <2> QED
    BY <1>2, <1>4, <1>6, <1>11, <1>15, <1>16, <1>17, <1>18, <1>19, <1>21, <2>1, TopTraced
<1> QED
  BY <1>22

\* The end of an if.
LEMMA EndIfTraced ==
  ASSUME Known, TypeOK', Extra = {}, NEW L, NEW S, Traced(L, S), EndIf
  PROVE  \E M, R : Traced(M, R)'
<1> DEFINE p     == Top.at
           t0    == [op |-> "endif", of |-> p, form |-> "plain"]
           next  == <<Here + 1, "at">>
           outer == contextCondAfter'
<1>1. Closing(L, S) /\ Top.kind = "if" /\ (Top.hasElse => Top.arm = "false")
  BY ClosingIs DEF EndIf, Open
<1>2. /\ frames # << >> /\ contextBlock \in 1 .. Len(blocks) /\ Len(blocks) \in Nat /\ Here \in Nat
      /\ p \in Nat /\ frames \in Seq(Frame) /\ Top \in Frame
  BY <1>1 DEF Closing
<1>3. Arm(Top) = IF Top.hasElse THEN Top.fls ELSE Top.tru
  BY <1>1 DEF Arm
<1>4. /\ src' = Append(src, t0) /\ t0 \in Token /\ contextBlock' = Top.after
      /\ frames' = Front(frames) /\ UNCHANGED funcs /\ BranchMayEnd(Arm(Top))
      /\ contextCondAfter' = Front(contextCondAfter)
      /\ blocks' = IF outer # << >> THEN Terminate(ArmClosed(Arm(Top)), Top.after, Br(Last(outer)))
                                    ELSE ArmClosed(Arm(Top))
  <2>1. t0 \in Token
    BY <1>2 DEF Token, Ops, Forms
  <2>2. src' = Append(src, t0) /\ contextBlock' = Top.after /\ frames' = Front(frames) /\ UNCHANGED funcs
    BY DEF EndIf, Put
  <2>3. contextCondAfter' = Front(contextCondAfter) /\ BranchMayEnd(Arm(Top))
        /\ blocks' = IF outer # << >> THEN Terminate(ArmClosed(Arm(Top)), Top.after, Br(Last(outer)))
                                      ELSE ArmClosed(Arm(Top))
    BY <1>3 DEF EndIf
  <2> QED
    BY <2>1, <2>2, <2>3
<1>5. /\ Top.after \in 1 .. Len(blocks) /\ MadeFor(L, S, Top.after, <<p, "after">>)
  <2>1. In(Top.after, OwnerAt(Len(frames) - 1, frames, blocks), blocks)
    BY <1>1 DEF Closing, FrameOwned
  <2>2. IfTraced(Top, contextBlock, L, S)
    BY <1>1 DEF Closing, FrameTraced
  <2> QED
    BY <1>1, <2>1, <2>2 DEF IfTraced, In
<1>6. /\ blocks[Top.after].code = << >> /\ blocks[Top.after].term = NoTerm
      /\ L[Top.after] = <<p, "after">> /\ S[Top.after] = New
  BY <1>5, MadeIs
<1> HIDE DEF p
<1>8. PICK e, b, bs : e = contextBlock /\ b = Top.after /\ bs = ArmClosed(Arm(Top))
  OBVIOUS
<1>9. ArmShut(L, S, bs, e)
  <2>1. t0.op \in {"else", "endif"} /\ t0.of = Top.at
    BY DEF p
  <2> HIDE DEF t0
  <2> QED
    BY <1>1, <1>4, <1>8, <2>1, ArmStep
<1>10. e # b
  <2>1. S[e] = Ended \/ S[e] = OpenAt(<<Here, "at">>)
    BY <1>9 DEF ArmShut
  <2> QED
    BY <1>6, <1>8, <2>1, StatesDiffer
<1>11. Extends(src', src) /\ \A A, T : Solves(A, T, src') => Same(A, T, <<p, "after">>, next)
  <2>1. Extends(src', src) /\ \A A, T : Solves(A, T, src') => Says(A, T, t0, Here, CasesBefore(src', Here))
    BY <1>4, Speaks
  <2> QED
    BY <2>1 DEF Says, Closers
<1>12. PICK R : R = [x \in 1 .. Len(blocks) |-> IF x = e THEN Ended ELSE IF x = b THEN OpenAt(next) ELSE S[x]]
  OBVIOUS
<1>13. PICK W : W = IF S[e] = Ended THEN {b} ELSE {e, b}
  OBVIOUS
<1>14. /\ outer \in Seq(Block) /\ Len(outer) \in Nat
       /\ outer # << >> => Last(outer) \in Block /\ Last(outer) = outer[Len(outer)] /\ Len(outer) # 0
  <2>1. outer \in Seq(Block)
    BY DEF TypeOK
  <2> QED
    BY <2>1, FrontType, LenProperties
<1>15. PICK t : /\ t \in Term
                /\ IF outer # << >> THEN t = Br(Last(outer)) /\ blocks' = Terminate(bs, b, t)
                                    ELSE t = NoTerm /\ blocks' = bs
  <2>1. CASE outer # << >>
    <3>1. Br(Last(outer)) \in Term
      BY <1>14, <2>1, TermTypes
    <3> QED
      BY <1>4, <1>8, <2>1, <3>1
  <2>2. CASE outer = << >>
    BY <1>4, <1>8, <2>2, TermTypes
  <2> QED
    BY <2>1, <2>2
<1>16. bs \in Seq(BasicBlock) /\ Len(bs) = Len(blocks) /\ bs[b].code = << >> /\ bs[b].term = NoTerm
  BY <1>5, <1>6, <1>8, <1>9, <1>10 DEF ArmShut
<1>17. Edits(bs, blocks', b, << >>, t)
  <2>1. CASE outer # << >>
    BY <1>5, <1>8, <1>15, <1>16, <2>1, TerminateIs
  <2>2. CASE outer = << >>
    BY <1>15, <1>16, <2>2 DEF Edits
  <2> QED
    BY <2>1, <2>2
<1>18. MayJump(t, L[b], outer, Len(outer))
  BY <1>14, <1>15 DEF MayJump
<1> HIDE DEF outer
<1>19. frames' # << >> /\ Last(frames').kind # "switch" /\ Back(b, frames', contextBlock')
  <2>1. frames' # << >> /\ frames' \in Seq(Frame) /\ Last(frames').kind # "switch"
    BY <1>1, <1>4, Outer DEF Closing
  <2>2. Back(contextBlock', frames', contextBlock')
    BY <2>1, BackNow
  <2> QED
    BY <1>4, <1>8, <2>1, <2>2
<1>20. /\ Len(blocks') = Len(blocks) /\ e \in 1 .. Len(blocks) /\ b \in 1 .. Len(blocks)
       /\ \A x \in 1 .. Len(blocks) : /\ blocks'[x].fn = blocks[x].fn
                                      /\ x \notin {e, b} => blocks'[x] = blocks[x]
       /\ blocks'[b].code = << >> /\ blocks'[b].term = t /\ blocks'[e] = bs[e]
  <2>1. /\ Len(blocks') = Len(bs) /\ blocks'[b].code = << >> /\ blocks'[b].term = t /\ blocks'[b].fn = bs[b].fn
        /\ \A x \in 1 .. Len(blocks) : x # b => blocks'[x] = bs[x]
    BY <1>16, <1>17 DEF Edits
  <2>2. \A x \in 1 .. Len(blocks) : bs[x].fn = blocks[x].fn /\ (x # e => bs[x] = blocks[x])
    BY <1>9 DEF ArmShut
  <2>3. e \in 1 .. Len(blocks) /\ b \in 1 .. Len(blocks)
    BY <1>2, <1>5, <1>8
  <2> QED
    BY <1>10, <1>16, <2>1, <2>2, <2>3
<1>21. BlocksNext(L, S, L, R, W) /\ R[b] = OpenAt(next)
  <2>1. Good(L, src', blocks'[b], L[b], OpenAt(next))
    BY <1>6, <1>8, <1>11, <1>20, EmptyOpen
  <2>2. BlocksTraced(L, S)
    BY DEF Traced
  <2>3. IF S[e] = Ended THEN blocks'[e] = blocks[e] ELSE Good(L, src', blocks'[e], L[e], Ended)
    BY <1>9, <1>20 DEF ArmShut
  <2> HIDE DEF next
  <2> QED
    BY <1>2, <1>10, <1>12, <1>13, <1>19, <1>20, <2>1, <2>2, <2>3, EndsAndBegins
<1>22. OfTop(L, S, W)
  <2>1. L[b][1] = Top.at /\ S[b] = New
    BY <1>6, <1>8 DEF p
  <2> QED
    BY <1>9, <1>13, <2>1 DEF OfTop, ArmShut
<1>23. contextBlock \in W \/ S[contextBlock] = Ended
  BY <1>8, <1>13
<1>24. Current(L, R)'
  <2>1. t0.op = "endif"
    OBVIOUS
  <2>2. MayJump(blocks'[contextBlock'].term, L[contextBlock'], contextCondAfter', Len(contextCondAfter'))
    BY <1>4, <1>8, <1>18, <1>20 DEF outer
  <2>3. R[contextBlock'] = OpenAt(<<Here + 1, "at">>)
    BY <1>4, <1>8, <1>21
  <2> HIDE DEF t0
  <2> QED
    BY <1>4, <1>19, <2>1, <2>2, <2>3, CurrentOpen
<1> HIDE DEF t0, next
<1>25. Traced(L, R)'
  <2>1. Top.kind \notin {"func", "switch"}
    BY <1>1
  <2> QED
    BY <1>1, <1>4, <1>11, <1>21, <1>22, <1>23, <1>24, <2>1, PopMakes
<1> QED
  BY <1>25

-----------------------------------------------------------------------------
(* Loops, at their end                                                       *)

\* A step that makes no block.
LEMMA WritesOnly ==
  ASSUME Len(blocks) \in Nat, NEW L, NEW S, BlocksTraced(L, S), Len(blocks') = Len(blocks),
         NEW R, DOMAIN R = 1 .. Len(blocks), NEW W,
         \A x \in 1 .. Len(blocks) :
           /\ blocks'[x].fn = blocks[x].fn
           /\ x \notin W => R[x] = S[x] /\ blocks'[x] = blocks[x]
           /\ x \in W => /\ Good(L, src', blocks'[x], L[x], R[x])
                         /\ R[x] = Ended \/ blocks'[x].term = NoTerm
                              \/ Back(x, frames', contextBlock')
  PROVE  BlocksNext(L, S, L, R, W)
<1>1. Wrote(L, S, L, R, W)
  BY DEF Wrote, BlocksTraced
<1>2. Len(blocks) + 1 .. Len(blocks') = {}
  OBVIOUS
<1>3. \A x \in 1 .. Len(blocks) : x \in W => Fine(L, R, x)
  BY DEF Fine, Rests
<1> QED
  BY <1>1, <1>2, <1>3 DEF BlocksNext

\* A call closed after straight-line code: no jump was the last statement.
LEMMA ClosingOpen ==
  ASSUME NEW L, NEW S, Traced(L, S), Closing(L, S), Top.kind \in {"for", "append"}
  PROVE  /\ S[contextBlock] = OpenAt(<<Here, "at">>)
         /\ Good(L, src, blocks[contextBlock], L[contextBlock], OpenAt(<<Here, "at">>))
<1>1. Current(L, S) /\ Good(L, src, blocks[contextBlock], L[contextBlock], S[contextBlock])
  BY DEF Traced, Closing
<1>2. S[contextBlock] = OpenAt(<<Here, "at">>)
  BY <1>1 DEF Current
<1> QED
  BY <1>1, <1>2

\* What the token of an open loop says.
LEMMA LoopSays ==
  ASSUME Known, frames # << >>, Top.kind = "for", Top.at \in 1 .. Len(src), Extends(src', src)
  PROVE  \A A, T : Solves(A, T, src') => A[<<Top.at, "post">>] = {It(Top.at, "post")}
<1>1. src[Top.at].op = "for"
  <2>1. Len(frames) \in 1 .. Len(frames) /\ Top = frames[Len(frames)]
    BY Context DEF Known
  <2> QED
    BY <2>1 DEF Known, TokensKnown, TokenKnown
<1>2. ASSUME NEW A, NEW T, Solves(A, T, src')
      PROVE  A[<<Top.at, "post">>] = {It(Top.at, "post")}
  <2>1. Solves(A, T, src)
    BY <1>2 DEF Extends
  <2>2. Says(A, T, src[Top.at], Top.at, CasesBefore(src, Top.at))
    BY <2>1 DEF Solves
  <2> HIDE DEF Top, It
  <2> QED
    BY <1>1, <2>2 DEF Says
<1> QED
  BY <1>2

\* The end of a loop.
LEMMA EndForTraced ==
  ASSUME Known, TypeOK', Extra = {}, NEW L, NEW S, Traced(L, S), EndFor
  PROVE  \E M, R : Traced(M, R)'
<1> DEFINE p     == Top.at
           t0    == [op |-> "endfor", of |-> p, form |-> "plain"]
           next  == <<Here + 1, "at">>
           x     == It(p, "post")
<1>1. Closing(L, S) /\ Top.kind = "for"
  BY ClosingIs DEF EndFor, Open
<1>2. /\ frames # << >> /\ contextBlock \in 1 .. Len(blocks) /\ Len(blocks) \in Nat /\ Here \in Nat
      /\ p \in Nat /\ p \in 1 .. Len(src) /\ frames \in Seq(Frame) /\ Top \in Frame
      /\ blocks \in Seq(BasicBlock)
  BY <1>1 DEF Closing
<1>3. /\ S[contextBlock] = OpenAt(<<Here, "at">>)
      /\ Good(L, src, blocks[contextBlock], L[contextBlock], OpenAt(<<Here, "at">>))
  BY <1>1, ClosingOpen
<1>4. /\ src' = Append(src, t0) /\ t0 \in Token /\ contextBlock' = Top.after
      /\ frames' = Front(frames) /\ UNCHANGED <<funcs, contextCondAfter>>
      /\ blocks' = Terminate(Emit(Terminate(blocks, contextBlock, Br(Top.post)), Top.post, x),
                             Top.post, Br(Top.cond))
  <2>1. t0 \in Token
    BY <1>2 DEF Token, Ops, Forms
  <2>2. /\ src' = Append(src, t0) /\ contextBlock' = Top.after /\ frames' = Front(frames)
        /\ UNCHANGED <<funcs, contextCondAfter>>
    BY DEF EndFor, Put
  <2>3. blocks' = Terminate(Emit(Terminate(blocks, contextBlock, Br(Top.post)), Top.post, x),
                            Top.post, Br(Top.cond))
    BY DEF EndFor, It
  <2> QED
    BY <2>1, <2>2, <2>3
<1>5. /\ Top.after \in 1 .. Len(blocks) /\ Top.post \in 1 .. Len(blocks) /\ Top.cond \in 1 .. Len(blocks)
      /\ MadeFor(L, S, Top.after, <<p, "after">>) /\ MadeFor(L, S, Top.post, <<p, "post">>)
      /\ L[Top.cond] = <<p, "cond">>
  <2>1. /\ In(Top.after, OwnerAt(Len(frames) - 1, frames, blocks), blocks)
        /\ In(Top.post, OwnerAt(Len(frames) - 1, frames, blocks), blocks)
        /\ In(Top.cond, OwnerAt(Len(frames) - 1, frames, blocks), blocks)
    BY <1>1 DEF Closing, FrameOwned
  <2>2. ForTraced(Top, L, S)
    BY <1>1 DEF Closing, FrameTraced
  <2> QED
    BY <1>1, <2>1, <2>2 DEF ForTraced, In
<1>6. /\ blocks[Top.after].code = << >> /\ blocks[Top.after].term = NoTerm
      /\ L[Top.after] = <<p, "after">> /\ S[Top.after] = New
      /\ blocks[Top.post].code = << >> /\ L[Top.post] = <<p, "post">> /\ S[Top.post] = New
  BY <1>5, MadeIs
<1>7. /\ Extends(src', src)
      /\ \A A, T : Solves(A, T, src') => /\ Same(A, T, <<p, "after">>, next)
                                         /\ Passes(A, T, <<Here, "at">>, <<p, "post">>)
                                         /\ A[<<p, "post">>] = {x}
  <2>1. Extends(src', src) /\ \A A, T : Solves(A, T, src') => Says(A, T, t0, Here, CasesBefore(src', Here))
    BY <1>4, Speaks
  <2>2. \A A, T : Solves(A, T, src') => /\ Same(A, T, <<p, "after">>, next)
                                        /\ Passes(A, T, <<Here, "at">>, <<p, "post">>)
    BY <2>1 DEF Says, Closers
  <2>3. \A A, T : Solves(A, T, src') => A[<<p, "post">>] = {x}
    BY <1>1, <1>2, <2>1, LoopSays
  <2> QED
    BY <2>1, <2>2, <2>3
<1>8. x \in Item /\ x.tag \notin Decisions
  BY <1>2 DEF It, Item, Tags, Decisions
<1>9. \A A : Flow(A, x) = <<A[<<p, "cond">>]>>
  BY FlowOf
<1> HIDE DEF p, x
<1>10. PICK e, b, q, c, bs : e = contextBlock /\ b = Top.after /\ q = Top.post /\ c = Top.cond
         /\ bs = Terminate(blocks, contextBlock, Br(Top.post))
  OBVIOUS
<1>11. e # b /\ e # q /\ b # q
  <2>1. L[b] # L[q]
    BY <1>6, <1>10
  <2> QED
    BY <1>3, <1>6, <1>10, <2>1, StatesDiffer
<1>12. Br(q) \in Term /\ Br(c) \in Term
  <2>1. q \in Block /\ c \in Block
    BY <1>2, <1>5, <1>10 DEF Block
  <2> QED
    BY <2>1, TermTypes
<1>13. Edits(blocks, bs, e, blocks[e].code, Br(q))
  BY <1>2, <1>10, <1>12, TerminateIs
<1>14. Edits(bs, blocks', q, <<x>>, Br(c))
  <2>1. bs \in Seq(BasicBlock) /\ q \in 1 .. Len(bs) /\ bs[q].code = << >>
    BY <1>5, <1>6, <1>10, <1>11, <1>13 DEF Edits
  <2>2. Append(bs[q].code, x) = <<x>>
    BY <2>1
  <2>3. blocks' = Terminate(Emit(bs, q, x), q, Br(c))
    BY <1>4, <1>10
  <2> QED
    BY <1>8, <1>12, <2>1, <2>2, <2>3, EndIs
<1>15. /\ Len(blocks') = Len(blocks)
       /\ \A y \in 1 .. Len(blocks) : y \notin {e, q} => blocks'[y] = blocks[y]
       /\ blocks'[e].fn = blocks[e].fn /\ blocks'[e].code = blocks[e].code /\ blocks'[e].term = Br(q)
       /\ blocks'[q].fn = blocks[q].fn /\ blocks'[q].code = <<x>> /\ blocks'[q].term = Br(c)
       /\ blocks'[b] = blocks[b]
  <2>1. e \in 1 .. Len(blocks) /\ q \in 1 .. Len(blocks) /\ b \in 1 .. Len(blocks)
    BY <1>2, <1>5, <1>10
  <2> QED
    BY <1>11, <1>13, <1>14, <2>1 DEF Edits
<1>16. q \in DOMAIN L /\ c \in DOMAIN L
  BY <1>5, <1>10 DEF Traced, BlocksTraced
<1>17. Good(L, src', blocks'[e], L[e], Ended)
  <2>1. \A A, T : Solves(A, T, src') => Passes(A, T, <<Here, "at">>, L[q])
    BY <1>6, <1>7, <1>10
  <2>2. Good(L, src, blocks[e], L[e], OpenAt(<<Here, "at">>))
    BY <1>3, <1>10
  <2> QED
    BY <1>7, <1>15, <1>16, <2>1, <2>2, OpenEnds
<1>18. Good(L, src', blocks'[q], L[q], Ended)
  <2>1. Holds(src', blocks'[q], L[q], x)
    BY <1>6, <1>7, <1>10, <1>15, MadeHolds
  <2>2. L[c] = <<p, "cond">>
    BY <1>5, <1>10
  <2>3. \A A, T : Solves(A, T, src') => Flow(A, x) = <<A[L[c]]>> /\ A[L[c]] = A[L[c]]
    BY <1>9, <2>2
  <2> QED
    BY <1>8, <1>15, <1>16, <2>1, <2>3, EndsOne
<1>19. Good(L, src', blocks'[b], L[b], OpenAt(next)) /\ blocks'[b].term = NoTerm
  BY <1>6, <1>7, <1>10, <1>15, EmptyOpen
<1>20. PICK R : R = [y \in 1 .. Len(blocks) |-> IF y \in {e, q} THEN Ended
                                                ELSE IF y = b THEN OpenAt(next) ELSE S[y]]
  OBVIOUS
<1>21. PICK W : W = {e, q, b}
  OBVIOUS
<1>22. BlocksNext(L, S, L, R, W) /\ R[b] = OpenAt(next)
  <2>1. e \in 1 .. Len(blocks) /\ q \in 1 .. Len(blocks) /\ b \in 1 .. Len(blocks)
    BY <1>2, <1>5, <1>10
  <2>2. /\ DOMAIN R = 1 .. Len(blocks) /\ R[e] = Ended /\ R[q] = Ended /\ R[b] = OpenAt(next)
        /\ \A y \in 1 .. Len(blocks) : y \notin W => R[y] = S[y]
    BY <1>11, <1>20, <1>21, <2>1
  <2>3. \A y \in 1 .. Len(blocks) :
           /\ blocks'[y].fn = blocks[y].fn
           /\ y \notin W => R[y] = S[y] /\ blocks'[y] = blocks[y]
           /\ y \in W => /\ Good(L, src', blocks'[y], L[y], R[y])
                         /\ R[y] = Ended \/ blocks'[y].term = NoTerm
                              \/ Back(y, frames', contextBlock')
    BY <1>15, <1>17, <1>18, <1>19, <1>21, <2>2
  <2>4. BlocksTraced(L, S)
    BY DEF Traced
  <2> QED
    BY <1>2, <1>15, <2>2, <2>3, <2>4, WritesOnly
<1>23. OfTop(L, S, W)
  <2>1. L[b][1] = Top.at /\ S[b] = New /\ L[q][1] = Top.at /\ S[q] = New
    BY <1>6, <1>10 DEF p
  <2> QED
    BY <1>3, <1>10, <1>21, <2>1 DEF OfTop
<1>24. contextBlock \in W
  BY <1>10, <1>21
<1>25. frames' # << >> /\ Last(frames').kind # "switch"
  BY <1>1, <1>4, Outer DEF Closing
<1>26. Current(L, R)'
  <2>1. t0.op = "endfor"
    OBVIOUS
  <2>2. MayJump(blocks'[contextBlock'].term, L[contextBlock'], contextCondAfter', Len(contextCondAfter'))
    BY <1>4, <1>10, <1>19 DEF MayJump
  <2>3. R[contextBlock'] = OpenAt(<<Here + 1, "at">>)
    BY <1>4, <1>10, <1>22
  <2> HIDE DEF t0
  <2> QED
    BY <1>4, <1>25, <2>1, <2>2, <2>3, CurrentOpen
<1> HIDE DEF t0, next
<1>27. Traced(L, R)'
  <2>1. Top.kind \notin {"func", "switch"}
    BY <1>1
  <2> QED
    BY <1>1, <1>4, <1>7, <1>22, <1>23, <1>24, <1>26, <2>1, PopMakes
<1> QED
  BY <1>27

-----------------------------------------------------------------------------
(* Loops, at their beginning                                                 *)

\* The blocks of a bounds check.
LEMMA CheckedIs ==
  ASSUME NEW bs \in Seq(BasicBlock), NEW b \in 1 .. Len(bs), NEW at \in Nat, NEW f \in Nat \ {0}
  PROVE  Makes(bs, Checked(bs, b, at, f), b, Append(bs[b].code, It(at, "index")),
               CondBr(Len(bs) + 1, Len(bs) + 2),
               <<BlockOf(f, <<It(at, "panic")>>, Unreachable), NewBlock(f)>>)
<1> DEFINE x    == It(at, "index")
           m1   == BlockOf(f, <<It(at, "panic")>>, Unreachable)
           m2   == NewBlock(f)
           made == <<m1, m2>>
           t    == CondBr(Len(bs) + 1, Len(bs) + 2)
<1>1. x \in Item /\ <<It(at, "panic")>> \in Seq(Item)
  <2>1. x \in Item /\ It(at, "panic") \in Item
    BY DEF It, Item, Tags
  <2> HIDE DEF It
  <2> QED
    BY <2>1
<1>2. t \in Term
  <2>1. Len(bs) + 1 \in Block /\ Len(bs) + 2 \in Block
    BY LenProperties DEF Block
  <2> QED
    BY <2>1, TermTypes
<1>3. m1 \in BasicBlock /\ m2 \in BasicBlock
  BY <1>1, BlockTypes, TermTypes
<1>4. Checked(bs, b, at, f) = Terminate(Emit(bs, b, x) \o made, b, t)
  BY DEF Checked, WithCheck, It
<1> HIDE DEF m1, m2, x, t
<1>5. made \in Seq(BasicBlock)
  BY <1>3
<1> HIDE DEF made
<1>6. Makes(bs, Checked(bs, b, at, f), b, Append(bs[b].code, x), t, made)
  BY <1>1, <1>2, <1>4, <1>5, MakesAll
<1> QED
  BY <1>6 DEF made, m1, m2, x, t

\* Block b of bs has code c and terminator t.
Looks(bs, b, c, t) == bs[b].code = c /\ bs[b].term = t

\* The blocks before a loop, and those the loop makes, in cs.
OldLooks(cs) ==
  /\ cs \in Seq(BasicBlock)
  /\ \A x \in 1 .. Len(blocks) : x # contextBlock => cs[x] = blocks[x]
  /\ cs[contextBlock].fn = blocks[contextBlock].fn
  /\ Looks(cs, contextBlock, Append(blocks[contextBlock].code, It(Here, "init")), Br(Fresh(1)))
LoopLooks(cs, form, k1, k2, k3, k4, k5, k6) ==
  /\ OldLooks(cs) /\ Len(cs) = Len(blocks) + (IF form = "plain" THEN 4 ELSE 6)
  /\ Looks(cs, k3, << >>, NoTerm) /\ Looks(cs, k4, << >>, NoTerm)
  /\ form = "checked" => /\ Looks(cs, k1, <<It(Here, "index")>>, CondBr(k5, k6))
                         /\ Looks(cs, k2, << >>, NoTerm)
                         /\ Looks(cs, k5, <<It(Here, "panic")>>, Unreachable)
                         /\ Looks(cs, k6, <<It(Here, "cond")>>, CondBr(k2, k4))
  /\ form = "range"   => /\ Looks(cs, k1, <<It(Here, "cond")>>, CondBr(k2, k4))
                         /\ Looks(cs, k2, <<It(Here, "index")>>, CondBr(k5, k6))
                         /\ Looks(cs, k5, <<It(Here, "panic")>>, Unreachable)
                         /\ Looks(cs, k6, << >>, NoTerm)
  /\ form = "plain"   => /\ Looks(cs, k1, <<It(Here, "cond")>>, CondBr(k2, k4))
                         /\ Looks(cs, k2, << >>, NoTerm)

LEMMA SixMore ==
  ASSUME NEW N \in Nat, NEW k1, NEW k2, NEW k3, NEW k4, NEW k5, NEW k6, k1 = N + 1, k2 = N + 2,
         k3 = N + 3, k4 = N + 4, k5 = N + 5, k6 = N + 6
  PROVE  /\ k1 \in 1 .. N + 4 /\ k2 \in 1 .. N + 4 /\ k3 \in 1 .. N + 4 /\ k4 \in 1 .. N + 4
         /\ k1 \in 1 .. N + 6 /\ k2 \in 1 .. N + 6 /\ k3 \in 1 .. N + 6 /\ k4 \in 1 .. N + 6
         /\ k5 \in 1 .. N + 6 /\ k6 \in 1 .. N + 6
         /\ k1 # k2 /\ k1 # k3 /\ k1 # k4 /\ k1 # k5 /\ k1 # k6 /\ k2 # k3 /\ k2 # k4 /\ k2 # k5
         /\ k2 # k6 /\ k3 # k4 /\ k3 # k5 /\ k3 # k6 /\ k4 # k5 /\ k4 # k6 /\ k5 # k6
         /\ k1 \in Nat \ {0} /\ k2 \in Nat \ {0} /\ k3 \in Nat \ {0} /\ k4 \in Nat \ {0}
         /\ k5 \in Nat \ {0} /\ k6 \in Nat \ {0}
         /\ \A y \in 1 .. N : /\ y \in 1 .. N + 4 /\ y \in 1 .. N + 6 /\ y # k1 /\ y # k2
                             /\ y # k3 /\ y # k4 /\ y # k5 /\ y # k6
OBVIOUS

LEMMA LoopBlocks ==
  ASSUME NEW S, Prepared(S), NEW form \in {"plain", "checked", "range"}, BeginFor(form),
         NEW k1, NEW k2, NEW k3, NEW k4, NEW k5, NEW k6, k1 = Fresh(1), k2 = Fresh(2),
         k3 = Fresh(3), k4 = Fresh(4), k5 = Fresh(5), k6 = Fresh(6)
  PROVE  LoopLooks(blocks', form, k1, k2, k3, k4, k5, k6)
<1> DEFINE f       == blocks[contextBlock].fn
           made    == [i \in 1 .. 4 |-> NewBlock(f)]
           x       == It(Here, "init")
           c       == Append(blocks[contextBlock].code, x)
           ci      == It(Here, "cond")
           ii      == It(Here, "index")
           entered == Terminate(Emit(blocks, contextBlock, x) \o made, contextBlock, Br(k1))
           tested  == IF form = "checked" THEN Checked(entered, k1, Here, f) ELSE entered
           test    == IF form = "checked" THEN k6 ELSE k1
           looped  == Terminate(Emit(tested, test, ci), test, CondBr(k2, k4))
           final   == IF form = "range" THEN Checked(looped, k2, Here, f) ELSE looped
           N       == Len(blocks)
<1>1. blocks' = final
  BY DEF BeginFor, It
<1>2. /\ blocks \in Seq(BasicBlock) /\ contextBlock \in 1 .. N /\ f \in Nat \ {0} /\ N \in Nat
      /\ Here \in Nat
  BY DEF Prepared
<1>3. x \in Item /\ ci \in Item /\ ii \in Item
  BY <1>2, HereItems
<1>4. /\ k1 = N + 1 /\ k2 = N + 2 /\ k3 = N + 3 /\ k4 = N + 4 /\ k5 = N + 5 /\ k6 = N + 6
  BY DEF Fresh
<1>40. N \in Nat
  BY <1>2
<1> HIDE DEF N
<1>6. /\ k1 \in 1 .. N + 4 /\ k2 \in 1 .. N + 4 /\ k3 \in 1 .. N + 4 /\ k4 \in 1 .. N + 4
      /\ k1 \in 1 .. N + 6 /\ k2 \in 1 .. N + 6 /\ k3 \in 1 .. N + 6 /\ k4 \in 1 .. N + 6
      /\ k5 \in 1 .. N + 6 /\ k6 \in 1 .. N + 6
      /\ k1 # k2 /\ k1 # k3 /\ k1 # k4 /\ k1 # k5 /\ k1 # k6 /\ k2 # k3 /\ k2 # k4 /\ k2 # k5
      /\ k2 # k6 /\ k3 # k5 /\ k3 # k6 /\ k4 # k5 /\ k4 # k6 /\ k5 # k6
  BY <1>4, <1>40, SixMore
<1>61. k1 \in Nat \ {0} /\ k2 \in Nat \ {0} /\ k4 \in Nat \ {0}
  BY <1>4, <1>40, SixMore
<1>7. \A y \in 1 .. N : /\ y \in 1 .. N + 4 /\ y \in 1 .. N + 6
                        /\ y # k1 /\ y # k2 /\ y # k6
  BY <1>4, <1>40, SixMore
<1> USE DEF N
<1>5. Br(k1) \in Term /\ CondBr(k2, k4) \in Term
  BY <1>61, TermTypes DEF Block
<1>8. /\ \A i \in {1, 2, 3, 4} : i \in 1 .. 4 /\ N + i = Fresh(i)
      /\ N + 4 + 1 = k5 /\ N + 4 + 2 = k6 /\ (N + 4) + 2 = N + 6
  BY <1>2, <1>4 DEF Fresh
<1>9. /\ made \in Seq(BasicBlock) /\ Len(made) = 4
      /\ \A i \in 1 .. 4 : made[i].code = << >> /\ made[i].term = NoTerm
  <2>1. NewBlock(f) \in BasicBlock /\ NewBlock(f).code = << >> /\ NewBlock(f).term = NoTerm
    <3> HIDE DEF f
    <3>1. NewBlock(f) \in BasicBlock
      BY <1>2, MadeOf
    <3> QED
      BY <3>1 DEF NewBlock, BlockOf
  <2> DEFINE m == NewBlock(f)
  <2> HIDE DEF m
  <2> QED
    BY <2>1 DEF m
<1> HIDE DEF made, f
<1>10. Makes(blocks, entered, contextBlock, c, Br(k1), made)
  <2> HIDE DEF x
  <2> QED
    BY <1>2, <1>3, <1>5, <1>9, MakesAll
<1>11. OldLooks(entered)
  <2> HIDE DEF entered
  <2> QED
    BY <1>10 DEF OldLooks, Makes, Looks
<1>12. /\ Len(entered) = N + 4
       /\ Looks(entered, k1, << >>, NoTerm) /\ Looks(entered, k2, << >>, NoTerm)
       /\ Looks(entered, k3, << >>, NoTerm) /\ Looks(entered, k4, << >>, NoTerm)
  <2> HIDE DEF entered
  <2>1. Len(entered) = N + 4 /\ \A i \in 1 .. 4 : entered[N + i] = made[i]
    BY <1>9, <1>10 DEF Makes
  <2>2. \A i \in 1 .. 4 : Looks(entered, N + i, << >>, NoTerm)
    BY <1>9, <2>1 DEF Looks
  <2> QED
    BY <1>4, <2>1, <2>2
<1> HIDE DEF entered, x, c, ci, ii
<1>13. entered \in Seq(BasicBlock)
  BY <1>11 DEF OldLooks
<1>14. CASE form = "plain"
  <2>1. Append(entered[k1].code, ci) = <<ci>>
    BY <1>12 DEF Looks
  <2>2. Edits(entered, final, k1, <<ci>>, CondBr(k2, k4))
    <3>1. final = Terminate(Emit(entered, k1, ci), k1, CondBr(k2, k4))
      BY <1>14
    <3> HIDE DEF final
    <3> QED
      BY <1>3, <1>5, <1>6, <1>12, <1>13, <2>1, <3>1, EndIs
  <2> HIDE DEF final
  <2>3. OldLooks(final) /\ Len(final) = N + 4
    BY <1>2, <1>7, <1>11, <1>12, <2>2 DEF OldLooks, Edits, Looks
  <2>4. /\ Looks(final, k1, <<ci>>, CondBr(k2, k4)) /\ Looks(final, k2, << >>, NoTerm)
        /\ Looks(final, k3, << >>, NoTerm) /\ Looks(final, k4, << >>, NoTerm)
    BY <1>6, <1>12, <2>2 DEF Edits, Looks
  <2> QED
    BY <1>1, <1>14, <2>3, <2>4 DEF LoopLooks, ci
<1>15. CASE form = "checked"
  <2>1. Append(entered[k1].code, ii) = <<ii>>
    BY <1>12 DEF Looks
  <2> DEFINE m1 == BlockOf(f, <<It(Here, "panic")>>, Unreachable)
             m2 == NewBlock(f)
             cs == Checked(entered, k1, Here, f)
  <2>2. Makes(entered, cs, k1, <<ii>>, CondBr(k5, k6), <<m1, m2>>)
    <3>1. Makes(entered, cs, k1, Append(entered[k1].code, ii),
                CondBr(Len(entered) + 1, Len(entered) + 2), <<m1, m2>>)
      BY <1>2, <1>6, <1>12, <1>13, CheckedIs DEF ii
    <3>2. Len(entered) + 1 = k5 /\ Len(entered) + 2 = k6
      BY <1>8, <1>12
    <3> HIDE DEF cs, m1, m2
    <3> QED
      BY <2>1, <3>1, <3>2
  <2>3. m1.code = <<It(Here, "panic")>> /\ m1.term = Unreachable /\ m2.code = << >> /\ m2.term = NoTerm
    BY DEF BlockOf, NewBlock
  <2>4. final = Terminate(Emit(cs, k6, ci), k6, CondBr(k2, k4))
    BY <1>15
  <2> HIDE DEF cs, m1, m2, final
  <2>5. cs \in Seq(BasicBlock) /\ Len(cs) = N + 6 /\ cs[k5] = m1 /\ cs[k6] = m2
    <3> DEFINE ms == <<m1, m2>>
    <3>1. Len(ms) = 2 /\ ms[1] = m1 /\ ms[2] = m2 /\ 1 \in 1 .. 2 /\ 2 \in 1 .. 2
      OBVIOUS
    <3> HIDE DEF ms
    <3>2. cs \in Seq(BasicBlock) /\ Len(cs) = Len(entered) + 2
          /\ cs[Len(entered) + 1] = m1 /\ cs[Len(entered) + 2] = m2
      BY <2>2, <3>1 DEF Makes, ms
    <3> QED
      BY <1>8, <1>12, <3>2
  <2>6. Append(cs[k6].code, ci) = <<ci>>
    <3>1. cs[k6].code = << >>
      BY <2>3, <2>5
    <3> QED
      BY <3>1
  <2>7. Edits(cs, final, k6, <<ci>>, CondBr(k2, k4))
    BY <1>3, <1>5, <1>6, <2>4, <2>5, <2>6, EndIs
  <2>8. OldLooks(cs)
    BY <1>2, <1>7, <1>11, <1>12, <2>2 DEF OldLooks, Makes, Looks
  <2>9. OldLooks(final) /\ Len(final) = N + 6
    BY <1>2, <1>7, <2>5, <2>7, <2>8 DEF OldLooks, Edits, Looks
  <2>10. /\ Looks(cs, k1, <<ii>>, CondBr(k5, k6)) /\ Looks(cs, k2, << >>, NoTerm)
         /\ Looks(cs, k3, << >>, NoTerm) /\ Looks(cs, k4, << >>, NoTerm)
    BY <1>6, <1>12, <2>2 DEF Makes, Looks
  <2>11. Looks(cs, k5, <<It(Here, "panic")>>, Unreachable)
    BY <2>3, <2>5 DEF Looks
  <2>12. /\ Looks(final, k1, <<ii>>, CondBr(k5, k6)) /\ Looks(final, k2, << >>, NoTerm)
         /\ Looks(final, k3, << >>, NoTerm) /\ Looks(final, k4, << >>, NoTerm)
         /\ Looks(final, k5, <<It(Here, "panic")>>, Unreachable)
         /\ Looks(final, k6, <<ci>>, CondBr(k2, k4))
    BY <1>6, <2>5, <2>7, <2>10, <2>11 DEF Edits, Looks
  <2> QED
    BY <1>1, <1>15, <2>9, <2>12 DEF LoopLooks, ci, ii
<1>16. CASE form = "range"
  <2> DEFINE cs == Terminate(Emit(entered, k1, ci), k1, CondBr(k2, k4))
             m1 == BlockOf(f, <<It(Here, "panic")>>, Unreachable)
             m2 == NewBlock(f)
  <2>1. Append(entered[k1].code, ci) = <<ci>>
    BY <1>12 DEF Looks
  <2>2. Edits(entered, cs, k1, <<ci>>, CondBr(k2, k4))
    BY <1>3, <1>5, <1>6, <1>12, <1>13, <2>1, EndIs
  <2>3. m1.code = <<It(Here, "panic")>> /\ m1.term = Unreachable /\ m2.code = << >> /\ m2.term = NoTerm
    BY DEF BlockOf, NewBlock
  <2>4. final = Checked(cs, k2, Here, f)
    BY <1>16
  <2> HIDE DEF cs, final
  <2>5. OldLooks(cs) /\ Len(cs) = N + 4 /\ cs \in Seq(BasicBlock)
    BY <1>2, <1>7, <1>11, <1>12, <2>2 DEF OldLooks, Edits, Looks
  <2>6. /\ Looks(cs, k1, <<ci>>, CondBr(k2, k4)) /\ Looks(cs, k2, << >>, NoTerm)
        /\ Looks(cs, k3, << >>, NoTerm) /\ Looks(cs, k4, << >>, NoTerm)
    BY <1>6, <1>12, <2>2 DEF Edits, Looks
  <2>7. Append(cs[k2].code, ii) = <<ii>>
    BY <2>6 DEF Looks
  <2>8. Makes(cs, final, k2, <<ii>>, CondBr(k5, k6), <<m1, m2>>)
    <3>1. Makes(cs, final, k2, Append(cs[k2].code, ii), CondBr(Len(cs) + 1, Len(cs) + 2), <<m1, m2>>)
      BY <1>2, <1>6, <2>4, <2>5, CheckedIs DEF ii
    <3>2. Len(cs) + 1 = k5 /\ Len(cs) + 2 = k6
      BY <1>8, <2>5
    <3> HIDE DEF m1, m2
    <3> QED
      BY <2>7, <3>1, <3>2
  <2> HIDE DEF m1, m2
  <2>9. Len(final) = N + 6 /\ final[k5] = m1 /\ final[k6] = m2
    <3> DEFINE ms == <<m1, m2>>
    <3>1. Len(ms) = 2 /\ ms[1] = m1 /\ ms[2] = m2 /\ 1 \in 1 .. 2 /\ 2 \in 1 .. 2
      OBVIOUS
    <3> HIDE DEF ms
    <3>2. Len(final) = Len(cs) + 2 /\ final[Len(cs) + 1] = m1 /\ final[Len(cs) + 2] = m2
      BY <2>8, <3>1 DEF Makes, ms
    <3> QED
      BY <1>8, <2>5, <3>2
  <2>10. OldLooks(final)
    BY <1>2, <1>7, <2>5, <2>8 DEF OldLooks, Makes, Looks
  <2>11. /\ Looks(final, k1, <<ci>>, CondBr(k2, k4)) /\ Looks(final, k2, <<ii>>, CondBr(k5, k6))
         /\ Looks(final, k3, << >>, NoTerm) /\ Looks(final, k4, << >>, NoTerm)
    BY <1>6, <2>5, <2>6, <2>8 DEF Makes, Looks
  <2>12. Looks(final, k5, <<It(Here, "panic")>>, Unreachable) /\ Looks(final, k6, << >>, NoTerm)
    BY <2>3, <2>9 DEF Looks
  <2> QED
    BY <1>1, <1>16, <2>9, <2>10, <2>11, <2>12 DEF LoopLooks, ci, ii
<1> QED
  BY <1>14, <1>15, <1>16

\* The test of a loop, and the check of an index, as a block made for them.
LEMMA CondEnds ==
  ASSUME NEW sr, NEW M, NEW h, NEW lab, NEW m, NEW p \in DOMAIN M, NEW q \in DOMAIN M,
         m.code = <<It(h, "cond")>>, m.term = CondBr(p, q),
         M[p] = <<h, "body">>, M[q] = <<h, "after">>,
         \A A, T : Solves(A, T, sr) => A[lab] = {It(h, "cond")}
  PROVE  Good(M, sr, m, lab, Ended)
<1>1. Holds(sr, m, lab, It(h, "cond"))
  BY MadeHolds
<1>2. \A A : Flow(A, It(h, "cond")) = <<A[<<h, "body">>], A[<<h, "after">>]>>
  BY FlowOf
<1>3. It(h, "cond").tag \in Decisions
  BY DEF It, Decisions
<1> HIDE DEF It
<1>4. \A A, T : Solves(A, T, sr) => Flow(A, It(h, "cond")) = <<A[M[p]], A[M[q]]>>
  BY <1>2
<1> QED
  BY <1>1, <1>3, <1>4, EndsBoth

LEMMA IndexEnds ==
  ASSUME NEW sr, NEW M, NEW h, NEW lab, NEW m, NEW p \in DOMAIN M, NEW q \in DOMAIN M,
         m.code = <<It(h, "index")>>, m.term = CondBr(p, q),
         M[p] = <<h, "panic">>, M[q] = <<h, "safe">>,
         \A A, T : Solves(A, T, sr) => A[lab] = {It(h, "index")} /\ A[<<h, "panic">>] = {It(h, "panic")}
  PROVE  Good(M, sr, m, lab, Ended)
<1>1. Holds(sr, m, lab, It(h, "index"))
  BY MadeHolds
<1>2. \A A : Flow(A, It(h, "index")) = <<{It(h, "panic")}, A[<<h, "safe">>]>>
  BY FlowOf
<1>3. It(h, "index").tag \in Decisions
  BY DEF It, Decisions
<1> HIDE DEF It
<1>4. \A A, T : Solves(A, T, sr) => Flow(A, It(h, "index")) = <<A[M[p]], A[M[q]]>>
  BY <1>2
<1> QED
  BY <1>1, <1>3, <1>4, EndsBoth

\* What a solution says of the places of a loop at h.
LoopSaid(A, T, h, form) ==
  /\ A[<<h, "panic">>] = {It(h, "panic")}
  /\ A[<<h, "cond">>] = {It(h, IF form = "checked" THEN "index" ELSE "cond")}
  /\ form = "range"   => A[<<h, "body">>] = {It(h, "index")} /\ Same(A, T, <<h, "safe">>, <<h + 1, "at">>)
  /\ form # "range"   => Same(A, T, <<h, "body">>, <<h + 1, "at">>)
  /\ form = "checked" => A[<<h, "safe">>] = {It(h, "cond")}

\* The states of the blocks a loop makes.
LoopStates(form, pl) ==
  <<Ended, IF form = "range" THEN Ended ELSE OpenAt(pl), New, New, Ended,
    IF form = "range" THEN OpenAt(pl) ELSE Ended>>
LoopPlaces(h) ==
  <<<<h, "cond">>, <<h, "body">>, <<h, "post">>, <<h, "after">>, <<h, "panic">>, <<h, "safe">>>>

LoopShape(bs, h, form, k1, k2, k3, k4, k5, k6) ==
  /\ Looks(bs, k3, << >>, NoTerm) /\ Looks(bs, k4, << >>, NoTerm)
  /\ form = "checked" => /\ Looks(bs, k1, <<It(h, "index")>>, CondBr(k5, k6))
                         /\ Looks(bs, k2, << >>, NoTerm)
                         /\ Looks(bs, k5, <<It(h, "panic")>>, Unreachable)
                         /\ Looks(bs, k6, <<It(h, "cond")>>, CondBr(k2, k4))
  /\ form = "range"   => /\ Looks(bs, k1, <<It(h, "cond")>>, CondBr(k2, k4))
                         /\ Looks(bs, k2, <<It(h, "index")>>, CondBr(k5, k6))
                         /\ Looks(bs, k5, <<It(h, "panic")>>, Unreachable)
                         /\ Looks(bs, k6, << >>, NoTerm)
  /\ form = "plain"   => /\ Looks(bs, k1, <<It(h, "cond")>>, CondBr(k2, k4))
                         /\ Looks(bs, k2, << >>, NoTerm)
LoopAims(M, h, form, k1, k2, k3, k4, k5, k6) ==
  /\ k1 \in DOMAIN M /\ k2 \in DOMAIN M /\ k3 \in DOMAIN M /\ k4 \in DOMAIN M
  /\ M[k1] = <<h, "cond">> /\ M[k2] = <<h, "body">> /\ M[k3] = <<h, "post">> /\ M[k4] = <<h, "after">>
  /\ form # "plain" => /\ k5 \in DOMAIN M /\ k6 \in DOMAIN M
                       /\ M[k5] = <<h, "panic">> /\ M[k6] = <<h, "safe">>
LoopFine(M, sr, bs, h, form, k1, k2, k3, k4, k5, k6) ==
  /\ Good(M, sr, bs[k1], <<h, "cond">>, Ended)
  /\ Good(M, sr, bs[k3], <<h, "post">>, New) /\ Good(M, sr, bs[k4], <<h, "after">>, New)
  /\ form # "range" => Good(M, sr, bs[k2], <<h, "body">>, OpenAt(<<h + 1, "at">>)) /\ bs[k2].term = NoTerm
  /\ form = "range" => /\ Good(M, sr, bs[k2], <<h, "body">>, Ended)
                       /\ Good(M, sr, bs[k6], <<h, "safe">>, OpenAt(<<h + 1, "at">>))
                       /\ bs[k6].term = NoTerm
  /\ form # "plain" => Good(M, sr, bs[k5], <<h, "panic">>, Ended)
  /\ form = "checked" => Good(M, sr, bs[k6], <<h, "safe">>, Ended)

LEMMA LoopGood ==
  ASSUME NEW sr, NEW M, NEW h \in Nat, NEW form \in {"plain", "checked", "range"},
         NEW k1, NEW k2, NEW k3, NEW k4, NEW k5, NEW k6, LoopAims(M, h, form, k1, k2, k3, k4, k5, k6),
         \A A, T : Solves(A, T, sr) => LoopSaid(A, T, h, form),
         NEW bs, LoopShape(bs, h, form, k1, k2, k3, k4, k5, k6)
  PROVE  LoopFine(M, sr, bs, h, form, k1, k2, k3, k4, k5, k6)
<1>0. /\ k1 \in DOMAIN M /\ k2 \in DOMAIN M /\ k3 \in DOMAIN M /\ k4 \in DOMAIN M
      /\ M[k2] = <<h, "body">> /\ M[k4] = <<h, "after">>
      /\ form # "plain" => /\ k5 \in DOMAIN M /\ k6 \in DOMAIN M
                           /\ M[k5] = <<h, "panic">> /\ M[k6] = <<h, "safe">>
  BY DEF LoopAims
<1> DEFINE m1 == bs[k1]
           m2 == bs[k2]
           m5 == bs[k5]
           m6 == bs[k6]
<1>1. Good(M, sr, bs[k3], <<h, "post">>, New) /\ Good(M, sr, bs[k4], <<h, "after">>, New)
  BY MadeNew DEF Looks, LoopShape
<1>2. CASE form = "plain"
  <2>1. Good(M, sr, m1, <<h, "cond">>, Ended)
    <3>1. m1.code = <<It(h, "cond")>> /\ m1.term = CondBr(k2, k4)
      BY <1>2 DEF Looks, LoopShape
    <3>2. \A A, T : Solves(A, T, sr) => A[<<h, "cond">>] = {It(h, "cond")}
      BY <1>2 DEF LoopSaid
    <3> HIDE DEF m1, It
    <3> QED
      BY <1>0, <3>1, <3>2, CondEnds
  <2>2. Good(M, sr, m2, <<h, "body">>, OpenAt(<<h + 1, "at">>)) /\ m2.term = NoTerm
    <3>1. m2.code = << >> /\ m2.term = NoTerm
      BY <1>2 DEF Looks, LoopShape
    <3>2. \A A, T : Solves(A, T, sr) => Same(A, T, <<h, "body">>, <<h + 1, "at">>)
      BY <1>2 DEF LoopSaid
    <3> HIDE DEF m2
    <3> QED
      BY <3>1, <3>2, EmptyOpen
  <2> QED
    BY <1>1, <1>2, <2>1, <2>2 DEF LoopFine
<1>3. CASE form = "checked"
  <2>1. Good(M, sr, m1, <<h, "cond">>, Ended)
    <3>1. m1.code = <<It(h, "index")>> /\ m1.term = CondBr(k5, k6)
      BY <1>3 DEF Looks, LoopShape
    <3>2. \A A, T : Solves(A, T, sr) => A[<<h, "cond">>] = {It(h, "index")} /\ A[<<h, "panic">>] = {It(h, "panic")}
      BY <1>3 DEF LoopSaid
    <3>3. k5 \in DOMAIN M /\ k6 \in DOMAIN M /\ M[k5] = <<h, "panic">> /\ M[k6] = <<h, "safe">>
      BY <1>0, <1>3
    <3> HIDE DEF m1, It
    <3> QED
      BY <3>1, <3>2, <3>3, IndexEnds
  <2>2. Good(M, sr, m2, <<h, "body">>, OpenAt(<<h + 1, "at">>)) /\ m2.term = NoTerm
    <3>1. m2.code = << >> /\ m2.term = NoTerm
      BY <1>3 DEF Looks, LoopShape
    <3>2. \A A, T : Solves(A, T, sr) => Same(A, T, <<h, "body">>, <<h + 1, "at">>)
      BY <1>3 DEF LoopSaid
    <3> HIDE DEF m2
    <3> QED
      BY <3>1, <3>2, EmptyOpen
  <2>3. Good(M, sr, m5, <<h, "panic">>, Ended)
    <3>1. m5.code = <<It(h, "panic")>> /\ m5.term = Unreachable
      BY <1>3 DEF Looks, LoopShape
    <3>2. \A A, T : Solves(A, T, sr) => A[<<h, "panic">>] = {It(h, "panic")}
      BY DEF LoopSaid
    <3> HIDE DEF m5, It
    <3> QED
      BY <3>1, <3>2, PanicEnds
  <2>4. Good(M, sr, m6, <<h, "safe">>, Ended)
    <3>1. m6.code = <<It(h, "cond")>> /\ m6.term = CondBr(k2, k4)
      BY <1>3 DEF Looks, LoopShape
    <3>2. \A A, T : Solves(A, T, sr) => A[<<h, "safe">>] = {It(h, "cond")}
      BY <1>3 DEF LoopSaid
    <3> HIDE DEF m6, It
    <3> QED
      BY <1>0, <3>1, <3>2, CondEnds
  <2> QED
    BY <1>1, <1>3, <2>1, <2>2, <2>3, <2>4 DEF LoopFine
<1>4. CASE form = "range"
  <2>1. Good(M, sr, m1, <<h, "cond">>, Ended)
    <3>1. m1.code = <<It(h, "cond")>> /\ m1.term = CondBr(k2, k4)
      BY <1>4 DEF Looks, LoopShape
    <3>2. \A A, T : Solves(A, T, sr) => A[<<h, "cond">>] = {It(h, "cond")}
      BY <1>4 DEF LoopSaid
    <3> HIDE DEF m1, It
    <3> QED
      BY <1>0, <3>1, <3>2, CondEnds
  <2>2. Good(M, sr, m2, <<h, "body">>, Ended)
    <3>1. m2.code = <<It(h, "index")>> /\ m2.term = CondBr(k5, k6)
      BY <1>4 DEF Looks, LoopShape
    <3>2. \A A, T : Solves(A, T, sr) => A[<<h, "body">>] = {It(h, "index")} /\ A[<<h, "panic">>] = {It(h, "panic")}
      BY <1>4 DEF LoopSaid
    <3>3. k5 \in DOMAIN M /\ k6 \in DOMAIN M /\ M[k5] = <<h, "panic">> /\ M[k6] = <<h, "safe">>
      BY <1>0, <1>4
    <3> HIDE DEF m2, It
    <3> QED
      BY <3>1, <3>2, <3>3, IndexEnds
  <2>3. Good(M, sr, m5, <<h, "panic">>, Ended)
    <3>1. m5.code = <<It(h, "panic")>> /\ m5.term = Unreachable
      BY <1>4 DEF Looks, LoopShape
    <3>2. \A A, T : Solves(A, T, sr) => A[<<h, "panic">>] = {It(h, "panic")}
      BY DEF LoopSaid
    <3> HIDE DEF m5, It
    <3> QED
      BY <3>1, <3>2, PanicEnds
  <2>4. Good(M, sr, m6, <<h, "safe">>, OpenAt(<<h + 1, "at">>)) /\ m6.term = NoTerm
    <3>1. m6.code = << >> /\ m6.term = NoTerm
      BY <1>4 DEF Looks, LoopShape
    <3>2. \A A, T : Solves(A, T, sr) => Same(A, T, <<h, "safe">>, <<h + 1, "at">>)
      BY <1>4 DEF LoopSaid
    <3> HIDE DEF m6
    <3> QED
      BY <3>1, <3>2, EmptyOpen
  <2> QED
    BY <1>1, <1>4, <2>1, <2>2, <2>3, <2>4 DEF LoopFine
<1> QED
  BY <1>2, <1>3, <1>4

\* The blocks of a loop are blocks made.
LEMMA LoopMakes ==
  ASSUME Len(blocks) \in Nat, OldLooks(blocks'), NEW n \in Nat, Len(blocks') = Len(blocks) + n
  PROVE  \E made : /\ Len(made) = n /\ \A i \in 1 .. n : made[i] = blocks'[Fresh(i)]
                   /\ Makes(blocks, blocks', contextBlock, Append(blocks[contextBlock].code, It(Here, "init")),
                            Br(Fresh(1)), made)
<1> DEFINE made == [i \in 1 .. n |-> blocks'[Fresh(i)]]
<1>1. Len(made) = n /\ \A i \in 1 .. n : made[i] = blocks'[Fresh(i)]
  OBVIOUS
<1> HIDE DEF made
<1>2. Makes(blocks, blocks', contextBlock, Append(blocks[contextBlock].code, It(Here, "init")),
            Br(Fresh(1)), made)
  <2>1. \A i \in 1 .. Len(made) : blocks'[Len(blocks) + i] = made[i]
    BY <1>1 DEF Fresh
  <2> QED
    BY <1>1, <2>1 DEF Makes, OldLooks, Looks
<1> QED
  BY <1>1, <1>2

LEMMA BeginForTraced ==
  ASSUME Known, TypeOK', Extra = {}, NEW L, NEW S, Traced(L, S),
         NEW form \in {"plain", "checked", "range"}, BeginFor(form)
  PROVE  \E M, R : Traced(M, R)'
<1> DEFINE t0   == [op |-> "for", of |-> 0, form |-> form]
           x    == It(Here, "init")
           n    == IF form = "plain" THEN 4 ELSE 6
           c    == Append(blocks[contextBlock].code, x)
           t    == Br(Fresh(1))
           next == <<Here + 1, "at">>
           ls   == LoopPlaces(Here)
           ss   == LoopStates(form, next)
           go   == IF form = "range" THEN 6 ELSE 2
           g    == [kind |-> "for", at |-> Here, entry |-> Heights,
                    cond |-> Fresh(1), post |-> Fresh(3), after |-> Fresh(4)]
<1>0. CanStand("for") /\ Top.kind # "append"
  BY DEF BeginFor, StatementAllowed, Open, CanStand
<1>1. /\ src' = Append(src, t0) /\ t0 \in Token
      /\ contextBlock' = Fresh(go) /\ frames' = Append(frames, g)
      /\ UNCHANGED <<funcs, contextCondAfter>>
  <2>1. src' = Append(src, t0) /\ t0 \in Token
    BY DEF BeginFor, Put, Token, Ops, Forms
  <2>2. contextBlock' = Fresh(go) /\ frames' = Append(frames, g) /\ UNCHANGED <<funcs, contextCondAfter>>
    BY DEF BeginFor
  <2> QED
    BY <2>1, <2>2
<1>2. Prepared(S)
  BY <1>0, PreparedIs
<1>3. /\ contextBlock \in 1 .. Len(blocks) /\ S[contextBlock] = OpenAt(<<Here, "at">>)
      /\ Here \in Nat /\ Len(blocks) \in Nat /\ frames \in Seq(Frame) /\ TypeOK /\ OwnedNow
  BY <1>2 DEF Prepared
<1>4. PICK k1, k2, k3, k4, k5, k6 : /\ k1 = Fresh(1) /\ k2 = Fresh(2) /\ k3 = Fresh(3)
                                    /\ k4 = Fresh(4) /\ k5 = Fresh(5) /\ k6 = Fresh(6)
  OBVIOUS
<1>5. k1 \in Block /\ k3 \in Block /\ k4 \in Block
  BY <1>3, <1>4, FreshBlocks
<1>6. x \in Item
  BY <1>3, HereItems
<1>7. g \in Frame /\ g.kind = "for" /\ g.at = Here /\ g.cond = k1 /\ g.post = k3 /\ g.after = k4
  <2>1. g \in ForFrame
    BY <1>3, <1>4, <1>5, Numbers DEF ForFrame
  <2> QED
    BY <1>4, <2>1 DEF Frame
<1> HIDE DEF g
<1>8. LoopLooks(blocks', form, k1, k2, k3, k4, k5, k6)
  BY <1>2, <1>4, LoopBlocks
<1>9. n \in Nat /\ n \in {4, 6} /\ (n = 6 <=> form # "plain") /\ go \in 1 .. n
  OBVIOUS
<1>10. PICK made : /\ Len(made) = n /\ \A i \in 1 .. n : made[i] = blocks'[Fresh(i)]
                   /\ Makes(blocks, blocks', contextBlock, c, t, made)
  <2>1. OldLooks(blocks') /\ Len(blocks') = Len(blocks) + n
    BY <1>8 DEF LoopLooks
  <2> HIDE DEF n
  <2> QED
    BY <1>3, <1>9, <2>1, LoopMakes
<1>11. PICK M, R : With(L, S, M, R, contextBlock, Ended, ls, ss, n)
  <2> HIDE DEF n, ls, ss
  <2> QED
    BY <1>3, <1>9, WithExists
<1>12. /\ Extends(src', src)
       /\ \A A, T : Solves(A, T, src') => A[<<Here, "at">>] = {x} /\ LoopSaid(A, T, Here, form)
  <2>1. Extends(src', src) /\ \A A, T : Solves(A, T, src') => Says(A, T, t0, Here, CasesBefore(src', Here))
    BY <1>1, Speaks
  <2>2. \A A, T : Says(A, T, t0, Here, CasesBefore(src', Here)) => A[<<Here, "at">>] = {x}
    BY DEF Says
  <2>3. \A A, T : Says(A, T, t0, Here, CasesBefore(src', Here)) => LoopSaid(A, T, Here, form)
    <3> HIDE DEF It
    <3> QED
      BY DEF Says, LoopSaid
  <2> QED
    BY <2>1, <2>2, <2>3
<1>13. /\ ls[1] = <<Here, "cond">> /\ ls[2] = <<Here, "body">> /\ ls[3] = <<Here, "post">>
       /\ ls[4] = <<Here, "after">> /\ ls[5] = <<Here, "panic">> /\ ls[6] = <<Here, "safe">>
       /\ ss[1] = Ended /\ ss[3] = New /\ ss[4] = New /\ ss[5] = Ended
       /\ form # "range" => ss[2] = OpenAt(next) /\ ss[6] = Ended
       /\ form = "range" => ss[2] = Ended /\ ss[6] = OpenAt(next)
       /\ ss[go] = OpenAt(next)
  BY DEF LoopPlaces, LoopStates
<1>14. \A i \in 1 .. 6 : ls[i] \in Places
  <2>1. /\ ls[1] \in Places /\ ls[2] \in Places /\ ls[3] \in Places /\ ls[4] \in Places
        /\ ls[5] \in Places /\ ls[6] \in Places
    BY <1>3, <1>13 DEF Places, Marks
  <2> HIDE DEF ls
  <2> QED
    BY <2>1
<1> HIDE DEF ls, ss
<1>15. /\ \A i \in 1 .. n : Fresh(i) \in DOMAIN M /\ M[Fresh(i)] = ls[i] /\ R[Fresh(i)] = ss[i]
  <2> HIDE DEF n
  <2> QED
    BY <1>3, <1>9, <1>11, WithMade
<1>16. /\ k1 \in DOMAIN M /\ k2 \in DOMAIN M /\ k3 \in DOMAIN M /\ k4 \in DOMAIN M
       /\ M[k1] = <<Here, "cond">> /\ M[k2] = <<Here, "body">> /\ M[k3] = <<Here, "post">>
       /\ M[k4] = <<Here, "after">> /\ R[k3] = New /\ R[k4] = New
       /\ form # "plain" => /\ k5 \in DOMAIN M /\ k6 \in DOMAIN M
                            /\ M[k5] = <<Here, "panic">> /\ M[k6] = <<Here, "safe">>
  <2>1. 1 \in 1 .. n /\ 2 \in 1 .. n /\ 3 \in 1 .. n /\ 4 \in 1 .. n
        /\ (form # "plain" => 5 \in 1 .. n /\ 6 \in 1 .. n)
    OBVIOUS
  <2> HIDE DEF n, t
  <2> QED
    BY <1>4, <1>13, <1>15, <2>1
<1>17. Good(M, src', blocks'[contextBlock], L[contextBlock], Ended)
  <2> DEFINE k == blocks'[contextBlock]
  <2>1. Holds(src', k, L[contextBlock], x)
    <3> HIDE DEF x, t
    <3> QED
      BY <1>0, <1>6, <1>10, <1>12, Emitted
  <2>2. k.term = Br(k1) /\ x.tag \notin Decisions
    BY <1>4, <1>10 DEF Makes, It, Decisions
  <2>3. \A A : Flow(A, x) = <<A[<<Here, "cond">>]>>
    BY FlowOf
  <2> HIDE DEF x, k
  <2>4. \A A, T : Solves(A, T, src') => Flow(A, x) = <<A[M[k1]]>> /\ A[M[k1]] = A[M[k1]]
    BY <1>16, <2>3
  <2> QED
    BY <1>16, <2>1, <2>2, <2>4, EndsOne DEF k
<1> DEFINE bs == blocks'
<1>18. /\ Good(M, src', bs[k1], <<Here, "cond">>, Ended)
       /\ Good(M, src', bs[k3], <<Here, "post">>, New) /\ Good(M, src', bs[k4], <<Here, "after">>, New)
       /\ form # "range" => Good(M, src', bs[k2], <<Here, "body">>, OpenAt(next)) /\ bs[k2].term = NoTerm
       /\ form = "range" => /\ Good(M, src', bs[k2], <<Here, "body">>, Ended)
                            /\ Good(M, src', bs[k6], <<Here, "safe">>, OpenAt(next))
                            /\ bs[k6].term = NoTerm
       /\ form # "plain" => Good(M, src', bs[k5], <<Here, "panic">>, Ended)
       /\ form = "checked" => Good(M, src', bs[k6], <<Here, "safe">>, Ended)
  <2>1. LoopShape(bs, Here, form, k1, k2, k3, k4, k5, k6)
    BY <1>8, Zenon DEF LoopLooks, LoopShape
  <2>2. \A A, T : Solves(A, T, src') => LoopSaid(A, T, Here, form)
    BY <1>12
  <2>3. LoopAims(M, Here, form, k1, k2, k3, k4, k5, k6)
    BY <1>16 DEF LoopAims
  <2> HIDE DEF bs, It
  <2>4. LoopFine(M, src', bs, Here, form, k1, k2, k3, k4, k5, k6)
    BY <1>3, <2>1, <2>2, <2>3, LoopGood
  <2> QED
    BY <2>4 DEF LoopFine
<1>19. Writes(L, S, M, R, contextBlock, c, t, made, Ended, ls, ss)
  <2>1. bs[k3].term = NoTerm /\ bs[k4].term = NoTerm
    BY <1>8 DEF LoopLooks, Looks
  <2>2. /\ made[1] = bs[k1] /\ made[2] = bs[k2] /\ made[3] = bs[k3] /\ made[4] = bs[k4]
        /\ form # "plain" => made[5] = bs[k5] /\ made[6] = bs[k6]
    <3>1. 1 \in 1 .. n /\ 2 \in 1 .. n /\ 3 \in 1 .. n /\ 4 \in 1 .. n
          /\ (form # "plain" => 5 \in 1 .. n /\ 6 \in 1 .. n)
      OBVIOUS
    <3> HIDE DEF n, t, c
    <3> QED
      BY <1>4, <1>10, <3>1
  <2> HIDE DEF bs, t, c, next
  <2>3. \A i \in 1 .. 4 : Good(M, src', made[i], ls[i], ss[i]) /\ (ss[i] = Ended \/ made[i].term = NoTerm)
    <3>1. /\ Good(M, src', made[1], ls[1], ss[1]) /\ ss[1] = Ended
          /\ Good(M, src', made[3], ls[3], ss[3]) /\ made[3].term = NoTerm
          /\ Good(M, src', made[4], ls[4], ss[4]) /\ made[4].term = NoTerm
      BY <1>13, <1>18, <2>1, <2>2
    <3>2. Good(M, src', made[2], ls[2], ss[2]) /\ (ss[2] = Ended \/ made[2].term = NoTerm)
      BY <1>13, <1>18, <2>2
    <3> QED
      BY <3>1, <3>2
  <2>4. form # "plain" => \A i \in 5 .. 6 : /\ Good(M, src', made[i], ls[i], ss[i])
                                            /\ ss[i] = Ended \/ made[i].term = NoTerm
    <3>1. form # "plain" => Good(M, src', made[5], ls[5], ss[5]) /\ ss[5] = Ended
      BY <1>13, <1>18, <2>2
    <3>2. form # "plain" => Good(M, src', made[6], ls[6], ss[6]) /\ (ss[6] = Ended \/ made[6].term = NoTerm)
      BY <1>13, <1>18, <2>2
    <3> QED
      BY <3>1, <3>2
  <2>5. \A i \in 1 .. n : i \in 1 .. 6 /\ (i \in 1 .. 4 \/ (form # "plain" /\ i \in 5 .. 6))
    OBVIOUS
  <2> HIDE DEF n
  <2>6. \A i \in 1 .. n : /\ Good(M, src', made[i], ls[i], ss[i])
                          /\ ss[i] = Ended \/ made[i].term = NoTerm
                          /\ ls[i] \in Places
    BY <1>14, <2>3, <2>4, <2>5
  <2> QED
    BY <1>9, <1>10, <1>11, <1>17, <2>6 DEF Writes
<1>20. made[go].term = NoTerm /\ go \in 1 .. Len(made) /\ t0.op = "for"
  <2>1. made[go] = blocks'[Fresh(go)] /\ go \in 1 .. Len(made)
    <3> HIDE DEF n, go, t, c
    <3> QED
      BY <1>9, <1>10
  <2>2. Fresh(go) = IF form = "range" THEN k6 ELSE k2
    BY <1>4
  <2> HIDE DEF go, n, t, c
  <2> QED
    BY <1>18, <2>1, <2>2
<1>21. FrameTraced(g, contextBlock', M, R, blocks', contextCondAfter')
  <2>1. ForTraced(g, M, R)
    <3> HIDE DEF t0, n, t, c, x, go
    <3> QED
      BY <1>7, <1>16 DEF ForTraced, MadeFor
  <2> QED
    BY <1>7, <2>1 DEF FrameTraced, IfTraced, FuncTraced, AppendTraced
<1>22. ss[go] = OpenAt(<<Here + 1, "at">>)
  BY <1>13
<1> HIDE DEF t, c, t0, n, go
<1>23. Current(M, R)'
  BY <1>1, <1>19, <1>20, <1>22, GoesOn
<1>24. SwitchTraced(g, contextBlock', M, R, src')
  BY <1>7 DEF SwitchTraced
<1>25. Traced(M, R)'
  <2>1. g.kind # "func" /\ contextCondAfter' = contextCondAfter /\ UNCHANGED funcs
    BY <1>1, <1>7
  <2> QED
    BY <1>0, <1>1, <1>2, <1>7, <1>12, <1>19, <1>21, <1>23, <1>24, <2>1, PushMakes
<1> QED
  BY <1>25

-----------------------------------------------------------------------------
(* Switch                                                                    *)

\* A block that holds the item of a switch waits for its cases.
LEMMA HoldsChoosing ==
  ASSUME NEW sr, NEW L, NEW k, NEW lab, NEW p, Holds(sr, k, lab, It(p, "switch"))
  PROVE  Good(L, sr, k, lab, Choosing(p))
<1> SUFFICES ASSUME lab # Nowhere PROVE Good(L, sr, k, lab, Choosing(p))
  BY DEF Good
<1>1. Choosing(p)[1] = "switch" /\ Choosing(p)[2][1] = p
  BY DEF Choosing
<1>2. k.code # << >> /\ Last(k.code) = It(p, "switch")
  BY DEF Holds
<1>3. Shaped(L, k, Choosing(p))
  BY <1>1, <1>2 DEF Shaped
<1>4. \A A, T : Solves(A, T, sr) => Right(A, T, L, k, lab, Choosing(p))
  BY <1>1 DEF Holds, Right
<1> QED
  BY <1>3, <1>4 DEF Good

\* The blocks made in a step, as the step leaves them.
LEMMA MakesSome ==
  ASSUME Len(blocks) \in Nat, NEW b, blocks' \in Seq(BasicBlock), NEW n \in Nat, Len(blocks') = Len(blocks) + n,
         \A x \in 1 .. Len(blocks) : x # b => blocks'[x] = blocks[x],
         blocks'[b].fn = blocks[b].fn
  PROVE  \E made : /\ Len(made) = n /\ \A i \in 1 .. n : made[i] = blocks'[Fresh(i)]
                   /\ Makes(blocks, blocks', b, blocks'[b].code, blocks'[b].term, made)
<1> DEFINE made == [i \in 1 .. n |-> blocks'[Fresh(i)]]
<1>1. Len(made) = n /\ \A i \in 1 .. n : made[i] = blocks'[Fresh(i)]
  OBVIOUS
<1> HIDE DEF made
<1>2. Makes(blocks, blocks', b, blocks'[b].code, blocks'[b].term, made)
  <2>1. \A i \in 1 .. Len(made) : blocks'[Len(blocks) + i] = made[i]
    BY <1>1 DEF Fresh
  <2> QED
    BY <1>1, <2>1 DEF Makes
<1> QED
  BY <1>1, <1>2

\* The blocks of a switch, when it is begun.
LEMMA SwitchMakes ==
  ASSUME NEW S, Prepared(S), NEW hasDefault \in BOOLEAN, BeginSwitch(hasDefault),
         NEW k1, NEW k2, k1 = Fresh(1), k2 = Fresh(2)
  PROVE  \E made : /\ Len(made) = 2 /\ made[1] = blocks'[k1] /\ made[2] = blocks'[k2]
                   /\ Makes(blocks, blocks', contextBlock, Append(blocks[contextBlock].code, It(Here, "switch")),
                            blocks[contextBlock].term, made)
                   /\ Looks(blocks', k1, << >>, NoTerm)
                   /\ Looks(blocks', k2, << >>, IF hasDefault THEN NoTerm ELSE Br(k1))
<1> DEFINE f   == blocks[contextBlock].fn
           x   == It(Here, "switch")
           c   == Append(blocks[contextBlock].code, x)
           u   == blocks[contextBlock].term
           es  == Emit(blocks, contextBlock, x)
           m   == NewBlock(f)
           two == <<m, m>>
           ds  == es \o two
<1>1. blocks' = IF hasDefault THEN ds ELSE Terminate(ds, k2, Br(k1))
  BY DEF BeginSwitch, It
<1>2. /\ blocks \in Seq(BasicBlock) /\ contextBlock \in 1 .. Len(blocks) /\ f \in Nat \ {0}
      /\ Len(blocks) \in Nat /\ Here \in Nat
  BY DEF Prepared
<1>3. x \in Item
  BY <1>2, HereItems
<1>4. m \in BasicBlock /\ m.code = << >> /\ m.term = NoTerm
  <2> HIDE DEF f
  <2>1. m \in BasicBlock
    BY <1>2, MadeOf
  <2> QED
    BY <2>1 DEF NewBlock, BlockOf
<1> HIDE DEF m, f
<1>5. two \in Seq(BasicBlock) /\ Len(two) = 2 /\ two[1] = m /\ two[2] = m
  BY <1>4
<1> HIDE DEF two
<1>6. Makes(blocks, ds, contextBlock, c, u, two)
  <2>1. Edits(blocks, es, contextBlock, c, u)
    <3> HIDE DEF x
    <3> QED
      BY <1>2, <1>3, EmitIs
  <2> HIDE DEF es, c, u
  <2> QED
    BY <1>2, <1>5, <2>1, ConcatIs
<1> HIDE DEF ds, c, u
<1>7. k1 = Len(blocks) + 1 /\ k2 = Len(blocks) + 2
  BY DEF Fresh
<1>8. ds \in Seq(BasicBlock) /\ ds[k1] = m /\ ds[k2] = m /\ k2 \in 1 .. Len(ds) /\ Len(ds) = Len(blocks) + 2
      /\ k1 # k2 /\ \A y \in 1 .. Len(blocks) : y # k2
  <2>1. 1 \in 1 .. 2 /\ 2 \in 1 .. 2
    OBVIOUS
  <2>2. ds \in Seq(BasicBlock) /\ Len(ds) = Len(blocks) + 2 /\ ds[k1] = m /\ ds[k2] = m
    BY <1>5, <1>6, <1>7, <2>1 DEF Makes
  <2> QED
    BY <1>2, <1>7, <2>2
<1>9. CASE hasDefault
  <2>1. Looks(ds, k1, << >>, NoTerm) /\ Looks(ds, k2, << >>, NoTerm) /\ blocks' = ds
    BY <1>1, <1>4, <1>8, <1>9 DEF Looks
  <2> QED
    BY <1>5, <1>6, <1>8, <1>9, <2>1 DEF c, u
<1>10. CASE ~ hasDefault
  <2> DEFINE fs == Terminate(ds, k2, Br(k1))
  <2>1. Br(k1) \in Term
    BY <1>2, <1>7, TermTypes DEF Block
  <2>2. Edits(ds, fs, k2, ds[k2].code, Br(k1))
    BY <1>8, <2>1, TerminateIs
  <2> HIDE DEF fs
  <2>3. /\ fs \in Seq(BasicBlock) /\ Len(fs) = Len(blocks) + 2 /\ fs[k1] = m /\ fs[k2].code = << >>
        /\ fs[k2].term = Br(k1)
        /\ \A y \in 1 .. Len(blocks) : fs[y] = ds[y]
    <3>1. k1 \in 1 .. Len(ds) /\ \A y \in 1 .. Len(blocks) : y \in 1 .. Len(ds)
      BY <1>2, <1>7, <1>8
    <3> QED
      BY <1>4, <1>8, <2>2, <3>1 DEF Edits
  <2>4. Looks(fs, k1, << >>, NoTerm) /\ Looks(fs, k2, << >>, Br(k1)) /\ blocks' = fs
    BY <1>1, <1>4, <1>10, <2>3 DEF Looks, fs
  <2>5. /\ fs[contextBlock].code = c /\ fs[contextBlock].term = u
        /\ fs[contextBlock].fn = blocks[contextBlock].fn
        /\ \A y \in 1 .. Len(blocks) : y # contextBlock => fs[y] = blocks[y]
    BY <1>2, <1>6, <2>3 DEF Makes
  <2>6. PICK made : /\ Len(made) = 2 /\ \A i \in 1 .. 2 : made[i] = fs[Fresh(i)]
                    /\ Makes(blocks, blocks', contextBlock, c, u, made)
    <3>1. blocks' = fs
      BY <2>4
    <3> QED
      BY <1>2, <2>3, <2>5, <3>1, MakesSome
  <2>7. made[1] = fs[k1] /\ made[2] = fs[k2]
    BY <2>6
  <2> QED
    BY <1>10, <2>4, <2>6, <2>7 DEF c, u
<1> QED
  BY <1>9, <1>10

\* Between the bodies of a switch.
LEMMA CurrentBetween ==
  ASSUME Known, NEW t \in Token, src' = Append(src, t), t.op \notin {"break", "continue", "return"},
         NEW M, NEW R, Last(frames').kind = "switch", Last(frames').open = "none"
  PROVE  Current(M, R)'
<1>1. Last(src') = t
  <2>1. src \in Seq(Token)
    BY DEF Known, TypeOK
  <2> QED
    BY <2>1, PutIs
<1>2. ~ AfterJump'
  BY <1>1 DEF AfterJump
<1> QED
  BY <1>2 DEF Current, Top

\* A switch just begun has no cases.
LEMMA NoCases ==
  ASSUME src \in Seq(Token), TokensRight, NEW t \in Token, src' = Append(src, t), t.op # "case",
         NEW f, f.at = Here, f.cases = << >>, f.through = << >>, NEW M, NEW R
  PROVE  CasesTraced(f, << >>, M, R, src')
<1>1. CaseTokens(Here, src') = {}
  <2> SUFFICES ASSUME NEW q \in 1 .. Len(src'), src'[q].op = "case", src'[q].of = Here PROVE FALSE
    BY DEF CaseTokens
  <2>1. q \in 1 .. Len(src) /\ src'[q] = src[q] /\ q < Here
    BY PutIs
  <2>2. src[q].of < q /\ src[q].of \in Nat /\ q \in Nat
    <3>1. src[q] \in Token /\ src[q].of < q
      BY <2>1, ElementOfSeq DEF TokensRight
    <3> QED
      BY <2>1, <3>1 DEF Token
  <2>3. Here \in Nat
    BY PutIs
  <2> QED
    BY <2>1, <2>2, <2>3
<1>2. Len(f.cases) = 0 /\ Len(f.through) = 0 /\ 1 .. 0 = {}
  OBVIOUS
<1>3. Orders(<< >>, 0, {})
  <2>1. << >> \in [1 .. 0 -> {}]
    BY <1>2
  <2> QED
    BY <1>2, <2>1 DEF Orders
<1> QED
  BY <1>1, <1>2, <1>3 DEF CasesTraced

LEMMA BeginSwitchTraced ==
  ASSUME Known, TypeOK', Extra = {}, NEW L, NEW S, Traced(L, S), NEW hasDefault \in BOOLEAN,
         BeginSwitch(hasDefault)
  PROVE  \E M, R : Traced(M, R)'
<1> DEFINE t0   == [op |-> "switch", of |-> 0, form |-> IF hasDefault THEN "default" ELSE "plain"]
           x    == It(Here, "switch")
           c    == Append(blocks[contextBlock].code, x)
           t    == blocks[contextBlock].term
           next == <<Here + 1, "at">>
           st   == Choosing(Here)
           ls   == <<<<Here, "after">>, <<Here, "dflt">>>>
           ss   == <<New, IF hasDefault THEN OpenAt(next) ELSE Ended>>
           g    == [kind |-> "switch", at |-> Here, entry |-> Heights, hasDefault |-> hasDefault,
                    open |-> IF hasDefault THEN "default" ELSE "none", pre |-> contextBlock,
                    dflt |-> Fresh(2), after |-> Fresh(1), cases |-> << >>, through |-> << >>]
<1>0. CanStand("switch") /\ Top.kind # "append"
  BY DEF BeginSwitch, StatementAllowed, Open, CanStand
<1>1. /\ src' = Append(src, t0) /\ t0 \in Token
      /\ contextBlock' = IF hasDefault THEN Fresh(2) ELSE contextBlock
      /\ frames' = Append(frames, g) /\ UNCHANGED <<funcs, contextCondAfter>>
  <2>1. src' = Append(src, t0) /\ t0 \in Token
    BY DEF BeginSwitch, Put, Token, Ops, Forms
  <2>2. /\ contextBlock' = IF hasDefault THEN Fresh(2) ELSE contextBlock
        /\ frames' = Append(frames, g) /\ UNCHANGED <<funcs, contextCondAfter>>
    BY DEF BeginSwitch, stacks
  <2> QED
    BY <2>1, <2>2
<1>2. Prepared(S)
  BY <1>0, PreparedIs
<1>3. /\ contextBlock \in 1 .. Len(blocks) /\ S[contextBlock] = OpenAt(<<Here, "at">>)
      /\ Here \in Nat /\ Len(blocks) \in Nat /\ frames \in Seq(Frame) /\ TypeOK /\ OwnedNow
  BY <1>2 DEF Prepared
<1>4. PICK k1, k2 : k1 = Fresh(1) /\ k2 = Fresh(2)
  OBVIOUS
<1>5. k1 \in Block /\ k2 \in Block /\ contextBlock \in Block
  BY <1>3, <1>4, FreshBlocks DEF Block
<1>6. x \in Item
  BY <1>3, HereItems
<1>7. /\ g \in Frame /\ g.kind = "switch" /\ g.at = Here /\ g.after = k1 /\ g.dflt = k2
      /\ g.pre = contextBlock /\ g.open = (IF hasDefault THEN "default" ELSE "none")
      /\ g.cases = << >> /\ g.through = << >>
  <2>1. Heights \in Height /\ << >> \in Seq(Block) /\ << >> \in Seq(BOOLEAN)
    BY <1>3, Numbers, EmptySeq
  <2>2. g \in SwitchFrame
    BY <1>3, <1>4, <1>5, <2>1 DEF SwitchFrame
  <2> QED
    BY <1>4, <2>2 DEF Frame
<1> HIDE DEF g
<1>8. PICK made : /\ Len(made) = 2 /\ made[1] = blocks'[k1] /\ made[2] = blocks'[k2]
                  /\ Makes(blocks, blocks', contextBlock, c, t, made)
                  /\ Looks(blocks', k1, << >>, NoTerm)
                  /\ Looks(blocks', k2, << >>, IF hasDefault THEN NoTerm ELSE Br(k1))
  BY <1>2, <1>4, SwitchMakes
<1>9. PICK M, R : With(L, S, M, R, contextBlock, st, ls, ss, 2)
  <2> HIDE DEF st, ls, ss
  <2> QED
    BY <1>3, WithExists
<1>10. /\ Extends(src', src)
       /\ \A A, T : Solves(A, T, src') =>
            /\ A[<<Here, "at">>] = {x}
            /\ hasDefault   => Same(A, T, <<Here, "dflt">>, next)
            /\ ~ hasDefault => Passes(A, T, <<Here, "dflt">>, <<Here, "after">>)
  <2>1. Extends(src', src) /\ \A A, T : Solves(A, T, src') => Says(A, T, t0, Here, CasesBefore(src', Here))
    BY <1>1, Speaks
  <2>2. ASSUME NEW A, NEW T, Says(A, T, t0, Here, CasesBefore(src', Here))
        PROVE  /\ A[<<Here, "at">>] = {x}
               /\ hasDefault   => Same(A, T, <<Here, "dflt">>, next)
               /\ ~ hasDefault => Passes(A, T, <<Here, "dflt">>, <<Here, "after">>)
    <3> HIDE DEF It
    <3> QED
      BY <2>2 DEF Says
  <2> QED
    BY <2>1, <2>2
<1>11. /\ k1 \in DOMAIN M /\ k2 \in DOMAIN M /\ M[k1] = <<Here, "after">> /\ M[k2] = <<Here, "dflt">>
       /\ R[k1] = New /\ R[k2] = (IF hasDefault THEN OpenAt(next) ELSE Ended)
       /\ R[contextBlock] = st
  <2>1. 1 \in 1 .. 2 /\ 2 \in 1 .. 2
    OBVIOUS
  <2>2. R[contextBlock] = st
    BY <1>3, <1>9 DEF With
  <2>3. \A i \in 1 .. 2 : Fresh(i) \in DOMAIN M /\ M[Fresh(i)] = ls[i] /\ R[Fresh(i)] = ss[i]
    <3> HIDE DEF st, ls, ss
    <3> QED
      BY <1>3, <1>9, WithMade
  <2> HIDE DEF st, next
  <2> QED
    BY <1>4, <2>1, <2>2, <2>3
<1>12. Good(M, src', blocks'[contextBlock], L[contextBlock], st)
  <2> DEFINE k == blocks'[contextBlock]
  <2>1. \A A, T : Solves(A, T, src') => A[<<Here, "at">>] = {x}
    BY <1>10
  <2>2. Holds(src', k, L[contextBlock], x)
    <3> HIDE DEF x, t
    <3> QED
      BY <1>0, <1>6, <1>8, <1>10, <2>1, Emitted
  <2> HIDE DEF k
  <2> QED
    BY <2>2, HoldsChoosing DEF k
<1>13. /\ Good(M, src', made[1], <<Here, "after">>, New) /\ made[1].term = NoTerm
       /\ hasDefault => Good(M, src', made[2], <<Here, "dflt">>, OpenAt(next)) /\ made[2].term = NoTerm
       /\ ~ hasDefault => Good(M, src', made[2], <<Here, "dflt">>, Ended)
  <2> DEFINE m1 == made[1]
             m2 == made[2]
  <2>1. m1.code = << >> /\ m1.term = NoTerm /\ m2.code = << >>
        /\ m2.term = IF hasDefault THEN NoTerm ELSE Br(k1)
    BY <1>8 DEF Looks
  <2> HIDE DEF m1, m2, next
  <2>2. Good(M, src', m1, <<Here, "after">>, New)
    BY <2>1, MadeNew
  <2>3. CASE hasDefault
    <3>1. \A A, T : Solves(A, T, src') => Same(A, T, <<Here, "dflt">>, next)
      BY <1>10, <2>3
    <3>2. Good(M, src', m2, <<Here, "dflt">>, OpenAt(next))
      BY <2>1, <3>1, EmptyOpen
    <3> QED
      BY <2>1, <2>2, <2>3, <3>2 DEF m1, m2
  <2>4. CASE ~ hasDefault
    <3>1. \A A, T : Solves(A, T, src') => Passes(A, T, <<Here, "dflt">>, M[k1])
      BY <1>10, <1>11, <2>4
    <3>2. m2.term = Br(k1)
      BY <2>1, <2>4
    <3>3. Good(M, src', m2, <<Here, "dflt">>, Ended)
      BY <1>11, <2>1, <3>1, <3>2, EmptyEnds
    <3> QED
      BY <2>1, <2>2, <2>4, <3>3 DEF m1, m2
  <2> QED
    BY <2>3, <2>4
<1>14. Back(contextBlock, frames', contextBlock') /\ Last(frames') = g
  <2>1. Pushes(frames, g, frames', contextBlock, contextBlock')
    BY <1>1, <1>3, <1>7, PushReturning
  <2>2. Len(frames) \in 1 .. Len(frames)
    BY <1>2 DEF Prepared
  <2>3. Remembers(g) = contextBlock
    BY <1>7 DEF Remembers
  <2>4. Returning(Len(frames), frames', contextBlock') = contextBlock /\ Len(frames) \in 1 .. Len(frames')
    BY <2>1, <2>2, <2>3 DEF Pushes
  <2> QED
    BY <2>1, <2>4 DEF Back, Pushes
<1>15. Writes(L, S, M, R, contextBlock, c, t, made, st, ls, ss)
  <2>1. \A i \in 1 .. 2 : Good(M, src', made[i], ls[i], ss[i]) /\ ls[i] \in Places
                          /\ (ss[i] = Ended \/ made[i].term = NoTerm)
    <3>1. Good(M, src', made[1], ls[1], ss[1]) /\ made[1].term = NoTerm
      BY <1>13
    <3>2. Good(M, src', made[2], ls[2], ss[2]) /\ (ss[2] = Ended \/ made[2].term = NoTerm)
      <4> HIDE DEF next
      <4> QED
        BY <1>13
    <3>3. ls[1] \in Places /\ ls[2] \in Places
      BY <1>3 DEF Places, Marks
    <3> HIDE DEF ls, ss
    <3> QED
      BY <3>1, <3>2, <3>3
  <2> HIDE DEF ls, ss, t, c, st
  <2> QED
    BY <1>8, <1>9, <1>12, <1>14, <2>1 DEF Writes
<1>16. FrameTraced(g, contextBlock', M, R, blocks', contextCondAfter')
  BY <1>7 DEF FrameTraced, IfTraced, ForTraced, FuncTraced, AppendTraced
<1>17. SwitchTraced(g, contextBlock', M, R, src')
  <2>1. CasesTraced(g, << >>, M, R, src')
    <3>1. src \in Seq(Token) /\ TokensRight
      BY DEF Known, TypeOK, TokensKnown
    <3> QED
      BY <1>1, <1>7, <3>1, NoCases
  <2>2. MadeFor(M, R, g.after, <<g.at, "after">>) /\ M[g.dflt] = <<g.at, "dflt">>
        /\ R[g.pre] = Choosing(g.at)
    BY <1>7, <1>11 DEF MadeFor
  <2>3. Len(g.cases) = 0 /\ Len(g.through) = 0
    BY <1>7
  <2>4. IF g.open = "default" THEN Len(g.cases) = 0 ELSE R[g.dflt] = Ended
    BY <1>7, <1>11, <2>3
  <2> QED
    BY <1>7, <2>1, <2>2, <2>3, <2>4 DEF SwitchTraced
<1>18. Current(M, R)'
  <2>1. CASE hasDefault
    <3>1. R[contextBlock'] = OpenAt(<<Here + 1, "at">>) /\ blocks'[contextBlock'].term = NoTerm
      BY <1>1, <1>4, <1>8, <1>11, <2>1 DEF Looks
    <3>2. MayJump(blocks'[contextBlock'].term, M[contextBlock'], contextCondAfter', Len(contextCondAfter'))
      BY <3>1 DEF MayJump
    <3>3. t0.op \notin {"break", "continue", "return"}
      OBVIOUS
    <3> HIDE DEF t0
    <3> QED
      BY <1>1, <3>1, <3>2, <3>3, CurrentOpen
  <2>2. CASE ~ hasDefault
    <3>1. Last(frames').kind = "switch" /\ Last(frames').open = "none"
      BY <1>7, <1>14, <2>2
    <3>3. t0.op \notin {"break", "continue", "return"}
      OBVIOUS
    <3> HIDE DEF t0
    <3> QED
      BY <1>1, <3>1, <3>3, CurrentBetween
  <2> QED
    BY <2>1, <2>2
<1> HIDE DEF t, c, t0, ls, ss, st
<1>19. Traced(M, R)'
  <2>1. g.kind # "func" /\ contextCondAfter' = contextCondAfter /\ UNCHANGED funcs
        /\ Remembers(g) = contextBlock
    BY <1>1, <1>7 DEF Remembers
  <2> QED
    BY <1>0, <1>1, <1>2, <1>7, <1>10, <1>15, <1>16, <1>17, <1>18, <2>1, PushMakes
<1> QED
  BY <1>19

\* The body of the default of a switch ends.
LEMMA EndDefaultTraced ==
  ASSUME Known, TypeOK', Extra = {}, NEW L, NEW S, Traced(L, S), EndDefault
  PROVE  \E M, R : Traced(M, R)'
<1> DEFINE p  == Top.at
           t0 == [op |-> "enddefault", of |-> p, form |-> "plain"]
           g  == [Top EXCEPT !.open = "none"]
<1>1. Closing(L, S) /\ Top.kind = "switch" /\ Top.open = "default"
  BY ClosingIs DEF EndDefault, Open
<1>2. /\ frames # << >> /\ contextBlock \in 1 .. Len(blocks) /\ Len(blocks) \in Nat /\ Here \in Nat
      /\ p \in Nat /\ frames \in Seq(Frame) /\ blocks \in Seq(BasicBlock)
  BY <1>1 DEF Closing
<1>3. /\ Top \in SwitchFrame /\ Top.after \in 1 .. Len(blocks) /\ Top.dflt \in 1 .. Len(blocks)
      /\ Top.pre \in 1 .. Len(blocks)
  BY <1>1, <1>2, SwitchIn
<1>4. /\ src' = Append(src, t0) /\ t0 \in Token /\ contextBlock' = Top.pre
      /\ blocks' = Terminate(blocks, Top.dflt, Br(Top.after))
      /\ frames' = [frames EXCEPT ![Len(frames)] = g] /\ UNCHANGED <<funcs, contextCondAfter>>
  <2>1. t0 \in Token
    BY <1>2 DEF Token, Ops, Forms
  <2>2. /\ src' = Append(src, t0) /\ contextBlock' = Top.pre /\ UNCHANGED <<funcs, contextCondAfter>>
        /\ blocks' = Terminate(blocks, Top.dflt, Br(Top.after))
    BY DEF EndDefault, Put, stacks
  <2>3. frames' = [frames EXCEPT ![Len(frames)] = g]
    <3>1. Top = frames[Len(frames)] /\ frames' = [frames EXCEPT ![Len(frames)].open = "none"]
      BY <1>1 DEF EndDefault, Closing
    <3> QED
      BY <3>1
  <2> QED
    BY <2>1, <2>2, <2>3
<1>5. SwitchTraced(Top, contextBlock, L, S, src) /\ Current(L, S)
  BY <1>2 DEF Traced
<1>6. /\ L[Top.after] = <<p, "after">> /\ S[Top.after] = New /\ L[Top.dflt] = <<p, "dflt">>
      /\ Len(Top.cases) = 0 /\ Len(Top.through) = 0 /\ S[Top.pre] = Choosing(p)
  BY <1>1, <1>5 DEF SwitchTraced, MadeFor
<1>7. contextBlock = Top.dflt
  BY <1>1, <1>2 DEF Known, CallsRight, SwitchAt
<1>8. S[contextBlock] = OpenAt(<<Here, "at">>)
  BY <1>1, <1>5 DEF Current
<1>9. /\ g \in Frame /\ g.kind = "switch" /\ g.at = p /\ g.after = Top.after /\ g.dflt = Top.dflt
      /\ g.pre = Top.pre /\ g.open = "none" /\ g.cases = Top.cases /\ g.through = Top.through
      /\ Remembers(g) = Remembers(Top) /\ g.cases \in Seq(Block) /\ g.through \in Seq(BOOLEAN)
  <2>1. g \in SwitchFrame /\ g.kind = "switch" /\ g.at = p /\ g.after = Top.after /\ g.dflt = Top.dflt
        /\ g.pre = Top.pre /\ g.open = "none" /\ g.cases = Top.cases /\ g.through = Top.through
        /\ g.cases \in Seq(Block) /\ g.through \in Seq(BOOLEAN)
    BY <1>3 DEF SwitchFrame
  <2> QED
    BY <1>1, <2>1 DEF Frame, Remembers
<1> HIDE DEF g, p
<1>10. PICK e : e = contextBlock
  OBVIOUS
<1>11. PICK R : R = [x \in 1 .. Len(blocks) |-> IF x = e THEN Ended ELSE S[x]]
  OBVIOUS
<1>12. Extends(src', src) /\ \A A, T : Solves(A, T, src') => Passes(A, T, <<Here, "at">>, <<p, "after">>)
  <2>1. Extends(src', src) /\ \A A, T : Solves(A, T, src') => Says(A, T, t0, Here, CasesBefore(src', Here))
    BY <1>4, Speaks
  <2> QED
    BY <2>1 DEF Says
<1>13. Edits(blocks, blocks', e, blocks[e].code, Br(Top.after))
  <2>1. Br(Top.after) \in Term
    BY <1>2, <1>3, TermTypes DEF Block
  <2> QED
    BY <1>2, <1>4, <1>7, <1>10, <2>1, TerminateIs
<1>14. Good(L, src', blocks'[e], L[e], Ended)
  <2>1. Good(L, src, blocks[e], L[e], OpenAt(<<Here, "at">>))
    BY <1>1, <1>8, <1>10 DEF Closing
  <2>2. Top.after \in DOMAIN L
    BY <1>3 DEF Traced, BlocksTraced
  <2>3. \A A, T : Solves(A, T, src') => Passes(A, T, <<Here, "at">>, L[Top.after])
    BY <1>6, <1>12
  <2>4. blocks'[e].code = blocks[e].code /\ blocks'[e].term = Br(Top.after)
    BY <1>13 DEF Edits
  <2> QED
    BY <1>12, <2>1, <2>2, <2>3, <2>4, OpenEnds
<1>15. BlocksNext(L, S, L, R, {e})
  <2>1. BlocksTraced(L, S)
    BY DEF Traced
  <2>2. \A x \in 1 .. Len(blocks) :
          /\ blocks'[x].fn = blocks[x].fn
          /\ x \notin {e} => R[x] = S[x] /\ blocks'[x] = blocks[x]
          /\ x \in {e} => Good(L, src', blocks'[x], L[x], R[x]) /\ R[x] = Ended
    BY <1>11, <1>13, <1>14 DEF Edits
  <2>3. Len(blocks') = Len(blocks) /\ DOMAIN R = 1 .. Len(blocks)
    BY <1>11, <1>13 DEF Edits
  <2> QED
    BY <1>2, <2>1, <2>2, <2>3, WritesOnly
<1>16. OfTop(L, S, {e})
  BY <1>8, <1>10 DEF OfTop
<1>17. R[Top.after] = New /\ R[Top.dflt] = Ended /\ R[Top.pre] = Choosing(p)
  <2>1. Top.after # e /\ Top.pre # e
    BY <1>6, <1>8, <1>10, StatesDiffer
  <2> QED
    BY <1>3, <1>6, <1>7, <1>10, <1>11, <2>1
<1>18. SwitchTraced(g, contextBlock', L, R, src')
  <2>1. PICK s : CasesTraced(Top, s, L, S, src)
    BY <1>1, <1>5 DEF SwitchTraced
  <2>2. CasesTraced(g, s, L, S, src)
    BY <1>9, <2>1 DEF CasesTraced, CaseEnds, p
  <2>3. CasesTraced(g, s, L, R, src')
    <3>1. src \in Seq(Token) /\ t0.op # "case"
      BY DEF Known, TypeOK
    <3>2. Len(g.through) = 0 /\ \A k \in 1 .. Len(g.through) : R[g.cases[k]] = S[g.cases[k]]
      BY <1>6, <1>9
    <3> HIDE DEF t0
    <3> QED
      BY <1>4, <1>9, <2>2, <3>1, <3>2, CasesStay
  <2>4. MadeFor(L, R, g.after, <<g.at, "after">>) /\ L[g.dflt] = <<g.at, "dflt">>
        /\ R[g.pre] = Choosing(g.at) /\ R[g.dflt] = Ended /\ Len(g.cases) = Len(g.through)
    BY <1>6, <1>9, <1>17 DEF MadeFor
  <2> QED
    BY <1>9, <2>3, <2>4 DEF SwitchTraced
<1>19. FrameTraced(g, contextBlock', L, R, blocks', contextCondAfter')
  BY <1>9 DEF FrameTraced, IfTraced, ForTraced, FuncTraced, AppendTraced
<1>20. Last(frames') = g
  <2>1. g.kind = Last(frames).kind /\ Remembers(g) = Remembers(Last(frames))
    BY <1>1, <1>9 DEF Top
  <2>2. Changes(frames, g, frames', contextBlock, contextBlock')
    BY <1>2, <1>4, <1>9, <2>1, TopReturning
  <2> QED
    BY <2>2 DEF Changes
<1>21. Current(L, R)'
  <2>1. t0.op = "enddefault"
    OBVIOUS
  <2> HIDE DEF t0
  <2> QED
    BY <1>4, <1>9, <1>20, <2>1, CurrentBetween
<1> HIDE DEF t0
<1>22. Traced(L, R)'
  <2>1. g.kind = Top.kind /\ g.at = Top.at /\ Top.kind # "func" /\ contextBlock \in {e}
    BY <1>1, <1>9, <1>10 DEF p
  <2> QED
    BY <1>2, <1>4, <1>9, <1>12, <1>15, <1>16, <1>18, <1>19, <1>21, <2>1, TopTraced
<1> QED
  BY <1>22

\* A list of positions with a later one.
LEMMA OrderMore ==
  ASSUME NEW n \in Nat, NEW C \in SUBSET Nat, NEW s, Orders(s, n, C), NEW h \in Nat, \A q \in C : q < h,
         NEW u, u = [i \in 1 .. n + 1 |-> IF i = n + 1 THEN h ELSE s[i]]
  PROVE  Orders(u, n + 1, C \cup {h})
<1>1. s \in [1 .. n -> C] /\ (\A i, j \in 1 .. n : i < j => s[i] < s[j])
      /\ \A x \in C : \E i \in 1 .. n : s[i] = x
  BY DEF Orders
<1>2. /\ \A i \in 1 .. n : i \in 1 .. n + 1 /\ i # n + 1 /\ i < n + 1
      /\ n + 1 \in 1 .. n + 1
      /\ \A i \in 1 .. n + 1 : i \in 1 .. n \/ i = n + 1
      /\ \A j \in 1 .. n + 1 : ~ (n + 1 < j)
  OBVIOUS
<1>3. u[n + 1] = h /\ \A i \in 1 .. n : u[i] = s[i] /\ s[i] \in C
  BY <1>1, <1>2
<1>4. u \in [1 .. n + 1 -> C \cup {h}]
  BY <1>1, <1>2
<1>5. ASSUME NEW i \in 1 .. n + 1, NEW j \in 1 .. n + 1, i < j PROVE u[i] < u[j]
  <2>1. i \in 1 .. n
    BY <1>2, <1>5
  <2>2. CASE j \in 1 .. n
    BY <1>1, <1>3, <1>5, <2>1, <2>2
  <2>3. CASE j = n + 1
    BY <1>3, <2>1, <2>3
  <2> QED
    BY <1>2, <2>2, <2>3
<1>6. \A x \in C \cup {h} : \E i \in 1 .. n + 1 : u[i] = x
  BY <1>1, <1>2, <1>3
<1> QED
  BY <1>4, <1>5, <1>6 DEF Orders

\* Token t begins case b of switch f, which is then g.
AddsCase(t, f, g, b, L, S, M, R, s) ==
  /\ src \in Seq(Token) /\ t \in Token /\ src' = Append(src, t) /\ t.op = "case"
  /\ f.cases \in Seq(Block) /\ Len(f.through) = Len(f.cases) /\ f.at = t.of
  /\ g.at = f.at /\ g.cases = Append(f.cases, b) /\ g.through = f.through
  /\ CasesTraced(f, s, L, S, src) /\ M[b] = <<Here + 1, "at">>
  /\ \A k \in 1 .. Len(f.cases) : M[f.cases[k]] = L[f.cases[k]] /\ R[f.cases[k]] = S[f.cases[k]]

\* The cases of a switch, with one more.
LEMMA CasesMore ==
  ASSUME NEW t, NEW f, NEW g, NEW b, NEW L, NEW S, NEW M, NEW R, NEW s,
         AddsCase(t, f, g, b, L, S, M, R, s)
  PROVE  \E u : CasesTraced(g, u, M, R, src')
<1>0. /\ src \in Seq(Token) /\ t \in Token /\ src' = Append(src, t) /\ t.op = "case"
      /\ f.cases \in Seq(Block) /\ Len(f.through) = Len(f.cases) /\ f.at = t.of
      /\ g.at = f.at /\ g.cases = Append(f.cases, b) /\ g.through = f.through
      /\ CasesTraced(f, s, L, S, src) /\ M[b] = <<Here + 1, "at">>
      /\ \A k \in 1 .. Len(f.cases) : M[f.cases[k]] = L[f.cases[k]] /\ R[f.cases[k]] = S[f.cases[k]]
  BY DEF AddsCase
<1> DEFINE n == Len(f.cases)
           C == CaseTokens(f.at, src)
<1>1. /\ Len(src) \in Nat /\ Len(src') = Len(src) + 1 /\ Here \in 1 .. Len(src') /\ src'[Here] = t
      /\ \A q \in 1 .. Len(src) : src'[q] = src[q] /\ q \in 1 .. Len(src') /\ q < Here
      /\ \A q \in 1 .. Len(src') : q \in 1 .. Len(src) \/ q = Here
  BY <1>0, PutIs
<1>2. n \in Nat /\ Len(g.cases) = n + 1 /\ g.cases[n + 1] = b
      /\ \A k \in 1 .. n : g.cases[k] = f.cases[k]
  BY <1>0, LenProperties, AppendProperties
<1>3. CaseTokens(g.at, src') = C \cup {Here}
  <2> DEFINE D == CaseTokens(g.at, src')
  <2>1. ASSUME NEW q \in D PROVE q \in C \cup {Here}
    BY <1>0, <1>1, <2>1 DEF CaseTokens
  <2>2. ASSUME NEW q \in C \cup {Here} PROVE q \in D
    BY <1>0, <1>1, <2>2 DEF CaseTokens
  <2> HIDE DEF C, D
  <2>3. D = C \cup {Here}
    BY <1>0, <2>1, <2>2
  <2> QED
    BY <1>0, <2>3 DEF D
<1>4. C \in SUBSET Nat /\ \A q \in C : q < Here
  BY <1>0, <1>1 DEF CaseTokens
<1>5. PICK u : u = [i \in 1 .. n + 1 |-> IF i = n + 1 THEN Here ELSE s[i]]
  OBVIOUS
<1>6. Orders(u, n + 1, C \cup {Here})
  <2>1. Orders(s, n, C) /\ Here \in Nat
    BY <1>0, <1>1 DEF CasesTraced
  <2> HIDE DEF n, C
  <2> QED
    BY <1>0, <1>2, <1>4, <1>5, <2>1, OrderMore
<1> HIDE DEF n, C
<1>7. u[n + 1] = Here /\ \A k \in 1 .. n : u[k] = s[k]
  BY <1>0, <1>2, <1>5
<1>8. \A k \in 1 .. Len(g.cases) : M[g.cases[k]] = <<u[k] + 1, "at">>
  <2> TAKE k \in 1 .. Len(g.cases)
  <2>1. CASE k = n + 1
    BY <1>0, <1>2, <1>7, <2>1
  <2>2. CASE k \in 1 .. n
    <3>1. L[f.cases[k]] = <<s[k] + 1, "at">>
      BY <1>0, <2>2 DEF CasesTraced, n
    <3> QED
      BY <1>0, <1>2, <1>7, <2>2, <3>1 DEF n
  <2>3. k = n + 1 \/ k \in 1 .. n
    BY <1>0, <1>2
  <2> QED
    BY <1>0, <2>1, <2>2, <2>3
<1>9. ASSUME NEW k \in 1 .. Len(g.through) PROVE CaseEnds(g, k, u, R, src')
  <2>1. k \in 1 .. n /\ k < n + 1 /\ k + 1 \in 1 .. n + 1
    BY <1>0, <1>2 DEF n
  <2>2. CaseEnds(f, k, s, S, src)
    BY <1>0, <2>1 DEF CasesTraced, n
  <2>3. PICK e \in 1 .. Len(src) :
          /\ S[f.cases[k]] = OpenAt(<<e, "at">>) /\ src[e].of = f.at
          /\ IF f.through[k] THEN /\ src[e].op = "fallthrough"
                                  /\ IF k < n THEN s[k + 1] = e + 1 ELSE e = Len(src)
                             ELSE src[e].op = "endcase"
    BY <1>0, <2>2 DEF CaseEnds, n
  <2>4. e \in 1 .. Len(src') /\ src'[e] = src[e] /\ R[g.cases[k]] = OpenAt(<<e, "at">>) /\ src'[e].of = g.at
    BY <1>0, <1>1, <1>2, <2>1, <2>3 DEF n
  <2>5. f.through[k] => u[k + 1] = e + 1
    <3> SUFFICES ASSUME f.through[k] PROVE u[k + 1] = e + 1
      OBVIOUS
    <3>1. CASE k < n
      <4>1. k + 1 \in 1 .. n
        BY <1>0, <1>2, <2>1, <3>1
      <4> QED
        BY <1>0, <1>7, <2>3, <3>1, <4>1
    <3>2. CASE ~ (k < n)
      <4>1. k = n
        BY <1>0, <1>2, <2>1, <3>2
      <4> QED
        BY <1>0, <1>1, <1>7, <2>3, <3>2, <4>1 DEF Here
    <3> QED
      BY <1>0, <3>1, <3>2
  <2>6. k < Len(g.cases)
    BY <1>0, <1>2, <2>1
  <2> QED
    BY <1>0, <2>3, <2>4, <2>5, <2>6 DEF CaseEnds
<1>10. CasesTraced(g, u, M, R, src')
  BY <1>0, <1>2, <1>3, <1>6, <1>8, <1>9 DEF CasesTraced
<1> QED
  BY <1>0, <1>10

\* The body of a case begins.
LEMMA BeginCaseTraced ==
  ASSUME Known, TypeOK', Extra = {}, NEW L, NEW S, Traced(L, S), BeginCase
  PROVE  \E M, R : Traced(M, R)'
<1> DEFINE p    == Top.at
           t0   == [op |-> "case", of |-> p, form |-> "plain"]
           next == <<Here + 1, "at">>
           N    == Len(blocks)
           m    == NewBlock(blocks[contextBlock].fn)
           g    == [Top EXCEPT !.open = "case", !.cases = Append(@, Fresh(1))]
<1>1. Closing(L, S) /\ Top.kind = "switch" /\ Top.open = "none"
  BY ClosingIs DEF BeginCase, Open
<1>2. /\ frames # << >> /\ contextBlock \in 1 .. N /\ N \in Nat /\ Here \in Nat
      /\ p \in Nat /\ frames \in Seq(Frame) /\ blocks \in Seq(BasicBlock)
      /\ blocks[contextBlock].fn \in Nat \ {0}
  BY <1>1 DEF Closing
<1>3. /\ Top \in SwitchFrame /\ Top.after \in 1 .. N /\ Top.dflt \in 1 .. N /\ Top.pre \in 1 .. N
      /\ Top.cases \in Seq(Block) /\ Top.through \in Seq(BOOLEAN) /\ Len(Top.cases) \in Nat
      /\ \A k \in 1 .. Len(Top.cases) : Top.cases[k] \in 1 .. N
  BY <1>1, <1>2, SwitchIn
<1>4. PICK b : b = Fresh(1)
  OBVIOUS
<1>5. /\ src' = Append(src, t0) /\ t0 \in Token /\ contextBlock' = b
      /\ blocks' = Append(blocks, m)
      /\ frames' = [frames EXCEPT ![Len(frames)] = g] /\ UNCHANGED <<funcs, contextCondAfter>>
  <2>1. t0 \in Token
    BY <1>2 DEF Token, Ops, Forms
  <2>2. /\ src' = Append(src, t0) /\ contextBlock' = b /\ UNCHANGED <<funcs, contextCondAfter>>
        /\ blocks' = Append(blocks, m)
    BY <1>4 DEF BeginCase, Put, stacks
  <2>3. frames' = [frames EXCEPT ![Len(frames)] = g]
    <3>1. Top = frames[Len(frames)] /\ Top \in SwitchFrame /\ Len(frames) \in 1 .. Len(frames)
      BY <1>1, <1>3 DEF Closing
    <3>2. frames' = [frames EXCEPT ![Len(frames)].open = "case",
                                   ![Len(frames)].cases = Append(@, Fresh(1))]
      BY DEF BeginCase
    <3> QED
      BY <1>2, <3>1, <3>2 DEF SwitchFrame
  <2> QED
    BY <2>1, <2>2, <2>3
<1>6. SwitchTraced(Top, contextBlock, L, S, src)
  BY <1>2 DEF Traced
<1>7. /\ L[Top.after] = <<p, "after">> /\ S[Top.after] = New /\ L[Top.dflt] = <<p, "dflt">>
      /\ Len(Top.cases) = Len(Top.through) /\ S[Top.pre] = Choosing(p) /\ S[Top.dflt] = Ended
  BY <1>1, <1>6 DEF SwitchTraced, MadeFor
<1>8. contextBlock = Top.pre
  <2>1. SwitchAt(Top, contextBlock, contextFunc, blocks)
    BY <1>2 DEF Known, CallsRight
  <2> QED
    BY <1>1, <2>1 DEF SwitchAt
<1>9. b \in Block /\ b = N + 1
  <2>1. TypeOK /\ OwnedNow
    BY DEF Known
  <2> QED
    BY <1>4, <2>1, FreshBlocks DEF Fresh
<1>10. /\ g \in Frame /\ g.kind = "switch" /\ g.at = p /\ g.after = Top.after /\ g.dflt = Top.dflt
       /\ g.pre = Top.pre /\ g.open = "case" /\ g.cases = Append(Top.cases, b)
       /\ g.through = Top.through /\ Remembers(g) = Remembers(Top)
  <2>1. /\ g.kind = "switch" /\ g.at = p /\ g.after = Top.after /\ g.dflt = Top.dflt
        /\ g.pre = Top.pre /\ g.open = "case" /\ g.cases = Append(Top.cases, b)
        /\ g.through = Top.through
    BY <1>3, <1>4 DEF SwitchFrame
  <2>2. Append(Top.cases, b) \in Seq(Block)
    BY <1>3, <1>9, AppendType
  <2>3. g \in SwitchFrame
    <3> DEFINE c == Append(Top.cases, b)
    <3>1. g = [Top EXCEPT !.open = "case", !.cases = c]
      BY <1>3, <1>4 DEF SwitchFrame
    <3> HIDE DEF c, g
    <3>2. c \in Seq(Block)
      BY <2>2 DEF c
    <3> QED
      BY <1>3, <3>1, <3>2 DEF SwitchFrame
  <2> QED
    BY <1>1, <2>1, <2>3 DEF Frame, Remembers
<1> HIDE DEF g, p
<1>11. PICK M, R : /\ M = [x \in 1 .. N + 1 |-> IF x = b THEN next ELSE L[x]]
                   /\ R = [x \in 1 .. N + 1 |-> IF x = b THEN OpenAt(next) ELSE S[x]]
  OBVIOUS
<1>12. Extends(src', src)
  BY <1>5, Speaks
<1>13. m \in BasicBlock /\ m.code = << >> /\ m.term = NoTerm
  <2>1. m \in BasicBlock
    BY <1>2, MadeOf
  <2> QED
    BY <2>1 DEF NewBlock, BlockOf
<1> HIDE DEF m
<1>14. /\ Len(blocks') = N + 1 /\ blocks'[b] = m
       /\ \A x \in 1 .. N : blocks'[x] = blocks[x] /\ x # b /\ x \in 1 .. N + 1
  <2>1. Len(blocks') = N + 1 /\ blocks'[N + 1] = m /\ \A x \in 1 .. N : blocks'[x] = blocks[x]
    BY <1>2, <1>5, <1>13, AppendType
  <2>2. \A x \in 1 .. N : x # N + 1 /\ x \in 1 .. N + 1
    BY <1>2
  <2> QED
    BY <1>9, <2>1, <2>2
<1>15. /\ b \in 1 .. N + 1 /\ M[b] = next /\ R[b] = OpenAt(next)
       /\ \A x \in 1 .. N : M[x] = L[x] /\ R[x] = S[x]
       /\ DOMAIN M = 1 .. N + 1 /\ DOMAIN R = 1 .. N + 1
  <2>1. b \in 1 .. N + 1
    BY <1>2, <1>9
  <2> HIDE DEF next, N
  <2> QED
    BY <1>11, <1>14, <2>1
<1>16. Good(M, src', m, next, OpenAt(next))
  <2>1. \A A, T : Same(A, T, next, next)
    BY DEF Same
  <2> HIDE DEF next
  <2> QED
    BY <1>13, <2>1, EmptyOpen
<1>17. BlocksNext(L, S, M, R, {})
  <2>1. Wrote(L, S, M, R, {})
    <3>1. Len(blocks) <= Len(blocks')
      BY <1>2, <1>14
    <3> HIDE DEF next
    <3> QED
      BY <1>14, <1>15, <3>1 DEF Wrote
  <2>2. ASSUME NEW x \in Len(blocks) + 1 .. Len(blocks') PROVE Fine(M, R, x) /\ M[x] \in Places
    <3>1. x = b
      BY <1>2, <1>9, <1>14
    <3>2. next \in Places
      BY <1>2 DEF Places, Marks
    <3>3. Fine(M, R, b)
      <4> HIDE DEF next
      <4> QED
        BY <1>13, <1>14, <1>15, <1>16 DEF Fine, Rests
    <3> QED
      BY <1>15, <3>1, <3>2, <3>3
  <2>3. \A x \in 1 .. Len(blocks) : blocks'[x].fn = blocks[x].fn
    BY <1>14
  <2> QED
    BY <2>1, <2>2, <2>3 DEF BlocksNext
<1>18. OfTop(L, S, {})
  BY DEF OfTop
<1> HIDE DEF next, N
<1>19. SwitchTraced(g, contextBlock', M, R, src')
  <2>1. PICK s : CasesTraced(Top, s, L, S, src)
    BY <1>1, <1>6 DEF SwitchTraced
  <2>2. PICK u : CasesTraced(g, u, M, R, src')
    <3>1. src \in Seq(Token) /\ t0.op = "case" /\ Top.at = t0.of
      BY DEF Known, TypeOK, p
    <3>2. \A k \in 1 .. Len(Top.cases) : M[Top.cases[k]] = L[Top.cases[k]] /\ R[Top.cases[k]] = S[Top.cases[k]]
      BY <1>3, <1>15
    <3>3. M[b] = <<Here + 1, "at">> /\ g.at = Top.at
      BY <1>10, <1>15 DEF next, p
    <3>4. Top.cases \in Seq(Block) /\ Len(Top.through) = Len(Top.cases)
          /\ g.cases = Append(Top.cases, b) /\ g.through = Top.through
      BY <1>3, <1>7, <1>10
    <3>6. Top.at = t0.of /\ g.at = Top.at
      BY <3>1, <3>3
    <3>5. t0 \in Token /\ src' = Append(src, t0)
      BY <1>5
    <3>7. PICK f, h, t : f = Top /\ h = g /\ t = t0
      OBVIOUS
    <3> HIDE DEF t0
    <3>8. /\ src \in Seq(Token) /\ t \in Token /\ src' = Append(src, t) /\ t.op = "case"
          /\ f.cases \in Seq(Block) /\ Len(f.through) = Len(f.cases) /\ f.at = t.of
          /\ h.at = f.at /\ h.cases = Append(f.cases, b) /\ h.through = f.through
          /\ CasesTraced(f, s, L, S, src) /\ M[b] = <<Here + 1, "at">>
          /\ \A k \in 1 .. Len(f.cases) : M[f.cases[k]] = L[f.cases[k]] /\ R[f.cases[k]] = S[f.cases[k]]
      BY <2>1, <3>1, <3>2, <3>3, <3>4, <3>5, <3>6, <3>7
    <3>9. AddsCase(t, f, h, b, L, S, M, R, s)
      BY <3>8 DEF AddsCase
    <3>10. AddsCase(t, f, g, b, L, S, M, R, s)
      BY <3>7, <3>9
    <3> QED
      BY <3>10, CasesMore
  <2>3. MadeFor(M, R, g.after, <<g.at, "after">>) /\ M[g.dflt] = <<g.at, "dflt">>
        /\ R[g.pre] = Choosing(g.at) /\ R[g.dflt] = Ended
    BY <1>3, <1>7, <1>10, <1>15 DEF MadeFor
  <2>4. Len(g.cases) = Len(g.through) + 1 /\ contextBlock' = g.cases[Len(g.cases)]
    <3>1. Len(Append(Top.cases, b)) = Len(Top.cases) + 1 /\ Append(Top.cases, b)[Len(Top.cases) + 1] = b
      BY <1>3, <1>9, AppendProperties
    <3> QED
      BY <1>5, <1>7, <1>10, <3>1
  <2> QED
    BY <1>10, <2>2, <2>3, <2>4 DEF SwitchTraced
<1>20. FrameTraced(g, contextBlock', M, R, blocks', contextCondAfter')
  BY <1>10 DEF FrameTraced, IfTraced, ForTraced, FuncTraced, AppendTraced
<1>21. Current(M, R)'
  <2>1. t0.op = "case"
    OBVIOUS
  <2>2. R[contextBlock'] = OpenAt(<<Here + 1, "at">>) /\ blocks'[contextBlock'].term = NoTerm
    BY <1>5, <1>13, <1>14, <1>15 DEF next
  <2>3. MayJump(blocks'[contextBlock'].term, M[contextBlock'], contextCondAfter', Len(contextCondAfter'))
    BY <2>2 DEF MayJump
  <2> HIDE DEF t0
  <2> QED
    BY <1>5, <2>1, <2>2, <2>3, CurrentOpen
<1> HIDE DEF t0
<1>22. Traced(M, R)'
  <2>1. g.kind = Top.kind /\ g.at = Top.at /\ Top.kind # "func"
    BY <1>1, <1>10 DEF p
  <2> QED
    BY <1>1, <1>2, <1>5, <1>8, <1>10, <1>12, <1>17, <1>18, <1>19, <1>20, <1>21, <2>1, TopTraced
<1> QED
  BY <1>22

\* Token t ends the last case of switch f, which is then g.
EndsCase(t, f, g, fallthrough, L, S, s) ==
  /\ src \in Seq(Token) /\ t \in Token /\ src' = Append(src, t)
  /\ t.op = IF fallthrough THEN "fallthrough" ELSE "endcase"
  /\ f.cases \in Seq(Block) /\ f.through \in Seq(BOOLEAN) /\ Len(f.cases) = Len(f.through) + 1
  /\ f.at = t.of /\ fallthrough \in BOOLEAN
  /\ g.at = f.at /\ g.cases = f.cases /\ g.through = Append(f.through, fallthrough)
  /\ CasesTraced(f, s, L, S, src) /\ S[f.cases[Len(f.cases)]] = OpenAt(<<Here, "at">>)

LEMMA CasesEnd ==
  ASSUME NEW t, NEW f, NEW g, NEW fallthrough, NEW L, NEW S, NEW s,
         EndsCase(t, f, g, fallthrough, L, S, s)
  PROVE  CasesTraced(g, s, L, S, src') /\ Len(g.cases) = Len(g.through)
<1> DEFINE n == Len(f.cases)
<1>0. /\ src \in Seq(Token) /\ t \in Token /\ src' = Append(src, t)
      /\ t.op = IF fallthrough THEN "fallthrough" ELSE "endcase"
      /\ f.cases \in Seq(Block) /\ f.through \in Seq(BOOLEAN) /\ n = Len(f.through) + 1
      /\ f.at = t.of /\ fallthrough \in BOOLEAN
      /\ g.at = f.at /\ g.cases = f.cases /\ g.through = Append(f.through, fallthrough)
      /\ CasesTraced(f, s, L, S, src) /\ S[f.cases[n]] = OpenAt(<<Here, "at">>)
  BY DEF EndsCase
<1>1. /\ Len(src) \in Nat /\ Len(src') = Len(src) + 1 /\ Here \in 1 .. Len(src') /\ src'[Here] = t
      /\ \A q \in 1 .. Len(src) : src'[q] = src[q] /\ q \in 1 .. Len(src')
      /\ \A q \in 1 .. Len(src') : q \in 1 .. Len(src) \/ q = Here
  BY <1>0, PutIs
<1>2. /\ n \in Nat /\ Len(g.through) = n /\ g.through[n] = fallthrough /\ n \in 1 .. n
      /\ \A k \in 1 .. n - 1 : g.through[k] = f.through[k]
      /\ \A k \in 1 .. n : k = n \/ k \in 1 .. n - 1
  <2>1. Len(f.through) \in Nat /\ n = Len(f.through) + 1
    BY <1>0, LenProperties
  <2>2. /\ Len(g.through) = Len(f.through) + 1 /\ g.through[Len(f.through) + 1] = fallthrough
        /\ \A k \in 1 .. Len(f.through) : g.through[k] = f.through[k]
    BY <1>0, AppendProperties
  <2>3. n - 1 = Len(f.through)
    BY <2>1
  <2> HIDE DEF n
  <2> QED
    BY <2>1, <2>2, <2>3
<1>3. CaseTokens(g.at, src') = CaseTokens(f.at, src)
  <2>1. t.op # "case"
    BY <1>0
  <2> QED
    BY <1>0, <1>1, <2>1 DEF CaseTokens
<1> HIDE DEF n
<1>4. CaseEnds(g, n, s, S, src')
  <2>1. Here = Len(src')
    BY <1>1 DEF Here
  <2>2. src'[Here].of = g.at /\ S[g.cases[n]] = OpenAt(<<Here, "at">>) /\ g.through[n] = fallthrough
        /\ src'[Here].op = (IF fallthrough THEN "fallthrough" ELSE "endcase")
        /\ ~ (n < Len(g.cases))
    BY <1>0, <1>1, <1>2 DEF n
  <2> QED
    BY <1>0, <1>1, <2>1, <2>2 DEF CaseEnds
<1>5. ASSUME NEW k \in 1 .. n - 1 PROVE CaseEnds(g, k, s, S, src')
  <2>1. k \in 1 .. Len(f.through) /\ k < n
    BY <1>0, <1>2
  <2>2. CaseEnds(f, k, s, S, src)
    BY <1>0, <2>1 DEF CasesTraced
  <2>3. PICK e \in 1 .. Len(src) :
          /\ S[f.cases[k]] = OpenAt(<<e, "at">>) /\ src[e].of = f.at
          /\ IF f.through[k] THEN src[e].op = "fallthrough" /\ s[k + 1] = e + 1
                             ELSE src[e].op = "endcase"
    BY <2>1, <2>2 DEF CaseEnds, n
  <2>4. e \in 1 .. Len(src') /\ src'[e] = src[e] /\ g.through[k] = f.through[k]
    BY <1>1, <1>2, <2>3
  <2> QED
    BY <1>0, <2>1, <2>3, <2>4 DEF CaseEnds, n
<1>6. \A k \in 1 .. Len(g.through) : CaseEnds(g, k, s, S, src')
  BY <1>2, <1>4, <1>5
<1>7. CasesTraced(g, s, L, S, src')
  BY <1>0, <1>3, <1>6 DEF CasesTraced
<1> QED
  BY <1>0, <1>2, <1>7 DEF n

\* The body of a case ends.
LEMMA EndCaseTraced ==
  ASSUME Known, TypeOK', Extra = {}, NEW L, NEW S, Traced(L, S), NEW fallthrough \in BOOLEAN,
         EndCase(fallthrough)
  PROVE  \E M, R : Traced(M, R)'
<1> DEFINE p    == Top.at
           t0   == [op |-> IF fallthrough THEN "fallthrough" ELSE "endcase", of |-> p, form |-> "plain"]
           g    == [Top EXCEPT !.open = "none", !.through = Append(@, fallthrough)]
<1>1. Closing(L, S) /\ Top.kind = "switch" /\ Top.open = "case"
  BY ClosingIs DEF EndCase, Open
<1>2. /\ frames # << >> /\ contextBlock \in 1 .. Len(blocks) /\ Len(blocks) \in Nat /\ Here \in Nat
      /\ p \in Nat /\ frames \in Seq(Frame) /\ blocks \in Seq(BasicBlock)
  BY <1>1 DEF Closing
<1>3. /\ Top \in SwitchFrame /\ Top.cases \in Seq(Block) /\ Top.through \in Seq(BOOLEAN)
  BY <1>1, <1>2, SwitchIn
<1>4. /\ src' = Append(src, t0) /\ t0 \in Token /\ contextBlock' = Top.pre
      /\ frames' = [frames EXCEPT ![Len(frames)] = g] /\ UNCHANGED <<funcs, contextCondAfter, blocks>>
  <2>1. t0 \in Token
    BY <1>2 DEF Token, Ops, Forms
  <2>2. src' = Append(src, t0) /\ contextBlock' = Top.pre /\ UNCHANGED <<funcs, contextCondAfter, blocks>>
    BY DEF EndCase, Put, stacks
  <2>3. frames' = [frames EXCEPT ![Len(frames)] = g]
    <3>1. Top = frames[Len(frames)] /\ Top \in SwitchFrame /\ Len(frames) \in 1 .. Len(frames)
      BY <1>1, <1>3 DEF Closing
    <3>2. frames' = [frames EXCEPT ![Len(frames)].open = "none",
                                   ![Len(frames)].through = Append(@, fallthrough)]
      BY DEF EndCase
    <3> QED
      BY <1>2, <3>1, <3>2 DEF SwitchFrame
  <2> QED
    BY <2>1, <2>2, <2>3
<1>5. SwitchTraced(Top, contextBlock, L, S, src) /\ Current(L, S)
  BY <1>2 DEF Traced
<1>6. /\ MadeFor(L, S, Top.after, <<p, "after">>) /\ L[Top.dflt] = <<p, "dflt">> /\ S[Top.dflt] = Ended
      /\ Len(Top.cases) = Len(Top.through) + 1 /\ contextBlock = Top.cases[Len(Top.cases)]
      /\ S[Top.pre] = Choosing(p)
  BY <1>1, <1>5 DEF SwitchTraced
<1>7. S[contextBlock] = OpenAt(<<Here, "at">>) /\ blocks[contextBlock].term = NoTerm
  BY <1>1, <1>5 DEF Current
<1>8. /\ g \in Frame /\ g.kind = "switch" /\ g.at = p /\ g.after = Top.after /\ g.dflt = Top.dflt
      /\ g.pre = Top.pre /\ g.open = "none" /\ g.cases = Top.cases
      /\ g.through = Append(Top.through, fallthrough) /\ Remembers(g) = Remembers(Top)
  <2>1. /\ g.kind = "switch" /\ g.at = p /\ g.after = Top.after /\ g.dflt = Top.dflt
        /\ g.pre = Top.pre /\ g.open = "none" /\ g.cases = Top.cases
        /\ g.through = Append(Top.through, fallthrough)
    BY <1>3 DEF SwitchFrame
  <2>3. g \in SwitchFrame
    <3> DEFINE c == Append(Top.through, fallthrough)
    <3>1. g = [Top EXCEPT !.open = "none", !.through = c]
      BY <1>3 DEF SwitchFrame
    <3>2. c \in Seq(BOOLEAN)
      BY <1>3, AppendType
    <3> HIDE DEF c, g
    <3> QED
      BY <1>3, <3>1, <3>2 DEF SwitchFrame
  <2> QED
    BY <1>1, <2>1, <2>3 DEF Frame, Remembers
<1> HIDE DEF g, p
<1>9. Extends(src', src)
  BY <1>4, Speaks
<1>10. BlocksNext(L, S, L, S, {})
  <2>1. BlocksTraced(L, S) /\ DOMAIN S = 1 .. Len(blocks) /\ Len(blocks') = Len(blocks)
    BY <1>4 DEF Traced, BlocksTraced
  <2>2. \A x \in 1 .. Len(blocks) : blocks'[x].fn = blocks[x].fn /\ blocks'[x] = blocks[x]
    BY <1>4
  <2> QED
    BY <1>2, <2>1, <2>2, WritesOnly
<1>11. OfTop(L, S, {})
  BY DEF OfTop
<1>12. SwitchTraced(g, contextBlock', L, S, src')
  <2>1. PICK s : CasesTraced(Top, s, L, S, src)
    BY <1>1, <1>5 DEF SwitchTraced
  <2>2. EndsCase(t0, Top, g, fallthrough, L, S, s)
    <3>1. src \in Seq(Token) /\ Top.at = t0.of /\ t0.op = IF fallthrough THEN "fallthrough" ELSE "endcase"
      BY DEF Known, TypeOK, p
    <3>2. g.at = Top.at /\ S[Top.cases[Len(Top.cases)]] = OpenAt(<<Here, "at">>)
      BY <1>6, <1>7, <1>8 DEF p
    <3> HIDE DEF t0
    <3> QED
      BY <1>3, <1>4, <1>6, <1>8, <2>1, <3>1, <3>2 DEF EndsCase
  <2>3. CasesTraced(g, s, L, S, src') /\ Len(g.cases) = Len(g.through)
    BY <2>2, CasesEnd
  <2>4. MadeFor(L, S, g.after, <<g.at, "after">>) /\ L[g.dflt] = <<g.at, "dflt">>
        /\ S[g.pre] = Choosing(g.at) /\ S[g.dflt] = Ended
    BY <1>6, <1>8
  <2> QED
    BY <1>8, <2>3, <2>4 DEF SwitchTraced
<1>13. FrameTraced(g, contextBlock', L, S, blocks', contextCondAfter')
  BY <1>8 DEF FrameTraced, IfTraced, ForTraced, FuncTraced, AppendTraced
<1>14. Last(frames') = g
  <2>1. g.kind = Last(frames).kind /\ Remembers(g) = Remembers(Last(frames))
    BY <1>1, <1>8 DEF Top
  <2>2. Changes(frames, g, frames', contextBlock, contextBlock')
    BY <1>2, <1>4, <1>8, <2>1, TopReturning
  <2> QED
    BY <2>2 DEF Changes
<1>15. Current(L, S)'
  <2>1. t0.op \in {"fallthrough", "endcase"}
    OBVIOUS
  <2>2. t0.op \notin {"break", "continue", "return"}
    BY <2>1
  <2>3. L' = L /\ S' = S
    OBVIOUS
  <2> HIDE DEF t0
  <2> QED
    BY <1>4, <1>8, <1>14, <2>2, <2>3, CurrentBetween
<1> HIDE DEF t0
<1>16. Traced(L, S)'
  <2>1. g.kind = Top.kind /\ g.at = Top.at /\ Top.kind # "func"
    BY <1>1, <1>8 DEF p
  <2> QED
    BY <1>2, <1>4, <1>7, <1>8, <1>9, <1>10, <1>11, <1>12, <1>13, <1>15, <2>1, TopTraced
<1> QED
  BY <1>16

\* The blocks when a switch ends.
EndsSwitch(n, to) ==
  /\ Len(blocks') = Len(blocks)
  /\ \A x \in 1 .. Len(blocks) :
       /\ blocks'[x].fn = blocks[x].fn /\ blocks'[x].code = blocks[x].code
       /\ x # contextBlock =>
            \/ blocks'[x] = blocks[x] /\ x \notin CaseBlocks
            \/ \E k \in 1 .. n :
                 /\ Top.cases[k] = x
                 /\ blocks'[x].term = Br(IF Top.through[k] THEN Top.cases[k + 1] ELSE Top.after)
  /\ blocks'[contextBlock].term = Switch(to)

LEMMA SwitchEndIs ==
  ASSUME Known, EndSwitch, status' # "failed"
  PROVE  /\ EndsSwitch(Len(Top.cases), <<Top.dflt>> \o Top.cases)
         /\ contextBlock' = Top.after /\ frames' = Front(frames)
         /\ ~ (Len(Top.cases) > 0 /\ Top.through[Len(Top.cases)])
<1> DEFINE n       == Len(Top.cases)
           exit(i) == IF Top.through[i] THEN Top.cases[i + 1] ELSE Top.after
           case(b) == CHOOSE i \in 1 .. n : Top.cases[i] = b
           ended   == [b \in DOMAIN blocks |->
                         IF \E i \in 1 .. n : Top.cases[i] = b
                           THEN [blocks[b] EXCEPT !.term = Br(exit(case(b)))]
                           ELSE blocks[b]]
           to      == <<Top.dflt>> \o Top.cases
           cb      == contextBlock
<1>1. /\ frames # << >> /\ Top.kind = "switch" /\ ~ (n > 0 /\ Top.through[n])
      /\ blocks' = Terminate(ended, contextBlock, Switch(to))
      /\ contextBlock' = Top.after /\ frames' = Front(frames)
  BY DEF EndSwitch, Open
<1>2. contextBlock \in 1 .. Len(blocks) /\ blocks \in Seq(BasicBlock) /\ DOMAIN blocks = 1 .. Len(blocks)
      /\ Len(blocks) \in Nat
  <2>1. blocks \in Seq(BasicBlock)
    BY DEF Known, TypeOK
  <2>2. contextBlock \in 1 .. Len(blocks)
    BY <1>1, Context DEF Known
  <2> QED
    BY <2>1, <2>2, LenProperties
<1>3. \A x \in 1 .. Len(blocks) : blocks[x] \in BasicBlock
  BY <1>2, ElementOfSeq
<1>4. \A x \in 1 .. Len(blocks) :
        /\ \/ ended[x] = blocks[x] /\ x \notin CaseBlocks
           \/ \E k \in 1 .. n : Top.cases[k] = x /\ ended[x] = [blocks[x] EXCEPT !.term = Br(exit(k))]
        /\ ended[x] = blocks[x] \/ \E t : ended[x] = [blocks[x] EXCEPT !.term = t]
  <2> TAKE x \in 1 .. Len(blocks)
  <2>1. CASE \E i \in 1 .. n : Top.cases[i] = x
    <3>1. case(x) \in 1 .. n /\ Top.cases[case(x)] = x
      BY <2>1
    <3>2. ended[x] = [blocks[x] EXCEPT !.term = Br(exit(case(x)))]
      BY <1>2, <2>1
    <3> HIDE DEF ended, exit, case
    <3> QED
      BY <3>1, <3>2
  <2>2. CASE ~ \E i \in 1 .. n : Top.cases[i] = x
    <3>1. ended[x] = blocks[x]
      BY <1>2, <2>2
    <3> HIDE DEF ended
    <3> QED
      BY <2>2, <3>1 DEF CaseBlocks
  <2> QED
    BY <2>1, <2>2
<1>5. DOMAIN ended = 1 .. Len(blocks)
  BY <1>2
<1> HIDE DEF ended
<1>6. \A x \in 1 .. Len(blocks) : /\ ended[x].fn = blocks[x].fn /\ ended[x].code = blocks[x].code
                                  /\ ended[x] \in [fn : Nat \ {0}, code : Seq(Item), term : {ended[x].term}]
  <2> TAKE x \in 1 .. Len(blocks)
  <2>1. blocks[x] \in BasicBlock /\ (ended[x] = blocks[x] \/ \E t : ended[x] = [blocks[x] EXCEPT !.term = t])
    BY <1>3, <1>4
  <2> QED
    BY <2>1 DEF BasicBlock
<1>7. /\ \A x \in 1 .. Len(blocks) : x # cb => blocks'[x] = ended[x]
      /\ blocks'[cb] = [ended[cb] EXCEPT !.term = Switch(to)]
      /\ DOMAIN blocks' = 1 .. Len(blocks)
  BY <1>1, <1>2, <1>5 DEF Terminate
<1>8. blocks'[cb].term = Switch(to) /\ blocks'[cb].fn = blocks[cb].fn /\ blocks'[cb].code = blocks[cb].code
  <2> HIDE DEF to
  <2>1. ended[cb] \in [fn : Nat \ {0}, code : Seq(Item), term : {ended[cb].term}]
    BY <1>2, <1>6
  <2>2. blocks'[cb].term = Switch(to) /\ blocks'[cb].fn = ended[cb].fn /\ blocks'[cb].code = ended[cb].code
    BY <1>7, <2>1
  <2> QED
    BY <1>2, <1>6, <2>2
<1>9. Len(blocks') = Len(blocks)
  BY <1>2, <1>7
<1>10. \A x \in 1 .. Len(blocks) : x # contextBlock =>
            \/ blocks'[x] = blocks[x] /\ x \notin CaseBlocks
            \/ \E k \in 1 .. n : Top.cases[k] = x /\ blocks'[x].term = Br(exit(k))
  <2> TAKE x \in 1 .. Len(blocks)
  <2> HAVE x # contextBlock
  <2>1. blocks'[x] = ended[x] /\ blocks[x] \in BasicBlock
    BY <1>3, <1>7
  <2>2. CASE ended[x] = blocks[x] /\ x \notin CaseBlocks
    BY <2>1, <2>2
  <2>3. ASSUME NEW k \in 1 .. n, Top.cases[k] = x, ended[x] = [blocks[x] EXCEPT !.term = Br(exit(k))]
        PROVE  blocks'[x].term = Br(exit(k))
    <3> HIDE DEF exit
    <3> QED
      BY <2>1, <2>3 DEF BasicBlock
  <2> HIDE DEF exit, n
  <2> QED
    BY <1>4, <2>2, <2>3
<1> HIDE DEF to
<1>11. EndsSwitch(n, to)
  <2>1. \A x \in 1 .. Len(blocks) : blocks'[x].fn = blocks[x].fn /\ blocks'[x].code = blocks[x].code
    BY <1>6, <1>7, <1>8
  <2> QED
    BY <1>8, <1>9, <1>10, <2>1 DEF EndsSwitch
<1> QED
  BY <1>1, <1>11 DEF to

\* What the tokens of a switch say at its end.
LEMMA SwitchSays ==
  ASSUME Known, frames # << >>, Top.kind = "switch", NEW t0 \in Token, src' = Append(src, t0),
         t0.op = "endswitch", t0.of = Top.at,
         NEW L, NEW S, NEW s, CasesTraced(Top, s, L, S, src), Len(Top.cases) \in Nat,
         Top.at \in 1 .. Len(src)
  PROVE  \A A, T : Solves(A, T, src') => 
           A[<<Top.at, "cases">>] = [k \in 1 .. Len(Top.cases) |-> A[L[Top.cases[k]]]]
<1>1. /\ src \in Seq(Token) /\ Len(src) \in Nat /\ Here = Len(src) + 1
      /\ src'[Here] = t0 /\ \A q \in 1 .. Len(src) : src'[q] = src[q]
  BY PutIs, LenProperties DEF Known, TypeOK, Here
<1>2. Orders(s, Len(Top.cases), CaseTokens(Top.at, src))
  BY DEF CasesTraced
<1>3. CasesBefore(src', Here) = s
  <2>1. 1 .. Here - 1 = 1 .. Len(src) /\ CaseTokens(Top.at, src) \in SUBSET Nat
    BY <1>1 DEF CaseTokens
  <2>2. CasesBefore(src', Here) = InOrder({q \in 1 .. Here - 1 : src'[q].op = "case" /\ src'[q].of = src'[Here].of})
    BY DEF CasesBefore
  <2>3. {q \in 1 .. Here - 1 : src'[q].op = "case" /\ src'[q].of = src'[Here].of} = CaseTokens(Top.at, src)
    BY <1>1, <2>1 DEF CaseTokens
  <2> QED
    BY <1>2, <2>1, <2>2, <2>3, InOrderIs
<1>4. \A A, T : Solves(A, T, src') => Says(A, T, t0, Here, s)
  BY <1>3, Speaks
<1>5. DOMAIN s = 1 .. Len(Top.cases)
  BY <1>2 DEF Orders
<1>6. \A k \in 1 .. Len(Top.cases) : L[Top.cases[k]] = <<s[k] + 1, "at">>
  BY DEF CasesTraced
<1>7. ASSUME NEW A, NEW T, Solves(A, T, src')
      PROVE  A[<<Top.at, "cases">>] = [k \in 1 .. Len(Top.cases) |-> A[L[Top.cases[k]]]]
  <2>1. Says(A, T, t0, Here, s)
    BY <1>4, <1>7
  <2>2. A[<<t0.of, "cases">>] = [i \in DOMAIN s |-> A[<<s[i] + 1, "at">>]]
    BY <2>1 DEF Says
  <2> QED
    BY <1>5, <1>6, <2>2
<1> QED
  BY <1>7

\* What the token a case ends with says.
LEMMA CaseSays ==
  ASSUME Known, Extends(src', src), NEW e \in 1 .. Len(src), NEW p, src[e].of = p
  PROVE  /\ src[e].op = "endcase" =>
              \A A, T : Solves(A, T, src') => Passes(A, T, <<e, "at">>, <<p, "after">>)
         /\ src[e].op = "fallthrough" =>
              \A A, T : Solves(A, T, src') => Passes(A, T, <<e, "at">>, <<e + 2, "at">>)
<1>1. ASSUME NEW A, NEW T, Solves(A, T, src')
      PROVE  Says(A, T, src[e], e, CasesBefore(src, e))
  <2>1. Solves(A, T, src)
    BY <1>1 DEF Extends
  <2> QED
    BY <2>1 DEF Solves
<1>2. ASSUME src[e].op = "endcase", NEW A, NEW T, Solves(A, T, src')
      PROVE  Passes(A, T, <<e, "at">>, <<p, "after">>)
  BY <1>1, <1>2 DEF Says
<1>3. ASSUME src[e].op = "fallthrough", NEW A, NEW T, Solves(A, T, src')
      PROVE  Passes(A, T, <<e, "at">>, <<e + 2, "at">>)
  BY <1>1, <1>3 DEF Says
<1> QED
  BY <1>2, <1>3

\* The innermost call is a switch with cases s, and may end.
MayEnd(L, S, s) ==
  /\ frames # << >> /\ Top.kind = "switch"
  /\ CasesTraced(Top, s, L, S, src) /\ BlocksTraced(L, S) /\ Len(Top.cases) = Len(Top.through)
  /\ ~ (Len(Top.cases) > 0 /\ Top.through[Len(Top.cases)])
  /\ MadeFor(L, S, Top.after, <<Top.at, "after">>)

\* Block x, of case k, gets its terminator.
LeavesCase(k, x) ==
  /\ x = Top.cases[k] /\ blocks'[x].code = blocks[x].code
  /\ blocks'[x].term = Br(IF Top.through[k] THEN Top.cases[k + 1] ELSE Top.after)

\* The block the k-th case of a switch begins in ends.
LEMMA CaseGood ==
  ASSUME Known, Extends(src', src), NEW L, NEW S, NEW s, MayEnd(L, S, s),
         NEW k \in 1 .. Len(Top.cases), NEW x, LeavesCase(k, x)
  PROVE  (\E e : S[x] = OpenAt(<<e, "at">>)) /\ Good(L, src', blocks'[x], L[x], Ended)
<1>1. /\ Len(Top.cases) \in Nat /\ Top.after \in 1 .. Len(blocks)
      /\ \A i \in 1 .. Len(Top.cases) : Top.cases[i] \in 1 .. Len(blocks)
  BY SwitchIn DEF MayEnd
<1>0. /\ x = Top.cases[k] /\ blocks'[x].code = blocks[x].code
      /\ blocks'[x].term = Br(IF Top.through[k] THEN Top.cases[k + 1] ELSE Top.after)
  BY DEF LeavesCase
<1>2. PICK e \in 1 .. Len(src) :
        /\ S[x] = OpenAt(<<e, "at">>) /\ src[e].of = Top.at
        /\ IF Top.through[k] THEN /\ src[e].op = "fallthrough"
                                  /\ IF k < Len(Top.cases) THEN s[k + 1] = e + 1 ELSE e = Len(src)
                             ELSE src[e].op = "endcase"
  <2>1. CaseEnds(Top, k, s, S, src)
    BY <1>0, <1>1 DEF CasesTraced, MayEnd
  <2> QED
    BY <1>0, <2>1 DEF CaseEnds
<1>3. PICK q : q = IF Top.through[k] THEN Top.cases[k + 1] ELSE Top.after
  OBVIOUS
<1>4. q \in DOMAIN L /\ \A A, T : Solves(A, T, src') => Passes(A, T, <<e, "at">>, L[q])
  <2>0. DOMAIN L = 1 .. Len(blocks)
    BY DEF BlocksTraced, MayEnd
  <2>1. CASE ~ Top.through[k]
    <3>1. q = Top.after /\ L[q] = <<Top.at, "after">>
      BY <1>3, <2>1 DEF MadeFor, MayEnd
    <3>2. src[e].op = "endcase"
      BY <1>2, <2>1
    <3>3. \A A, T : Solves(A, T, src') => Passes(A, T, <<e, "at">>, <<Top.at, "after">>)
      BY <1>2, <3>2, CaseSays
    <3> QED
      BY <1>1, <2>0, <3>1, <3>3
  <2>2. CASE Top.through[k]
    <3>1. k # Len(Top.cases)
      BY <1>1, <2>2 DEF MayEnd
    <3>2. k < Len(Top.cases) /\ k + 1 \in 1 .. Len(Top.cases)
      BY <1>1, <3>1
    <3>3. q = Top.cases[k + 1] /\ s[k + 1] = e + 1 /\ src[e].op = "fallthrough"
      BY <1>2, <1>3, <2>2, <3>2
    <3>4. L[q] = <<s[k + 1] + 1, "at">>
      BY <3>2, <3>3 DEF CasesTraced, MayEnd
    <3>5. e + 1 + 1 = e + 2
      OBVIOUS
    <3>6. L[q] = <<e + 2, "at">>
      BY <3>3, <3>4, <3>5
    <3>7. \A A, T : Solves(A, T, src') => Passes(A, T, <<e, "at">>, <<e + 2, "at">>)
      BY <1>2, <3>3, CaseSays
    <3> QED
      BY <1>1, <2>0, <3>2, <3>3, <3>6, <3>7
  <2> QED
    BY <2>1, <2>2
<1>5. Good(L, src, blocks[x], L[x], OpenAt(<<e, "at">>))
  BY <1>0, <1>1, <1>2 DEF BlocksTraced, MayEnd
<1>6. blocks'[x].term = Br(q)
  BY <1>0, <1>3
<1>7. Good(L, src', blocks'[x], L[x], Ended)
  BY <1>0, <1>4, <1>5, <1>6, OpenEnds
<1> QED
  BY <1>2, <1>7

\* The block a switch stands in ends.
LEMMA ChoosingGood ==
  ASSUME NEW L, NEW S, NEW b, NEW p, NEW n \in Nat, NEW cases \in Seq(Nat), n = Len(cases), NEW dflt,
         Good(L, src, blocks[b], L[b], Choosing(p)), Extends(src', src),
         blocks'[b].code = blocks[b].code, blocks'[b].term = Switch(<<dflt>> \o cases),
         dflt \in DOMAIN L /\ L[dflt] = <<p, "dflt">>, \A k \in 1 .. n : cases[k] \in DOMAIN L,
         \A A, T : Solves(A, T, src') => A[<<p, "cases">>] = [k \in 1 .. n |-> A[L[cases[k]]]]
  PROVE  Good(L, src', blocks'[b], L[b], Ended)
<1> DEFINE x  == It(p, "switch")
           to == blocks'[b].term.to
<1>1. Choosing(p)[1] = "switch" /\ Choosing(p)[2][1] = p
  BY DEF Choosing
<1>2. Holds(src', blocks'[b], L[b], x)
  <2> SUFFICES ASSUME L[b] # Nowhere PROVE Holds(src', blocks'[b], L[b], x)
    BY DEF Holds
  <2>1. Shaped(L, blocks[b], Choosing(p)) /\ \A A, T : Solves(A, T, src) => Right(A, T, L, blocks[b], L[b], Choosing(p))
    BY DEF Good
  <2>2. blocks'[b].code # << >> /\ Last(blocks'[b].code) = x
    BY <1>1, <2>1 DEF Shaped
  <2>3. ASSUME NEW A, NEW T, Solves(A, T, src') PROVE Starts(A, blocks'[b], L[b]) /\ Within(A, blocks'[b])
    <3>1. Right(A, T, L, blocks[b], L[b], Choosing(p))
      BY <2>1, <2>3 DEF Extends
    <3> QED
      BY <3>1 DEF Right, Starts, Within
  <2> HIDE DEF x
  <2> QED
    BY <2>2, <2>3 DEF Holds
<1>3. blocks'[b].term.kind # "none" /\ to = <<dflt>> \o cases
  BY DEF Switch
<1>4. /\ to # << >> /\ DOMAIN to = 1 .. n + 1 /\ to[1] = dflt
      /\ \A i \in 1 .. n : to[i + 1] = cases[i]
      /\ \A i \in 1 .. n + 1 : i = 1 \/ (i - 1 \in 1 .. n /\ to[i] = cases[i - 1])
  BY <1>3
<1>5. x.tag \in Decisions /\ \A A : Flow(A, x) = <<A[<<p, "dflt">>]>> \o A[<<p, "cases">>]
  BY FlowOf DEF It, Decisions
<1> HIDE DEF x, to
<1>6. \A i \in DOMAIN to : to[i] \in DOMAIN L
  BY <1>4
<1>7. ASSUME NEW A, NEW T, Solves(A, T, src')
      PROVE  Flow(A, x) = [i \in DOMAIN to |-> A[L[to[i]]]]
  <2>1. PICK u : u = [k \in 1 .. n |-> A[L[cases[k]]]]
    OBVIOUS
  <2>2. Flow(A, x) = <<A[L[to[1]]]>> \o u
    <3>1. A[<<p, "cases">>] = u /\ A[<<p, "dflt">>] = A[L[to[1]]]
      BY <1>4, <1>7, <2>1
    <3>2. Flow(A, x) = <<A[<<p, "dflt">>]>> \o A[<<p, "cases">>]
      BY <1>5
    <3> QED
      BY <3>1, <3>2
  <2>3. PICK a : a = A[L[to[1]]]
    OBVIOUS
  <2>4. <<a>> \o u = [i \in 1 .. n + 1 |-> IF i = 1 THEN a ELSE u[i - 1]]
    <3>1. Len(u) = n /\ DOMAIN u = 1 .. n
      BY <2>1
    <3>2. \A k \in 1 .. n : u[k] \in {u[i] : i \in 1 .. n}
      OBVIOUS
    <3>3. u = [k \in 1 .. n |-> u[k]]
      BY <2>1
    <3>4. u \in Seq({u[i] : i \in 1 .. n})
      BY <3>2, <3>3, IsASeq
    <3> QED
      BY <3>1, <3>4
  <2>5. \A i \in 1 .. n + 1 : (IF i = 1 THEN a ELSE u[i - 1]) = A[L[to[i]]]
    BY <1>4, <2>1, <2>3
  <2>6. [i \in 1 .. n + 1 |-> IF i = 1 THEN a ELSE u[i - 1]] = [i \in 1 .. n + 1 |-> A[L[to[i]]]]
    BY <2>5
  <2> QED
    BY <1>4, <2>2, <2>3, <2>4, <2>6
<1>8. \A A, T : Solves(A, T, src') =>
           IF to = << >> THEN Flow(A, x) = << >>
           ELSE IF x.tag \in Decisions THEN Flow(A, x) = [i \in DOMAIN to |-> A[L[to[i]]]]
           ELSE \A i \in DOMAIN to : Flow(A, x) = <<A[L[to[i]]]>>
  BY <1>4, <1>5, <1>7
<1> QED
  BY <1>2, <1>3, <1>6, <1>8, HoldsEnded DEF to

\* The end of a switch.
LEMMA EndSwitchTraced ==
  ASSUME Known, TypeOK', Extra = {}, NEW L, NEW S, Traced(L, S), EndSwitch, status' # "failed"
  PROVE  \E M, R : Traced(M, R)'
<1> DEFINE p     == Top.at
           t0    == [op |-> "endswitch", of |-> p, form |-> "plain"]
           next  == <<Here + 1, "at">>
           n     == Len(Top.cases)
           to    == <<Top.dflt>> \o Top.cases
<1>1. Closing(L, S) /\ Top.kind = "switch" /\ Top.open = "none"
  BY ClosingIs DEF EndSwitch, Open
<1>2. /\ frames # << >> /\ contextBlock \in 1 .. Len(blocks) /\ Len(blocks) \in Nat /\ Here \in Nat
      /\ p \in Nat /\ p \in 1 .. Len(src) /\ frames \in Seq(Frame) /\ Top \in Frame
      /\ blocks \in Seq(BasicBlock)
  BY <1>1 DEF Closing
<1>3. /\ EndsSwitch(n, to) /\ contextBlock' = Top.after /\ frames' = Front(frames)
      /\ ~ (n > 0 /\ Top.through[n])
  BY SwitchEndIs
<1>4. src' = Append(src, t0) /\ t0 \in Token /\ UNCHANGED <<funcs, contextCondAfter>>
  <2>1. t0 \in Token
    BY <1>2 DEF Token, Ops, Forms
  <2>2. src' = Append(src, t0) /\ UNCHANGED <<funcs, contextCondAfter>>
    BY DEF EndSwitch, Put, stacks
  <2> QED
    BY <2>1, <2>2
<1>5. /\ Top.after \in 1 .. Len(blocks) /\ Top.dflt \in 1 .. Len(blocks) /\ Top.cases \in Seq(Block)
      /\ n \in Nat /\ \A k \in 1 .. n : Top.cases[k] \in 1 .. Len(blocks)
  BY <1>1, <1>2, SwitchIn
<1>6. /\ MadeFor(L, S, Top.after, <<p, "after">>) /\ L[Top.dflt] = <<p, "dflt">>
      /\ S[Top.pre] = Choosing(p) /\ Len(Top.cases) = Len(Top.through)
  <2>1. SwitchTraced(Top, contextBlock, L, S, src)
    BY <1>2 DEF Traced
  <2> QED
    BY <1>1, <2>1 DEF SwitchTraced
<1>7. contextBlock = Top.pre
  <2>1. SwitchAt(Top, contextBlock, contextFunc, blocks)
    BY <1>2 DEF Known, CallsRight
  <2> QED
    BY <1>1, <2>1 DEF SwitchAt
<1>8. PICK s : CasesTraced(Top, s, L, S, src)
  <2>1. SwitchTraced(Top, contextBlock, L, S, src)
    BY <1>2 DEF Traced
  <2> QED
    BY <1>1, <2>1 DEF SwitchTraced
<1>9. /\ blocks[Top.after].code = << >> /\ blocks[Top.after].term = NoTerm
      /\ L[Top.after] = <<p, "after">> /\ S[Top.after] = New
  BY <1>5, <1>6, MadeIs
<1>10. /\ Extends(src', src)
       /\ \A A, T : Solves(A, T, src') => Same(A, T, <<p, "after">>, next)
  <2>1. Extends(src', src) /\ \A A, T : Solves(A, T, src') => Says(A, T, t0, Here, CasesBefore(src', Here))
    BY <1>4, Speaks
  <2>2. \A A, T : Solves(A, T, src') => Same(A, T, <<p, "after">>, next)
    BY <2>1 DEF Says, Closers
  <2> QED
    BY <2>1, <2>2
<1>11. \A A, T : Solves(A, T, src') => A[<<p, "cases">>] = [k \in 1 .. n |-> A[L[Top.cases[k]]]]
  <2>1. t0.op = "endswitch" /\ t0.of = Top.at
    OBVIOUS
  <2> HIDE DEF t0
  <2> QED
    BY <1>1, <1>2, <1>4, <1>5, <1>8, <2>1, SwitchSays
<1> HIDE DEF p, t0, n, to, next
<1>12. DOMAIN L = 1 .. Len(blocks) /\ BlocksTraced(L, S)
  BY DEF Traced, BlocksTraced
<1>13. PICK e, b : e = contextBlock /\ b = Top.after
  OBVIOUS
<1>14. \A x \in CaseBlocks : x \in 1 .. Len(blocks) /\ x # e =>
         (\E q : S[x] = OpenAt(<<q, "at">>)) /\ Good(L, src', blocks'[x], L[x], Ended)
  <2> SUFFICES ASSUME NEW x \in CaseBlocks, x \in 1 .. Len(blocks), x # e
               PROVE  (\E q : S[x] = OpenAt(<<q, "at">>)) /\ Good(L, src', blocks'[x], L[x], Ended)
    OBVIOUS
  <2>0. MayEnd(L, S, s)
    BY <1>1, <1>2, <1>3, <1>6, <1>8, <1>12 DEF MayEnd, n, p
  <2>1. PICK k \in 1 .. n : /\ Top.cases[k] = x
                            /\ blocks'[x].term = Br(IF Top.through[k] THEN Top.cases[k + 1] ELSE Top.after)
    BY <1>3, <1>13 DEF EndsSwitch
  <2>2. blocks'[x].code = blocks[x].code
    BY <1>3 DEF EndsSwitch
  <2> QED
    <3>1. LeavesCase(k, x) /\ k \in 1 .. Len(Top.cases) /\ Extends(src', src)
      BY <1>10, <2>1, <2>2 DEF LeavesCase, n
    <3> QED
      BY <2>0, <3>1, CaseGood
<1>15. CaseBlocks \subseteq 1 .. Len(blocks) /\ e \notin CaseBlocks /\ b \notin CaseBlocks /\ e # b
  <2>1. \A k \in 1 .. n : \E q : S[Top.cases[k]] = OpenAt(<<q, "at">>)
    <3>1. TAKE k \in 1 .. n
    <3>2. CaseEnds(Top, k, s, S, src)
      BY <1>6, <1>8 DEF CasesTraced, n
    <3> QED
      BY <3>2 DEF CaseEnds
  <2>2. S[e] = Choosing(p) /\ S[b] = New
    BY <1>6, <1>7, <1>9, <1>13
  <2> QED
    BY <1>5, <2>1, <2>2, StatesDiffer DEF CaseBlocks, n
<1>16. e \in 1 .. Len(blocks) /\ b \in 1 .. Len(blocks)
  BY <1>2, <1>5, <1>13
<1>17. /\ Len(blocks') = Len(blocks)
       /\ \A x \in 1 .. Len(blocks) : /\ blocks'[x].fn = blocks[x].fn
                                      /\ x # e /\ x \notin CaseBlocks => blocks'[x] = blocks[x]
       /\ blocks'[e].code = blocks[e].code /\ blocks'[e].term = Switch(to)
  <2>1. \A x \in 1 .. Len(blocks) : x # e /\ x \notin CaseBlocks => blocks'[x] = blocks[x]
    <3> TAKE x \in 1 .. Len(blocks)
    <3> HAVE x # e /\ x \notin CaseBlocks
    <3>1. ~ \E k \in 1 .. n : Top.cases[k] = x
      BY DEF CaseBlocks, n
    <3> QED
      BY <1>3, <1>13, <3>1 DEF EndsSwitch
  <2> QED
    BY <1>3, <1>13, <1>16, <2>1 DEF EndsSwitch
<1>18. Good(L, src', blocks'[e], L[e], Ended)
  <2>1. Good(L, src, blocks[e], L[e], Choosing(p))
    BY <1>6, <1>7, <1>12, <1>13, <1>16 DEF BlocksTraced
  <2>2. Top.cases \in Seq(Nat) /\ n = Len(Top.cases)
    <3>1. Block \subseteq Nat
      BY DEF Block
    <3> QED
      BY <1>5, <3>1, SeqMonotonic DEF n
  <2>3. Top.dflt \in DOMAIN L /\ L[Top.dflt] = <<p, "dflt">> /\ \A k \in 1 .. n : Top.cases[k] \in DOMAIN L
    BY <1>5, <1>6, <1>12
  <2> QED
    BY <1>5, <1>10, <1>11, <1>17, <2>1, <2>2, <2>3, ChoosingGood DEF to
<1>19. Good(L, src', blocks'[b], L[b], OpenAt(next)) /\ blocks'[b].term = NoTerm
  <2>1. blocks'[b] = blocks[b]
    BY <1>15, <1>16, <1>17
  <2> QED
    BY <1>9, <1>10, <1>13, <2>1, EmptyOpen
<1>20. PICK C : C = CaseBlocks
  OBVIOUS
<1>21. PICK R : R = [y \in 1 .. Len(blocks) |-> IF y = e \/ y \in C THEN Ended
                                                ELSE IF y = b THEN OpenAt(next) ELSE S[y]]
  OBVIOUS
<1>22. PICK W : W = {e, b} \cup C
  OBVIOUS
<1>23. BlocksNext(L, S, L, R, W) /\ R[b] = OpenAt(next) /\ R[e] = Ended
  <2>2. /\ DOMAIN R = 1 .. Len(blocks) /\ R[e] = Ended /\ R[b] = OpenAt(next)
        /\ \A y \in C : R[y] = Ended
        /\ \A y \in 1 .. Len(blocks) : y \notin W => R[y] = S[y]
    BY <1>15, <1>16, <1>20, <1>21, <1>22
  <2>3. \A y \in 1 .. Len(blocks) :
           /\ blocks'[y].fn = blocks[y].fn
           /\ y \notin W => R[y] = S[y] /\ blocks'[y] = blocks[y]
           /\ y \in W => /\ Good(L, src', blocks'[y], L[y], R[y])
                         /\ R[y] = Ended \/ blocks'[y].term = NoTerm
                              \/ Back(y, frames', contextBlock')
    BY <1>14, <1>15, <1>17, <1>18, <1>19, <1>20, <1>22, <2>2
  <2> QED
    BY <1>2, <1>12, <1>17, <2>2, <2>3, WritesOnly
<1>24. OfTop(L, S, W)
  <2>1. L[b][1] = Top.at /\ S[b] = New /\ S[e] = Choosing(p)
    BY <1>6, <1>7, <1>9, <1>13 DEF p
  <2>2. \A x \in C : \E q : S[x] = OpenAt(<<q, "at">>)
    BY <1>14, <1>15, <1>20
  <2> QED
    BY <1>22, <2>1, <2>2 DEF OfTop
<1>25. contextBlock \in W
  BY <1>13, <1>22
<1>26. frames' # << >> /\ Last(frames').kind # "switch"
  BY <1>1, <1>3, Outer DEF Closing
<1>27. Current(L, R)'
  <2>1. t0.op = "endswitch"
    BY DEF t0
  <2>2. MayJump(blocks'[contextBlock'].term, L[contextBlock'], contextCondAfter', Len(contextCondAfter'))
    BY <1>3, <1>13, <1>19 DEF MayJump
  <2>3. R[contextBlock'] = OpenAt(<<Here + 1, "at">>)
    BY <1>3, <1>13, <1>23 DEF next
  <2> QED
    BY <1>4, <1>26, <2>1, <2>2, <2>3, CurrentOpen
<1>28. Traced(L, R)'
  <2>1. Top.kind # "func" /\ Top.pre \in W /\ R[Top.pre] = Ended
    BY <1>1, <1>7, <1>13, <1>22, <1>23
  <2> QED
    BY <1>1, <1>3, <1>4, <1>10, <1>23, <1>24, <1>25, <1>27, <2>1, PopMakes
<1> QED
  BY <1>28

-----------------------------------------------------------------------------
(* Functions                                                                 *)

\* A function is entered.
Entering(g, f, entry) ==
  /\ g \in Frame /\ frames' = Append(frames, g) /\ Last(frames') = g /\ frames' # << >>
  /\ g.kind = "func" /\ g.fn = f /\ g.at = Here
  /\ g.prevBlock = contextBlock /\ g.entry.cond = Len(contextCondAfter)
  /\ Remembers(g) = contextBlock /\ contextBlock' = entry /\ contextCondAfter' = contextCondAfter

LEMMA EntersIs ==
  ASSUME Known, TypeOK', NEW f, NEW entry, NEW results, EnterFunc(f, entry, results)
  PROVE  \E g : Entering(g, f, entry)
<1> DEFINE g == [kind |-> "func", at |-> Here, entry |-> Heights, fn |-> f,
                 prevFunc |-> contextFunc, prevBlock |-> contextBlock]
<1>1. frames \in Seq(Frame) /\ frames' \in Seq(Frame)
  BY DEF Known, TypeOK
<1>2. frames' = Append(frames, g) /\ contextBlock' = entry /\ contextCondAfter' = contextCondAfter
  BY DEF EnterFunc
<1>3. g \in Frame
  BY <1>1, <1>2, Pushed
<1>4. /\ g.kind = "func" /\ g.fn = f /\ g.at = Here
      /\ g.prevBlock = contextBlock /\ g.entry.cond = Len(contextCondAfter)
      /\ Remembers(g) = contextBlock
  BY DEF Heights, Remembers
<1> HIDE DEF g
<1>5. Last(frames') = g /\ frames' # << >>
  BY <1>1, <1>2, <1>3, BackOpened
<1> QED
  BY <1>2, <1>3, <1>4, <1>5 DEF Entering

\* What a function begun says.
LEMMA FuncSays ==
  ASSUME Known, NEW t \in Token, src' = Append(src, t), t.op = "func"
  PROVE  /\ Extends(src', src)
         /\ \A A, T : Solves(A, T, src') =>
              /\ Same(A, T, <<Here, "at">>, <<Here, "after">>)
              /\ Same(A, T, <<Here, "entry">>, <<Here + 1, "at">>)
              /\ t.form = "main" => Same(A, T, <<0, "entry">>, <<Here + 1, "at">>)
<1>1. Extends(src', src) /\ \A A, T : Solves(A, T, src') => Says(A, T, t, Here, CasesBefore(src', Here))
  BY Speaks
<1>2. ASSUME NEW A, NEW T, Solves(A, T, src')
      PROVE  /\ Same(A, T, <<Here, "at">>, <<Here, "after">>)
             /\ Same(A, T, <<Here, "entry">>, <<Here + 1, "at">>)
             /\ t.form = "main" => Same(A, T, <<0, "entry">>, <<Here + 1, "at">>)
  <2>1. Says(A, T, t, Here, CasesBefore(src', Here))
    BY <1>1, <1>2
  <2> QED
    BY <2>1 DEF Says
<1> QED
  BY <1>1, <1>2

\* At package level nothing is compiled.
LEMMA PackageLevel ==
  ASSUME Known, frames = << >>
  PROVE  contextBlock = NoBlock
<1>1. Len(frames) = 0
  OBVIOUS
<1>2. contextFunc = 0 /\ (contextFunc = 0 => contextBlock = 0)
  BY <1>1 DEF Known, OwnedNow, Owned, OwnerAt
<1> QED
  BY <1>2 DEF NoBlock

\* The body of main begins.
LEMMA BeginMainTraced ==
  ASSUME Known, TypeOK', Extra = {}, NEW L, NEW S, Traced(L, S), BeginMain
  PROVE  \E M, R : Traced(M, R)'
<1> DEFINE t0   == [op |-> "func", of |-> 0, form |-> "main"]
           next == <<Here + 1, "at">>
<1>1. /\ frames = << >> /\ ~ funcs[Main].complete /\ EnterFunc(Main, 2, 0)
      /\ funcs' = [funcs EXCEPT ![Main].at = Here]
      /\ src' = Append(src, t0) /\ t0 \in Token /\ t0.op = "func" /\ t0.form = "main"
      /\ UNCHANGED blocks
  BY DEF BeginMain, Put, Token, Ops, Forms
<1> HIDE DEF t0
<1>2. PICK g : Entering(g, Main, 2)
  BY <1>1, EntersIs
<1>3. contextBlock = NoBlock
  BY <1>1, PackageLevel
<1>4. /\ Len(blocks) \in Nat /\ 2 \in 1 .. Len(blocks) /\ Len(funcs) \in Nat
      /\ Main \in 1 .. Len(funcs) /\ Here # 0 /\ funcs \in Seq(Func)
  <2>1. Here \in Nat \ {0}
    BY Numbers DEF Known
  <2> QED
    BY <2>1, Numbers DEF Known, Main, TypeOK
<1>5. /\ blocks[2].code = << >> /\ blocks[2].term = NoTerm /\ L[2] = <<0, "entry">> /\ S[2] = New
  <2>1. MainWaits(frames, funcs)
    BY <1>1 DEF MainWaits
  <2>2. MadeFor(L, S, 2, <<0, "entry">>)
    BY <2>1 DEF Traced, MadeFor
  <2> QED
    BY <1>4, <2>2, MadeIs
<1>6. /\ Extends(src', src)
      /\ \A A, T : Solves(A, T, src') => Same(A, T, <<0, "entry">>, next)
  BY <1>1, FuncSays
<1>7. Good(L, src', blocks'[2], L[2], OpenAt(next)) /\ blocks'[2].term = NoTerm
  <2>1. blocks'[2] = blocks[2]
    BY <1>1
  <2> QED
    BY <1>5, <1>6, <2>1, EmptyOpen
<1>8. PICK R : R = [y \in 1 .. Len(blocks) |-> IF y = 2 THEN OpenAt(next) ELSE S[y]]
  OBVIOUS
<1>9. BlocksNext(L, S, L, R, {2}) /\ R[2] = OpenAt(next)
  <2>1. \A x \in 1 .. Len(blocks) : blocks'[x].fn = blocks[x].fn /\ blocks'[x] = blocks[x]
    BY <1>1
  <2>2. BlocksTraced(L, S) /\ Len(blocks') = Len(blocks)
    BY <1>1 DEF Traced
  <2>3. DOMAIN R = 1 .. Len(blocks) /\ R[2] = OpenAt(next) /\ \A y \in 1 .. Len(blocks) : y # 2 => R[y] = S[y]
    BY <1>4, <1>8
  <2>4. \A x \in 1 .. Len(blocks) :
           /\ blocks'[x].fn = blocks[x].fn
           /\ x \notin {2} => R[x] = S[x] /\ blocks'[x] = blocks[x]
           /\ x \in {2} => /\ Good(L, src', blocks'[x], L[x], R[x])
                           /\ R[x] = Ended \/ blocks'[x].term = NoTerm
                                \/ Back(x, frames', contextBlock')
    BY <1>7, <2>1, <2>3
  <2> QED
    BY <1>4, <2>2, <2>3, <2>4, WritesOnly
<1>10. \A k \in 1 .. Len(funcs) : /\ funcs'[k].kind = funcs[k].kind /\ funcs'[k].entry = funcs[k].entry
                                  /\ k # Main => funcs'[k] = funcs[k]
  <2> TAKE k \in 1 .. Len(funcs)
  <2>1. funcs[k] \in Func
    BY <1>4, ElementOfSeq
  <2>2. k # Main => funcs'[k] = funcs[k]
    BY <1>1, <1>4
  <2>3. k = Main => funcs'[k] = [funcs[k] EXCEPT !.at = Here]
    BY <1>1, <1>4
  <2> QED
    BY <2>1, <2>2, <2>3 DEF Func
<1>11. funcs'[Main].at = Here /\ Len(funcs') = Len(funcs)
  <2>1. funcs[Main] \in Func
    BY <1>4, ElementOfSeq
  <2>2. funcs'[Main] = [funcs[Main] EXCEPT !.at = Here]
    BY <1>1, <1>4
  <2>3. Len(funcs') = Len(funcs)
    BY <1>1, <1>4
  <2> QED
    BY <2>1, <2>2, <2>3 DEF Func
<1>12. EntriesTraced(L)'
  <2>1. ASSUME NEW f \in 1 .. Len(funcs), funcs'[f].kind \notin Unlabelled
        PROVE  /\ funcs'[f].entry \in 1 .. Len(blocks') /\ blocks'[funcs'[f].entry].fn = f
               /\ L[funcs'[f].entry] = <<IF f = Main THEN 0 ELSE funcs'[f].at, "entry">>
               /\ funcs'[f].at # 0
    <3>1. /\ funcs[f].entry \in 1 .. Len(blocks) /\ blocks[funcs[f].entry].fn = f
          /\ L[funcs[f].entry] = <<IF f = Main THEN 0 ELSE funcs[f].at, "entry">> /\ funcs[f].at # 0
      BY <1>10, <2>1 DEF Traced, EntriesTraced, EntryOfFunc
    <3>2. funcs'[f].entry = funcs[f].entry /\ (f # Main => funcs'[f].at = funcs[f].at)
      BY <1>10
    <3> QED
      BY <1>1, <1>4, <1>11, <3>1, <3>2
  <2> QED
    BY <1>11, <2>1 DEF EntriesTraced, EntryOfFunc
<1>13. ~ MainWaits(frames', funcs')
  <2>1. Len(frames') \in 1 .. Len(frames') /\ frames'[Len(frames')] = g
    <3>1. frames \in Seq(Frame)
      BY DEF Known, TypeOK
    <3> QED
      BY <1>1, <1>2 DEF Entering
  <2> QED
    BY <1>2, <2>1 DEF MainWaits, Entering
<1>14. FrameTraced(g, contextBlock', L, R, blocks', contextCondAfter') /\ SwitchTraced(g, contextBlock', L, R, src')
  BY <1>2, <1>3 DEF FrameTraced, IfTraced, ForTraced, FuncTraced, AppendTraced, SwitchTraced, Entering
<1>15. Current(L, R)'
  <2>1. MayJump(blocks'[contextBlock'].term, L[contextBlock'], contextCondAfter', Len(contextCondAfter'))
    BY <1>2, <1>7 DEF MayJump, Entering
  <2>2. R[contextBlock'] = OpenAt(<<Here + 1, "at">>) /\ Last(frames').kind = "func"
    BY <1>2, <1>9 DEF Entering
  <2> QED
    BY <1>1, <2>1, <2>2, CurrentOpen
<1> HIDE DEF next
<1>16. Traced(L, R)'
  <2>1. g \in Frame /\ frames' = Append(frames, g) /\ contextCondAfter' = contextCondAfter /\ Remembers(g) = contextBlock
    BY <1>2 DEF Entering
  <2>2. \A k \in 1 .. Len(funcs) : funcs'[k].kind = funcs[k].kind
    BY <1>10
  <2>3. frames # << >> => Free(S, {2})
    BY <1>1
  <2> QED
    BY <1>6, <1>9, <1>12, <1>13, <1>14, <1>15, <2>1, <2>2, <2>3, PushTraced
<1> QED
  BY <1>16

\* The blocks a function begins with.
FuncBlocks(kind, n) ==
  /\ Len(blocks') = Len(blocks) + n /\ n \in {1, 2} /\ (n = 2 <=> kind = "method")
  /\ \A x \in 1 .. Len(blocks) : /\ blocks'[x].fn = blocks[x].fn
                                 /\ x # 1 \/ kind # "init" => blocks'[x] = blocks[x]
  /\ blocks'[Fresh(1)].code = << >> /\ blocks'[Fresh(1)].term = NoTerm
  /\ blocks'[Fresh(1)].fn = Len(funcs) + 1
  /\ kind = "method" => blocks'[Fresh(2)].fn = Len(funcs) + 2

LEMMA FuncBlocksAre ==
  ASSUME Known, NEW kind \in {"init", "named", "method", "literal"}, NEW results \in 0 .. 2,
         BeginFunc(kind, results)
  PROVE  \E n : FuncBlocks(kind, n)
<1> DEFINE f     == Len(funcs) + 1
           entry == NewBlock(f)
           jump  == BlockOf(f + 1, << >>, IF results = 1 THEN RetVal ELSE RetVoid)
           call  == [at |-> Here, tag |-> "call"]
           n     == IF kind = "method" THEN 2 ELSE 1
<1>1. Enters(kind, results)
  BY BeginFuncEnters DEF Known
<1>2. blocks' = CASE kind = "init"   -> Append(Emit(blocks, 1, call), entry)
                  [] kind = "method" -> blocks \o <<entry, jump>>
                  [] OTHER           -> Append(blocks, entry)
  BY DEF BeginFunc
<1>3. /\ blocks \in Seq(BasicBlock) /\ Len(blocks) \in Nat /\ 1 \in 1 .. Len(blocks)
      /\ Len(funcs) \in Nat /\ f \in Nat \ {0} /\ call \in Item
  <2>1. blocks \in Seq(BasicBlock) /\ Len(blocks) \in Nat /\ 1 \in 1 .. Len(blocks) /\ Len(funcs) \in Nat
    BY Numbers DEF Known, TypeOK
  <2>2. call \in Item
    BY Numbers DEF Item, Tags, Known
  <2> QED
    BY <2>1, <2>2
<1> HIDE DEF f, call
<1>4. entry \in BasicBlock /\ entry.code = << >> /\ entry.term = NoTerm /\ entry.fn = f
  <2>1. entry \in BasicBlock
    BY <1>3, MadeOf
  <2> QED
    BY <2>1 DEF NewBlock, BlockOf
<1> HIDE DEF entry, jump
<1>5. \A x \in 1 .. Len(blocks) : x # 1 \/ kind # "init" => blocks'[x] = blocks[x]
  <2>1. CASE kind = "init"
    <3>1. PICK bs : bs = Emit(blocks, 1, call)
      OBVIOUS
    <3>2. bs \in Seq(BasicBlock) /\ Len(bs) = Len(blocks) /\ \A x \in 1 .. Len(blocks) : x # 1 => bs[x] = blocks[x]
      BY <1>3, <3>1, EmitIs DEF Edits
    <3>3. blocks' = Append(bs, entry)
      BY <1>2, <2>1, <3>1
    <3>4. \A x \in 1 .. Len(bs) : blocks'[x] = bs[x]
      BY <1>4, <3>2, <3>3, AppendType
    <3> QED
      BY <2>1, <3>2, <3>4
  <2>2. CASE kind = "method"
    <3>1. blocks' = blocks \o <<entry, jump>>
      BY <1>2, <2>2
    <3> QED
      BY <1>3, <3>1
  <2>3. CASE kind \notin {"init", "method"}
    <3>1. blocks' = Append(blocks, entry)
      BY <1>2, <2>3
    <3> QED
      BY <1>3, <1>4, <3>1, AppendType
  <2> QED
    BY <2>1, <2>2, <2>3
<1>6. blocks'[Len(blocks) + 1] = entry
  <2>1. CASE kind = "init"
    <3>1. PICK bs : bs = Emit(blocks, 1, call)
      OBVIOUS
    <3>2. bs \in Seq(BasicBlock) /\ Len(bs) = Len(blocks)
      BY <1>3, <3>1, EmitIs DEF Edits
    <3>3. blocks' = Append(bs, entry)
      BY <1>2, <2>1, <3>1
    <3> QED
      BY <1>4, <3>2, <3>3, AppendType
  <2>2. CASE kind = "method"
    <3>1. blocks' = blocks \o <<entry, jump>>
      BY <1>2, <2>2
    <3> QED
      BY <1>3, <3>1
  <2>3. CASE kind \notin {"init", "method"}
    <3>1. blocks' = Append(blocks, entry)
      BY <1>2, <2>3
    <3> QED
      BY <1>3, <1>4, <3>1, AppendType
  <2> QED
    BY <2>1, <2>2, <2>3
<1>7. Fresh(1) = Len(blocks) + 1 /\ Fresh(2) = Len(blocks) + 2
  BY DEF Fresh
<1>8. /\ Len(blocks') = Len(blocks) + n /\ n \in {1, 2} /\ (n = 2 <=> kind = "method")
      /\ \A x \in 1 .. Len(blocks) : blocks'[x].fn = blocks[x].fn
      /\ kind = "method" => blocks'[Len(blocks) + 2].fn = Len(funcs) + 2
  <2>1. f + 1 = Len(funcs) + 2
    BY <1>3 DEF f
  <2> QED
    BY <1>1, <2>1 DEF Enters, f
<1> HIDE DEF n
<1>9. FuncBlocks(kind, n)
  <2>1. f = Len(funcs) + 1
    BY DEF f
  <2> QED
    BY <1>4, <1>5, <1>6, <1>7, <1>8, <2>1 DEF FuncBlocks
<1> QED
  BY <1>9

\* The functions begin where they began, and the new one in its first block.
LEMMA EntriesMore ==
  ASSUME Known, NEW L, NEW S, Traced(L, S), NEW M, NEW kind \in {"init", "named", "method", "literal"},
         NEW results \in 0 .. 2, FuncsAdded(kind, results), NEW n, FuncBlocks(kind, n),
         \A x \in 1 .. Len(blocks) : M[x] = L[x], M[Fresh(1)] = <<Here, "entry">>
  PROVE  EntriesTraced(M)'
<1>1. /\ Len(funcs) \in Nat /\ 2 <= Len(funcs) /\ Len(blocks) \in Nat /\ Here \in Nat \ {0}
      /\ Len(funcs') = Len(funcs) + (IF kind = "method" THEN 2 ELSE 1)
      /\ Len(blocks') \in Nat /\ Len(blocks) < Len(blocks')
  <2>1. /\ Len(funcs) \in Nat /\ 2 <= Len(funcs) /\ Len(blocks) \in Nat /\ Here \in Nat \ {0}
    BY Numbers DEF Known
  <2> QED
    BY <2>1 DEF FuncsAdded, FuncBlocks
<1>2. ASSUME NEW f \in 1 .. Len(funcs), funcs'[f].kind \notin Unlabelled
      PROVE  /\ funcs'[f].entry \in 1 .. Len(blocks') /\ blocks'[funcs'[f].entry].fn = f
             /\ M[funcs'[f].entry] = <<IF f = Main THEN 0 ELSE funcs'[f].at, "entry">>
             /\ funcs'[f].at # 0
  <2>1. funcs'[f] = funcs[f]
    BY DEF FuncsAdded
  <2>2. /\ funcs[f].entry \in 1 .. Len(blocks) /\ blocks[funcs[f].entry].fn = f
        /\ L[funcs[f].entry] = <<IF f = Main THEN 0 ELSE funcs[f].at, "entry">> /\ funcs[f].at # 0
    BY <1>2, <2>1 DEF Traced, EntriesTraced, EntryOfFunc
  <2>3. blocks'[funcs[f].entry].fn = f /\ M[funcs[f].entry] = L[funcs[f].entry]
        /\ funcs[f].entry \in 1 .. Len(blocks')
    BY <1>1, <2>2 DEF FuncBlocks
  <2> QED
    BY <2>1, <2>2, <2>3
<1>3. ASSUME NEW f, f = Len(funcs) + 1
      PROVE  /\ funcs'[f].entry \in 1 .. Len(blocks') /\ blocks'[funcs'[f].entry].fn = f
             /\ M[funcs'[f].entry] = <<IF f = Main THEN 0 ELSE funcs'[f].at, "entry">>
             /\ funcs'[f].at # 0
  <2>1. funcs'[f] = NewFunc(kind, results, Fresh(1), FALSE)
    BY <1>3 DEF FuncsAdded
  <2>2. funcs'[f].entry = Fresh(1) /\ funcs'[f].at = Here
    BY <2>1 DEF NewFunc
  <2>3. Fresh(1) \in 1 .. Len(blocks')
    BY <1>1 DEF Fresh
  <2>4. f # Main
    BY <1>1, <1>3 DEF Main
  <2>5. blocks'[Fresh(1)].fn = f
    BY <1>3 DEF FuncBlocks
  <2> QED
    BY <1>1, <2>2, <2>3, <2>4, <2>5
<1>4. ASSUME NEW f, f = Len(funcs) + 2, kind = "method"
      PROVE  funcs'[f].kind = "jump"
  <2>1. funcs'[f] = NewFunc("jump", results, Fresh(2), TRUE)
    BY <1>4 DEF FuncsAdded
  <2> QED
    BY <2>1 DEF NewFunc
<1>5. \A f \in 1 .. Len(funcs') : \/ f \in 1 .. Len(funcs) \/ f = Len(funcs) + 1
                                  \/ kind = "method" /\ f = Len(funcs) + 2
  BY <1>1
<1>6. \A f \in 1 .. Len(funcs') : funcs'[f].kind \notin Unlabelled =>
        /\ funcs'[f].entry \in 1 .. Len(blocks') /\ blocks'[funcs'[f].entry].fn = f
        /\ M[funcs'[f].entry] = <<IF f = Main THEN 0 ELSE funcs'[f].at, "entry">>
        /\ funcs'[f].at # 0
  <2>1. "jump" \in Unlabelled
    BY DEF Unlabelled
  <2> QED
    BY <1>2, <1>3, <1>4, <1>5, <2>1, Zenon
<1> QED
  BY <1>6 DEF EntriesTraced, EntryOfFunc

\* A function is begun.
LEMMA BeginFuncTraced ==
  ASSUME Known, TypeOK', Extra = {}, NEW L, NEW S, Traced(L, S),
         NEW kind \in {"init", "named", "method", "literal"}, NEW results \in 0 .. 2,
         BeginFunc(kind, results)
  PROVE  \E M, R : Traced(M, R)'
<1> DEFINE t0   == [op |-> "func", of |-> 0, form |-> kind]
           next == <<Here + 1, "at">>
           done == <<Here, "after">>
<1>1. /\ EnterFunc(Len(funcs) + 1, Fresh(1), results)
      /\ src' = Append(src, t0) /\ t0 \in Token /\ t0.op = "func" /\ t0.form = kind
      /\ IF kind = "literal" THEN CanStand("func") ELSE frames = << >>
  BY DEF BeginFunc, Put, Token, Ops, Forms
<1> HIDE DEF t0
<1>2. PICK g : Entering(g, Len(funcs) + 1, Fresh(1))
  BY <1>1, EntersIs
<1>3. FuncsAdded(kind, results)
  BY BeginFuncAdds DEF Known
<1>4. PICK n : FuncBlocks(kind, n)
  BY FuncBlocksAre
<1>5. /\ Len(blocks) \in Nat /\ 1 \in 1 .. Len(blocks) /\ 2 \in 1 .. Len(blocks) /\ n \in Nat
      /\ Len(blocks') = Len(blocks) + n /\ Len(blocks') \in Nat /\ Here \in Nat /\ frames \in Seq(Frame)
      /\ 2 <= Len(funcs) /\ Len(funcs) \in Nat
  <2>1. /\ Len(blocks) \in Nat /\ 2 <= Len(blocks) /\ Here \in Nat
        /\ 2 <= Len(funcs) /\ Len(funcs) \in Nat
    BY Numbers DEF Known
  <2>2. frames \in Seq(Frame) /\ Len(blocks') = Len(blocks) + n /\ n \in {1, 2}
    BY <1>4 DEF Known, FuncBlocks, TypeOK
  <2> QED
    BY <2>1, <2>2
<1>6. /\ Extends(src', src)
      /\ \A A, T : Solves(A, T, src') => /\ Same(A, T, <<Here, "at">>, done)
                                         /\ Same(A, T, <<Here, "entry">>, next)
  BY <1>1, FuncSays
<1>7. kind = "literal" =>
        /\ frames # << >> /\ contextBlock \in 1 .. Len(blocks)
        /\ S[contextBlock] = OpenAt(<<Here, "at">>)
        /\ MayJump(blocks[contextBlock].term, L[contextBlock], contextCondAfter, Len(contextCondAfter))
        /\ Good(L, src, blocks[contextBlock], L[contextBlock], OpenAt(<<Here, "at">>))
  BY <1>1, Stands
<1>8. kind # "literal" => frames = << >> /\ contextBlock = NoBlock
  BY <1>1, PackageLevel
<1>9. PICK e : e = contextBlock
  OBVIOUS
<1>10. PICK M : M = [x \in 1 .. Len(blocks) + n |-> IF x <= Len(blocks) THEN L[x]
                                                    ELSE IF x = Fresh(1) THEN <<Here, "entry">>
                                                    ELSE Nowhere]
  OBVIOUS
<1>11. PICK R : R = [x \in 1 .. Len(blocks) + n |->
                       IF x <= Len(blocks) THEN IF kind = "literal" /\ x = e THEN OpenAt(done) ELSE S[x]
                       ELSE IF x = Fresh(1) THEN OpenAt(next) ELSE Ended]
  OBVIOUS
<1>12. PICK W : W = {x \in 1 .. Len(blocks) : (kind = "literal" /\ x = e) \/ (kind = "init" /\ x = 1)}
  OBVIOUS
<1>13. /\ DOMAIN M = 1 .. Len(blocks') /\ DOMAIN R = 1 .. Len(blocks')
       /\ \A x \in 1 .. Len(blocks) : /\ M[x] = L[x]
                                      /\ R[x] = IF kind = "literal" /\ x = e THEN OpenAt(done) ELSE S[x]
       /\ M[Fresh(1)] = <<Here, "entry">> /\ R[Fresh(1)] = OpenAt(next)
       /\ n = 2 => M[Fresh(2)] = Nowhere
       /\ \A x \in Len(blocks) + 1 .. Len(blocks') : x = Fresh(1) \/ (n = 2 /\ x = Fresh(2))
  <2>1. n \in {1, 2}
    BY <1>4 DEF FuncBlocks
  <2>2. /\ Fresh(1) \in 1 .. Len(blocks) + n /\ ~ (Fresh(1) <= Len(blocks))
        /\ n = 2 => Fresh(2) \in 1 .. Len(blocks) + n /\ ~ (Fresh(2) <= Len(blocks)) /\ Fresh(2) # Fresh(1)
        /\ \A x \in Len(blocks) + 1 .. Len(blocks') : x = Fresh(1) \/ (n = 2 /\ x = Fresh(2))
        /\ \A x \in 1 .. Len(blocks) : x \in 1 .. Len(blocks) + n /\ x <= Len(blocks)
    BY <1>5, <2>1 DEF Fresh
  <2> HIDE DEF done, next
  <2> QED
    BY <1>5, <1>10, <1>11, <2>2
<1>14. Labels(M, L)
  BY <1>5, <1>13 DEF Labels, Traced, BlocksTraced
<1>15. Wrote(L, S, M, R, W)
  <2>1. Len(blocks) <= Len(blocks')
    BY <1>5
  <2>2. \A x \in 1 .. Len(blocks) : x \notin W => ~ (kind = "literal" /\ x = e) /\ (x # 1 \/ kind # "init")
    BY <1>12
  <2>3. \A x \in 1 .. Len(blocks) : x # 1 \/ kind # "init" => blocks'[x] = blocks[x]
    BY <1>4 DEF FuncBlocks
  <2> HIDE DEF done, next
  <2> QED
    BY <1>13, <2>1, <2>2, <2>3 DEF Wrote
<1>16. Nowhere \notin Places /\ <<Here, "entry">> \in Places
  BY <1>5 DEF Nowhere, Places, Marks
<1>17. \A x \in W : Fine(M, R, x)
  <2> SUFFICES ASSUME NEW x \in W PROVE Fine(M, R, x)
    OBVIOUS
  <2>1. CASE kind = "literal"
    <3>1. x = e /\ x \in 1 .. Len(blocks) /\ blocks'[e] = blocks[e] /\ M[e] = L[e] /\ R[e] = OpenAt(done)
      BY <1>4, <1>12, <1>13, <2>1 DEF FuncBlocks
    <3>2. Good(M, src', blocks'[e], L[e], OpenAt(done))
      BY <1>6, <1>7, <1>9, <2>1, <3>1, GoodMoves
    <3>3. Back(e, frames', contextBlock')
      <4>1. Len(frames) \in 1 .. Len(frames)
        BY <1>5, <1>7, <2>1, EmptySeq
      <4>2. frames' = Append(frames, g) /\ g \in Frame /\ Remembers(g) = e
        BY <1>2, <1>9 DEF Entering
      <4>3. Pushes(frames, g, frames', contextBlock, contextBlock')
        BY <1>5, <4>2, PushReturning
      <4>4. Len(frames) \in 1 .. Len(frames') /\ Returning(Len(frames), frames', contextBlock') = e
        BY <4>1, <4>2, <4>3 DEF Pushes
      <4> QED
        BY <4>4 DEF Back
    <3> QED
      BY <3>1, <3>2, <3>3 DEF Fine, Rests
  <2>2. CASE kind = "init"
    <3>1. x = 1
      BY <1>12, <2>2
    <3>2. M[1] = Nowhere
      BY <1>5, <1>13 DEF Traced
    <3> QED
      BY <3>1, <3>2 DEF Fine, Good, Rests
  <2> QED
    BY <1>12, <2>1, <2>2
<1>18. ASSUME NEW x \in Len(blocks) + 1 .. Len(blocks')
       PROVE  /\ Fine(M, R, x)
              /\ \/ M[x] \in Places
                 \/ M[x] = Nowhere /\ funcs'[blocks'[x].fn].kind \in Unlabelled
  <2>1. CASE x = Fresh(1)
    <3>1. blocks'[x].code = << >> /\ blocks'[x].term = NoTerm
      BY <1>4, <2>1 DEF FuncBlocks
    <3>2. M[x] = <<Here, "entry">> /\ R[x] = OpenAt(next)
      BY <1>13, <2>1
    <3>3. Good(M, src', blocks'[x], M[x], R[x])
      BY <1>6, <3>1, <3>2, EmptyOpen
    <3> QED
      BY <1>16, <3>1, <3>2, <3>3 DEF Fine, Rests
  <2>2. CASE n = 2 /\ x = Fresh(2)
    <3>1. M[x] = Nowhere
      BY <1>13, <2>2
    <3>2. blocks'[x].fn = Len(funcs) + 2 /\ kind = "method"
      BY <1>4, <2>2 DEF FuncBlocks
    <3>3. funcs'[Len(funcs) + 2] = NewFunc("jump", results, Fresh(2), TRUE)
      BY <1>3, <3>2 DEF FuncsAdded
    <3>4. funcs'[Len(funcs) + 2].kind \in Unlabelled
      BY <3>3 DEF NewFunc, Unlabelled
    <3> QED
      BY <3>1, <3>2, <3>4 DEF Fine, Good, Rests
  <2> QED
    BY <1>13, <2>1, <2>2
<1>19. BlocksNext(L, S, M, R, W)
  <2>1. \A b \in 1 .. Len(blocks) : blocks'[b].fn = blocks[b].fn
    BY <1>4 DEF FuncBlocks
  <2> QED
    BY <1>15, <1>17, <1>18, <2>1 DEF BlocksNext
<1>20. EntriesTraced(M)'
  BY <1>3, <1>4, <1>13, EntriesMore
<1>21. frames # << >> => Free(S, W)
  <2>1. frames # << >> => kind = "literal"
    BY <1>1
  <2>2. kind = "literal" => \A x \in W : x = e
    BY <1>12
  <2> QED
    BY <1>7, <1>9, <2>1, <2>2 DEF Free
<1>22. MainWaits(frames', funcs') => MainWaits(frames, funcs)
  <2>1. funcs'[Main] = funcs[Main]
    <3>1. Main \in 1 .. Len(funcs)
      BY <1>5 DEF Main
    <3> QED
      BY <1>3, <3>1 DEF FuncsAdded
  <2>2. frames' = Append(frames, g) /\ g \in Frame
    BY <1>2 DEF Entering
  <2>3. \A i \in 1 .. Len(frames) : i \in 1 .. Len(frames') /\ frames'[i] = frames[i]
    BY <1>5, <2>2, PushReturning DEF Pushes
  <2> QED
    BY <2>1, <2>3 DEF MainWaits
<1>23. MainWaits(frames', funcs') => 2 \notin W
  <2>1. CASE kind = "literal"
    <3>1. frames # << >> /\ OfTop(L, S, W)
      BY <1>7, <1>21, <2>1, FreeOfTop
    <3> QED
      BY <1>22, <3>1, MainSpared
  <2>2. CASE kind # "literal"
    BY <1>12, <2>2
  <2> QED
    BY <2>1, <2>2
<1>24. FrameTraced(g, contextBlock', M, R, blocks', contextCondAfter')
  <2>1. g.kind = "func" /\ g.at = Here /\ g.prevBlock = e /\ g.entry.cond = Len(contextCondAfter)
        /\ contextCondAfter' = contextCondAfter
    BY <1>2, <1>9 DEF Entering
  <2>2. ASSUME e # NoBlock
        PROVE  R[e] = OpenAt(done) /\ MayJump(blocks'[e].term, M[e], contextCondAfter, Len(contextCondAfter))
    <3>1. kind = "literal"
      BY <1>8, <1>9, <2>2
    <3>2. e \in 1 .. Len(blocks) /\ MayJump(blocks[e].term, L[e], contextCondAfter, Len(contextCondAfter))
      BY <1>7, <1>9, <3>1
    <3>3. blocks'[e] = blocks[e]
      BY <1>4, <3>1, <3>2 DEF FuncBlocks
    <3> QED
      BY <1>13, <3>1, <3>2, <3>3
  <2>3. FuncTraced(g, M, R, blocks', contextCondAfter')
    BY <2>1, <2>2 DEF FuncTraced
  <2> QED
    BY <2>1, <2>3 DEF FrameTraced, IfTraced, ForTraced, AppendTraced
<1>25. SwitchTraced(g, contextBlock', M, R, src')
  BY <1>2 DEF SwitchTraced, Entering
<1>26. Current(M, R)'
  <2>1. contextBlock' = Fresh(1) /\ Last(frames').kind = "func"
    BY <1>2 DEF Entering
  <2>2. MayJump(blocks'[contextBlock'].term, M[contextBlock'], contextCondAfter', Len(contextCondAfter'))
    BY <1>4, <2>1 DEF MayJump, FuncBlocks
  <2>3. R[contextBlock'] = OpenAt(<<Here + 1, "at">>)
    BY <1>13, <2>1
  <2> QED
    BY <1>1, <2>1, <2>2, <2>3, CurrentOpen
<1> HIDE DEF next, done
<1>27. Traced(M, R)'
  <2>1. g \in Frame /\ frames' = Append(frames, g) /\ contextCondAfter' = contextCondAfter /\ Remembers(g) = contextBlock
    BY <1>2 DEF Entering
  <2>2. \A k \in 1 .. Len(funcs) : funcs'[k].kind = funcs[k].kind
    BY <1>3 DEF FuncsAdded
  <2> QED
    BY <1>6, <1>19, <1>20, <1>21, <1>22, <1>23, <1>24, <1>25, <1>26, <2>1, <2>2, PushTraced
<1> QED
  BY <1>27

\* The end of a body.
Leaving(t0, x, ret) ==
  /\ t0 = [op |-> "endfunc", of |-> Top.at, form |-> "plain"] /\ t0 \in Token
  /\ x = It(Here, "ret") /\ x \in Item /\ ret \in {RetVal, RetVoid}
  /\ src' = Append(src, t0) /\ frames' = Front(frames) /\ contextBlock' = Top.prevBlock
  /\ contextCondAfter' = contextCondAfter
  /\ funcs[Top.fn].results # 0 => blocks' = blocks /\ src # << >> /\ Last(src).op = "return"
  /\ funcs[Top.fn].results = 0 =>
       Edits(blocks, blocks', contextBlock, Append(blocks[contextBlock].code, x), ret)

LEMMA LeavingIs ==
  ASSUME Known, Extra = {}, NEW L, NEW S, Closing(L, S), EndFunc
  PROVE  \E t0, x, ret : Leaving(t0, x, ret)
<1> DEFINE t0  == [op |-> "endfunc", of |-> Top.at, form |-> "plain"]
           x   == It(Here, "ret")
           ret == IF Top.fn = Main THEN RetVal ELSE RetVoid
<1>1. t0 \in Token /\ x \in Item
  <2>1. Top.at \in Nat /\ Here \in Nat
    BY DEF Closing
  <2> QED
    BY <2>1 DEF Token, Ops, Forms, It, Item, Tags
<1>2. /\ src' = Append(src, t0) /\ frames' = Front(frames) /\ contextBlock' = Top.prevBlock
      /\ contextCondAfter' = contextCondAfter
  BY DEF EndFunc, Put, BackToCaller
<1>3. Top.fn \in 1 .. Len(funcs) /\ funcs[Top.fn].results \in Nat
  <2>1. Top.fn \in 1 .. Len(funcs)
    BY EndFuncBuilds DEF Known
  <2>2. funcs[Top.fn] \in Func
    BY <2>1, ElementOfSeq DEF Known, TypeOK
  <2> QED
    BY <2>1, <2>2 DEF Func
<1>4. funcs[Top.fn].results # 0 => blocks' = blocks /\ src # << >> /\ Last(src).op = "return"
  <2>1. funcs[Top.fn].results # 0 => src # << >> /\ Last(src).op = "return"
    BY <1>3 DEF EndFunc, BodyMayEnd
  <2>2. funcs[Top.fn].results # 0 => blocks' = blocks
    BY EndFuncBuilds DEF Known, StacksRight
  <2> QED
    BY <2>1, <2>2
<1>5. ret \in {RetVal, RetVoid} /\ ret \in Term
  BY TermTypes
<1>6. funcs[Top.fn].results = 0 =>
        blocks' = Terminate(Emit(blocks, contextBlock, x), contextBlock, ret)
  BY DEF EndFunc, ReturnAtEnd, NamesOf, It
<1> HIDE DEF t0, x, ret
<1>7. Edits(blocks, Terminate(Emit(blocks, contextBlock, x), contextBlock, ret), contextBlock,
            Append(blocks[contextBlock].code, x), ret)
  <2>1. blocks \in Seq(BasicBlock) /\ contextBlock \in 1 .. Len(blocks)
    BY DEF Closing
  <2> QED
    BY <1>1, <1>5, <2>1, EndIs
<1>8. funcs[Top.fn].results = 0 =>
        Edits(blocks, blocks', contextBlock, Append(blocks[contextBlock].code, x), ret)
  BY <1>6, <1>7
<1>9. Leaving(t0, x, ret)
  BY <1>1, <1>2, <1>4, <1>5, <1>8 DEF Leaving, t0, x
<1> QED
  BY <1>9

\* The block of the body has ended, or ends with the return that is added.
LEMMA BodyEnds ==
  ASSUME Known, NEW L, NEW S, Traced(L, S), Closing(L, S), Top.kind = "func",
         NEW t0, NEW x, NEW ret, Leaving(t0, x, ret)
  PROVE  /\ Len(blocks') = Len(blocks)
         /\ \A y \in 1 .. Len(blocks) : blocks'[y].fn = blocks[y].fn
         /\ \A y \in 1 .. Len(blocks) : y # contextBlock => blocks'[y] = blocks[y]
         /\ IF S[contextBlock] = Ended THEN blocks' = blocks
            ELSE /\ S[contextBlock] = OpenAt(<<Here, "at">>)
                 /\ Good(L, src', blocks'[contextBlock], L[contextBlock], Ended)
<1> DEFINE k   == blocks[contextBlock]
           k2  == blocks'[contextBlock]
           lab == L[contextBlock]
<1>1. Current(L, S) /\ blocks \in Seq(BasicBlock) /\ contextBlock \in 1 .. Len(blocks)
  BY DEF Traced, Closing
<1>2. CASE funcs[Top.fn].results # 0
  <2>1. blocks' = blocks /\ AfterJump
    BY <1>2 DEF Leaving, AfterJump
  <2>2. S[contextBlock] = Ended
    BY <1>1, <2>1 DEF Current
  <2> QED
    BY <2>1, <2>2
<1>3. CASE funcs[Top.fn].results = 0
  <2>1. S[contextBlock] = OpenAt(<<Here, "at">>)
    BY <1>1, <1>3 DEF Current
  <2>2. Edits(blocks, blocks', contextBlock, Append(k.code, x), ret)
    BY <1>3 DEF Leaving
  <2>3. S[contextBlock] # Ended
    BY <2>1, StatesDiffer
  <2>4. k.code \in Seq(Item) /\ Good(L, src, k, lab, OpenAt(<<Here, "at">>))
    <3>1. k \in BasicBlock
      BY <1>1, ElementOfSeq
    <3>2. Good(L, src, k, lab, S[contextBlock])
      BY DEF Closing
    <3> QED
      BY <2>1, <3>1, <3>2 DEF BasicBlock
  <2>5. k2.code = Append(k.code, x) /\ k2.term = ret /\ x \in Item
    BY <2>2 DEF Edits, Leaving
  <2>6. /\ Extends(src', src)
        /\ \A A, T : Solves(A, T, src') => A[<<Here, "at">>] = {x}
    <3>1. src' = Append(src, t0) /\ t0 \in Token /\ t0.op = "endfunc" /\ x = It(Here, "ret")
      BY DEF Leaving
    <3>2. Extends(src', src) /\ \A A, T : Solves(A, T, src') => Says(A, T, t0, Here, CasesBefore(src', Here))
      BY <3>1, Speaks
    <3>3. \A A, T : Solves(A, T, src') => A[<<Here, "at">>] = {x}
      BY <3>1, <3>2 DEF Says
    <3> QED
      BY <3>2, <3>3
  <2>7. \A A : Flow(A, x) = << >>
    <3>1. x = It(Here, "ret")
      BY DEF Leaving
    <3> QED
      BY <3>1, FlowOf
  <2>8. ret \in {Unreachable, RetVal, RetVoid}
    BY DEF Leaving
  <2>9. /\ Len(blocks') = Len(blocks)
        /\ \A y \in 1 .. Len(blocks) : blocks'[y].fn = blocks[y].fn
        /\ \A y \in 1 .. Len(blocks) : y # contextBlock => blocks'[y] = blocks[y]
    BY <2>2 DEF Edits
  <2> HIDE DEF k, k2, lab
  <2>10. Holds(src', k2, lab, x)
    BY <2>4, <2>5, <2>6, EmitHolds
  <2>11. Good(L, src', k2, lab, Ended)
    BY <2>5, <2>7, <2>8, <2>10, EndsHere
  <2> QED
    BY <2>1, <2>3, <2>9, <2>11 DEF k2, lab
<1> QED
  BY <1>2, <1>3

\* The function compiled before, if there is one, goes on in the block it had come to.
LEMMA CallerWaits ==
  ASSUME Known, NEW L, NEW S, Traced(L, S), Closing(L, S), Top.kind = "func"
  PROVE  /\ Front(frames) # << >> <=> Top.prevBlock # NoBlock
         /\ Top.prevBlock # NoBlock =>
              /\ Top.prevBlock \in 1 .. Len(blocks)
              /\ S[Top.prevBlock] = OpenAt(<<Top.at, "after">>)
              /\ Good(L, src, blocks[Top.prevBlock], L[Top.prevBlock], OpenAt(<<Top.at, "after">>))
              /\ MayJump(blocks[Top.prevBlock].term, L[Top.prevBlock], contextCondAfter,
                         Len(contextCondAfter))
              /\ Front(frames) \in Seq(Frame) /\ Last(Front(frames)).kind # "switch"
<1>1. /\ frames \in Seq(Frame) /\ Nested(frames) /\ frames # << >>
      /\ FrameOwned(Top, OwnerAt(Len(frames) - 1, frames, blocks), blocks, Len(funcs))
  BY DEF Closing, CallsRight
<1>2. /\ Len(frames) \in Nat \ {0} /\ Len(Front(frames)) = Len(frames) - 1
      /\ Front(frames) \in Seq(Frame)
  BY <1>1, FrontType
<1>3. CASE Len(frames) = 1
  <2>1. Front(frames) = << >> /\ OwnerAt(Len(frames) - 1, frames, blocks) = 0
    BY <1>2, <1>3, EmptySeq DEF OwnerAt
  <2> QED
    BY <1>1, <2>1 DEF FrameOwned, NoBlock
<1>4. CASE Len(frames) # 1
  <2>1. Front(frames) # << >> /\ Len(frames) - 1 \in 1 .. Len(frames) /\ Len(frames) - 1 # 0
    BY <1>2, <1>4
  <2>2. OwnerAt(Len(frames) - 1, frames, blocks) # 0
    <3>1. PICK m \in 1 .. Len(frames) :
            frames[m].kind = "func" /\ frames[m].fn = OwnerOf(frames[Len(frames) - 1], blocks)
      BY <2>1, OwnerOpen DEF Closing
    <3>2. FrameOwned(frames[m], OwnerAt(m - 1, frames, blocks), blocks, Len(funcs))
      BY DEF Closing, OwnedNow, Owned
    <3>3. frames[m].fn \in 1 .. Len(funcs)
      BY <3>1, <3>2 DEF FrameOwned
    <3>4. frames[m].fn # 0
      BY <3>3
    <3> QED
      BY <2>1, <3>1, <3>4 DEF OwnerAt
  <2>3. Top.prevBlock \in 1 .. Len(blocks)
    BY <1>1, <2>2 DEF FrameOwned, In
  <2>4. Top.prevBlock # NoBlock
    <3>1. Len(blocks) \in Nat
      BY DEF Closing
    <3> QED
      BY <2>3, <3>1 DEF NoBlock
  <2>5. S[Top.prevBlock] = OpenAt(<<Top.at, "after">>)
        /\ MayJump(blocks[Top.prevBlock].term, L[Top.prevBlock], contextCondAfter, Top.entry.cond)
    <3>1. FuncTraced(Top, L, S, blocks, contextCondAfter)
      BY DEF Closing, FrameTraced
    <3> QED
      BY <2>4, <3>1 DEF FuncTraced
  <2>6. Top.entry.cond = Len(contextCondAfter)
    <3>1. Heights = Inside(Top) /\ Top.entry \in Height
      BY TopHeights DEF Closing
    <3> QED
      BY <3>1 DEF Heights, Inside, Height
  <2>7. Good(L, src, blocks[Top.prevBlock], L[Top.prevBlock], S[Top.prevBlock])
    BY <2>3 DEF Traced, BlocksTraced
  <2>8. Last(Front(frames)).kind # "switch"
    BY <1>1, <2>1, NestedPop
  <2> QED
    BY <1>2, <2>1, <2>3, <2>4, <2>5, <2>6, <2>7, <2>8
<1> QED
  BY <1>3, <1>4

\* A function is complete.
LEMMA EndFuncTraced ==
  ASSUME Known, TypeOK', Extra = {}, NEW L, NEW S, Traced(L, S), EndFunc
  PROVE  \E M, R : Traced(M, R)'
<1> DEFINE next == <<Here + 1, "at">>
<1>1. Closing(L, S) /\ Top.kind = "func" /\ frames # << >>
  BY ClosingIs DEF EndFunc, Open
<1>2. PICK t0, x, ret : Leaving(t0, x, ret)
  BY <1>1, LeavingIs
<1>3. /\ t0 \in Token /\ t0.op = "endfunc" /\ t0.of = Top.at /\ src' = Append(src, t0)
      /\ frames' = Front(frames) /\ contextBlock' = Top.prevBlock
      /\ contextCondAfter' = contextCondAfter
  BY <1>2 DEF Leaving
<1>4. PICK e, b : e = contextBlock /\ b = Top.prevBlock
  OBVIOUS
<1>5. /\ Len(blocks') = Len(blocks) /\ Len(blocks) \in Nat /\ e \in 1 .. Len(blocks)
      /\ \A y \in 1 .. Len(blocks) : blocks'[y].fn = blocks[y].fn
      /\ \A y \in 1 .. Len(blocks) : y # e => blocks'[y] = blocks[y]
      /\ IF S[e] = Ended THEN blocks' = blocks
         ELSE S[e] = OpenAt(<<Here, "at">>) /\ Good(L, src', blocks'[e], L[e], Ended)
  BY <1>1, <1>2, <1>4, BodyEnds DEF Closing
<1>6. /\ Front(frames) # << >> <=> b # NoBlock
      /\ b # NoBlock =>
           /\ b \in 1 .. Len(blocks) /\ S[b] = OpenAt(<<Top.at, "after">>)
           /\ Good(L, src, blocks[b], L[b], OpenAt(<<Top.at, "after">>))
           /\ MayJump(blocks[b].term, L[b], contextCondAfter, Len(contextCondAfter))
           /\ Front(frames) \in Seq(Frame) /\ Last(Front(frames)).kind # "switch"
  BY <1>1, <1>4, CallerWaits
<1>7. b # NoBlock => b # e
  BY <1>5, <1>6, StatesDiffer
<1>8. /\ Extends(src', src)
      /\ \A A, T : Solves(A, T, src') => Same(A, T, <<Top.at, "after">>, next)
  <2>1. Extends(src', src) /\ \A A, T : Solves(A, T, src') => Says(A, T, t0, Here, CasesBefore(src', Here))
    BY <1>3, Speaks
  <2> QED
    BY <1>3, <2>1 DEF Says, Closers
<1>9. b # NoBlock => Good(L, src', blocks'[b], L[b], OpenAt(next)) /\ Back(b, frames', contextBlock')
  <2> SUFFICES ASSUME b # NoBlock
               PROVE  Good(L, src', blocks'[b], L[b], OpenAt(next)) /\ Back(b, frames', contextBlock')
    OBVIOUS
  <2>1. blocks'[b] = blocks[b]
    BY <1>5, <1>6, <1>7
  <2>2. Good(L, src', blocks'[b], L[b], OpenAt(next))
    BY <1>6, <1>8, <2>1, GoodMoves
  <2>3. Back(b, frames', b)
    BY <1>3, <1>6, BackNow
  <2> QED
    BY <1>3, <1>4, <2>2, <2>3
<1>10. PICK R : R = [y \in 1 .. Len(blocks) |-> IF y = e THEN Ended ELSE IF y = b THEN OpenAt(next) ELSE S[y]]
  OBVIOUS
<1>11. PICK W : W = (IF S[e] = Ended THEN {} ELSE {e}) \cup (IF b = NoBlock THEN {} ELSE {b})
  OBVIOUS
<1>12. /\ DOMAIN R = 1 .. Len(blocks) /\ R[e] = Ended
       /\ b # NoBlock => R[b] = OpenAt(next)
       /\ \A y \in 1 .. Len(blocks) : y \notin W => R[y] = S[y]
  <2>1. NoBlock \notin 1 .. Len(blocks)
    BY DEF NoBlock
  <2>2. DOMAIN R = 1 .. Len(blocks) /\ R[e] = Ended
    BY <1>5, <1>10
  <2>3. b # NoBlock => R[b] = OpenAt(next)
    BY <1>6, <1>7, <1>10
  <2>4. ASSUME NEW y \in 1 .. Len(blocks), y \notin W PROVE R[y] = S[y]
    <3>1. y # NoBlock
      BY <2>1
    <3>2. y # b
      BY <1>11, <2>4, <3>1
    <3>3. y = e => S[e] = Ended
      BY <1>11, <2>4
    <3> QED
      BY <1>10, <3>2, <3>3
  <2> QED
    BY <2>2, <2>3, <2>4
<1> HIDE DEF next
<1>13. BlocksNext(L, S, L, R, W)
  <2>1. BlocksTraced(L, S)
    BY DEF Traced
  <2>2. \A y \in 1 .. Len(blocks) : y \in W => (y = e /\ S[e] # Ended) \/ (y = b /\ b # NoBlock)
    BY <1>11
  <2>3. \A y \in 1 .. Len(blocks) : y \notin W => blocks'[y] = blocks[y]
    BY <1>5, <1>11
  <2>4. \A y \in 1 .. Len(blocks) :
           /\ blocks'[y].fn = blocks[y].fn
           /\ y \notin W => R[y] = S[y] /\ blocks'[y] = blocks[y]
           /\ y \in W => /\ Good(L, src', blocks'[y], L[y], R[y])
                         /\ R[y] = Ended \/ blocks'[y].term = NoTerm
                              \/ Back(y, frames', contextBlock')
    BY <1>5, <1>9, <1>12, <2>2, <2>3
  <2> QED
    BY <1>5, <1>12, <2>1, <2>4, WritesOnly
<1>14. OfTop(L, S, W)
  <2>1. \A y \in W : (y = e /\ S[e] = OpenAt(<<Here, "at">>)) \/ (y = b /\ S[b] = OpenAt(<<Top.at, "after">>))
    BY <1>5, <1>6, <1>11
  <2> QED
    BY <2>1 DEF OfTop
<1>15. contextBlock \in W \/ S[contextBlock] = Ended
  BY <1>4, <1>11
<1>16. /\ Len(funcs') = Len(funcs)
       /\ \A k \in 1 .. Len(funcs) : /\ funcs'[k].kind = funcs[k].kind /\ funcs'[k].entry = funcs[k].entry
                                     /\ funcs'[k].at = funcs[k].at
       /\ funcs'[Top.fn].complete
  <2>1. funcs' = [funcs EXCEPT ![Top.fn].complete = TRUE] /\ funcs \in Seq(Func) /\ Len(funcs) \in Nat
    BY LenProperties DEF EndFunc, Known, TypeOK
  <2>2. Top.fn \in 1 .. Len(funcs) /\ Len(funcs') = Len(funcs) /\ funcs'[Top.fn].complete
    BY EndFuncBuilds DEF Known
  <2>3. ASSUME NEW k \in 1 .. Len(funcs)
        PROVE  /\ funcs'[k].kind = funcs[k].kind /\ funcs'[k].entry = funcs[k].entry
               /\ funcs'[k].at = funcs[k].at
    <3>1. funcs[k] \in Func
      BY <2>1, ElementOfSeq
    <3>2. k # Top.fn => funcs'[k] = funcs[k]
      BY <2>1
    <3>3. k = Top.fn => funcs'[k] = [funcs[k] EXCEPT !.complete = TRUE]
      <4> DEFINE g == [funcs[Top.fn] EXCEPT !.complete = TRUE]
      <4>1. funcs' = [funcs EXCEPT ![Top.fn] = g]
        BY <2>1
      <4> HIDE DEF g
      <4>2. funcs'[Top.fn] = g
        BY <2>1, <2>2, <4>1
      <4> QED
        BY <4>2 DEF g
    <3> QED
      BY <3>1, <3>2, <3>3 DEF Func
  <2> QED
    BY <2>2, <2>3
<1>17. EntriesTraced(L)'
  <2>1. ASSUME NEW f \in 1 .. Len(funcs), funcs'[f].kind \notin Unlabelled
        PROVE  /\ funcs'[f].entry \in 1 .. Len(blocks') /\ blocks'[funcs'[f].entry].fn = f
               /\ L[funcs'[f].entry] = <<IF f = Main THEN 0 ELSE funcs'[f].at, "entry">>
               /\ funcs'[f].at # 0
    <3>1. /\ funcs[f].entry \in 1 .. Len(blocks) /\ blocks[funcs[f].entry].fn = f
          /\ L[funcs[f].entry] = <<IF f = Main THEN 0 ELSE funcs[f].at, "entry">> /\ funcs[f].at # 0
      BY <1>16, <2>1 DEF Traced, EntriesTraced, EntryOfFunc
    <3> QED
      BY <1>5, <1>16, <3>1
  <2> QED
    BY <1>16, <2>1 DEF EntriesTraced, EntryOfFunc
<1>18. MainWaits(frames', funcs') => MainWaits(frames, funcs)
  <2> SUFFICES ASSUME MainWaits(frames', funcs') PROVE MainWaits(frames, funcs)
    OBVIOUS
  <2>1. /\ \A i \in 1 .. Len(frames) : i \in 1 .. Len(frames') \/ i = Len(frames)
        /\ \A i \in 1 .. Len(frames') : frames'[i] = frames[i]
        /\ Top = frames[Len(frames)]
    <3>1. Nested(frames) /\ frames \in Seq(Frame)
      BY DEF Known, CallsRight, TypeOK
    <3>2. Pops(frames, frames', contextBlock, contextBlock')
      BY <1>1, <1>3, <3>1, PopReturning
    <3> QED
      BY <1>1, <3>2 DEF Pops, Closing
  <2>2. Top.fn # Main
    BY <1>16 DEF MainWaits
  <2>3. ~ funcs[Main].complete
    <3>1. \A k \in 1 .. Len(funcs) : k # Top.fn => funcs'[k].complete = funcs[k].complete
      BY EndFuncBuilds DEF Known, FuncsKept
    <3>2. Main \in 1 .. Len(funcs)
      BY Numbers DEF Known, Main
    <3> QED
      BY <2>2, <3>1, <3>2 DEF MainWaits
  <2> QED
    BY <2>1, <2>2, <2>3 DEF MainWaits
<1>19. frames' # << >> => Current(L, R)'
  <2> SUFFICES ASSUME frames' # << >> PROVE Current(L, R)'
    OBVIOUS
  <2>1. b # NoBlock /\ contextBlock' = b
    BY <1>3, <1>4, <1>6
  <2>2. blocks'[b] = blocks[b]
    BY <1>5, <1>6, <1>7, <2>1
  <2>3. MayJump(blocks'[contextBlock'].term, L[contextBlock'], contextCondAfter', Len(contextCondAfter'))
    BY <1>3, <1>6, <2>1, <2>2
  <2>4. R[contextBlock'] = OpenAt(<<Here + 1, "at">>)
    BY <1>12, <2>1 DEF next
  <2>5. Last(frames').kind # "switch"
    BY <1>3, <1>6, <2>1
  <2> QED
    BY <1>3, <2>3, <2>4, <2>5, CurrentOpen
<1>20. Traced(L, R)'
  <2>1. Remembers(Top) = contextBlock'
    BY <1>1, <1>3 DEF Remembers
  <2>2. \A k \in 1 .. Len(funcs) : funcs'[k].kind = funcs[k].kind
    BY <1>16
  <2> QED
    BY <1>1, <1>3, <1>8, <1>13, <1>14, <1>15, <1>17, <1>18, <1>19, <2>1, <2>2, PopTraced
<1> QED
  BY <1>20

-----------------------------------------------------------------------------
(* The steps together                                                        *)

\* The last step, and no step: blocks, calls and source stay.
LEMMA StillTraced ==
  ASSUME NEW L, NEW S, Traced(L, S),
         UNCHANGED <<blocks, funcs, contextBlock, contextCondAfter, frames, src>>
  PROVE  Traced(L, S)'
<1>1. /\ blocks' = blocks /\ funcs' = funcs /\ contextBlock' = contextBlock /\ frames' = frames
      /\ contextCondAfter' = contextCondAfter /\ src' = src
  OBVIOUS
<1>2. BlocksTraced(L, S)'
  BY <1>1 DEF Traced, BlocksTraced
<1>3. FramesTraced(L, S)'
  BY <1>1 DEF Traced, FramesTraced
<1>4. frames' # << >> => SwitchTraced(Top, contextBlock, L, S, src)' /\ Current(L, S)'
  BY <1>1 DEF Traced, Current, Top, AfterJump, Here, SwitchTraced
<1>5. EntriesTraced(L)'
  BY <1>1 DEF Traced, EntriesTraced, EntryOfFunc
<1> QED
  BY <1>1, <1>2, <1>3, <1>4, <1>5 DEF Traced

\* A step ends the compilation or reads a token.
Read == \E op, of, form : Put(op, of, form)

LEMMA NextReads ==
  ASSUME Next
  PROVE  Finish \/ Read
<1>1. CASE Stmt \/ Index \/ Substring \/ TypeAssertion
  BY <1>1, Zenon DEF Stmt, Index, Substring, TypeAssertion, Read
<1>2. CASE (\E self \in BOOLEAN : BeginAppend(self)) \/ NestedAppend \/ EndAppend
  BY <1>2, Zenon DEF BeginAppend, NestedAppend, EndAppend, Read
<1>3. CASE (\E hasElse \in BOOLEAN : BeginIf(hasElse)) \/ BeginElse \/ EndIf
  BY <1>3, Zenon DEF BeginIf, BeginElse, EndIf, Read
<1>4. CASE (\E form \in {"plain", "checked", "range"} : BeginFor(form)) \/ EndFor
  BY <1>4, Zenon DEF BeginFor, EndFor, Read
<1>5. CASE Break \/ Continue \/ ReturnValues \/ NakedReturn
  BY <1>5, Zenon DEF Break, Continue, ReturnValues, NakedReturn, Read
<1>6. CASE (\E hasDefault \in BOOLEAN : BeginSwitch(hasDefault)) \/ EndDefault \/ BeginCase
  BY <1>6, Zenon DEF BeginSwitch, EndDefault, BeginCase, Read
<1>7. CASE (\E fallthrough \in BOOLEAN : EndCase(fallthrough)) \/ EndSwitch
  BY <1>7, Zenon DEF EndCase, EndSwitch, Read
<1>8. CASE BeginMain \/ EndFunc
  BY <1>8, Zenon DEF BeginMain, EndFunc, Read
<1>9. CASE \E kind \in {"init", "named", "method", "literal"}, results \in 0 .. 2 :
              BeginFunc(kind, results)
  BY <1>9, Zenon DEF BeginFunc, Read
<1> QED
  BY <1>1, <1>2, <1>3, <1>4, <1>5, <1>6, <1>7, <1>8, <1>9 DEF Next

\* No body is compiled before the first token.
Begun ==
  src = << >> => \A f \in 1 .. Len(funcs) : funcs[f].complete => funcs[f].kind \in Unlabelled

LEMMA NextBegun ==
  ASSUME TypeOK, TypeOK', Begun, [Next]_vars
  PROVE  Begun'
<1>1. CASE Finish \/ UNCHANGED vars
  BY <1>1 DEF Begun, Finish, vars
<1>2. CASE Read
  <2>1. PICK op, of, form : Put(op, of, form)
    BY <1>2 DEF Read
  <2> DEFINE t == [op |-> op, of |-> of, form |-> form]
  <2>2. src' = Append(src, t)
    BY <2>1 DEF Put
  <2> HIDE DEF t
  <2>3. Len(src') = Len(src) + 1 /\ Len(src) \in Nat
    BY <2>2, LenProperties DEF TypeOK
  <2>4. src' # << >>
    BY <2>3
  <2> QED
    BY <2>4 DEF Begun
<1> QED
  BY <1>1, <1>2, NextReads

\* The calls and tokens that every step leaves right.
Labelled == \E L, S : Traced(L, S)

LEMMA NextLabelled ==
  ASSUME Known, TypeOK', Extra = {}, Labelled, [Next]_vars, status' # "failed"
  PROVE  Labelled'
<1>1. PICK L, S : Traced(L, S)
  BY DEF Labelled
<1>2. CASE Stmt \/ Index \/ Substring \/ TypeAssertion
  <2>1. \E M, R : Traced(M, R)'
    BY <1>1, <1>2, StmtTraced, IndexTraced, SubstringTraced, TypeAssertionTraced
  <2> QED
    BY <2>1 DEF Labelled
<1>3. CASE (\E self \in BOOLEAN : BeginAppend(self)) \/ EndAppend
  <2>1. \E M, R : Traced(M, R)'
    BY <1>1, <1>3, BeginAppendTraced, EndAppendTraced
  <2> QED
    BY <2>1 DEF Labelled
<1>4. CASE (\E hasElse \in BOOLEAN : BeginIf(hasElse)) \/ BeginElse \/ EndIf
  <2>1. \E M, R : Traced(M, R)'
    BY <1>1, <1>4, BeginIfTraced, BeginElseTraced, EndIfTraced
  <2> QED
    BY <2>1 DEF Labelled
<1>5. CASE (\E form \in {"plain", "checked", "range"} : BeginFor(form)) \/ EndFor
  <2>1. \E M, R : Traced(M, R)'
    BY <1>1, <1>5, BeginForTraced, EndForTraced
  <2> QED
    BY <2>1 DEF Labelled
<1>6. CASE Break \/ Continue \/ ReturnValues \/ NakedReturn
  <2>1. \E M, R : Traced(M, R)'
    BY <1>1, <1>6, BreakTraced, ContinueTraced, ReturnsTraced
  <2> QED
    BY <2>1 DEF Labelled
<1>7. CASE (\E hasDefault \in BOOLEAN : BeginSwitch(hasDefault)) \/ EndDefault \/ BeginCase
  <2>1. \E M, R : Traced(M, R)'
    BY <1>1, <1>7, BeginSwitchTraced, EndDefaultTraced, BeginCaseTraced
  <2> QED
    BY <2>1 DEF Labelled
<1>8. CASE (\E fallthrough \in BOOLEAN : EndCase(fallthrough)) \/ EndSwitch
  <2>1. \E M, R : Traced(M, R)'
    BY <1>1, <1>8, EndCaseTraced, EndSwitchTraced
  <2> QED
    BY <2>1 DEF Labelled
<1>9. CASE BeginMain \/ EndFunc
  <2>1. \E M, R : Traced(M, R)'
    BY <1>1, <1>9, BeginMainTraced, EndFuncTraced
  <2> QED
    BY <2>1 DEF Labelled
<1>10. CASE \E kind \in {"init", "named", "method", "literal"}, results \in 0 .. 2 :
              BeginFunc(kind, results)
  <2>1. \E M, R : Traced(M, R)'
    BY <1>1, <1>10, BeginFuncTraced
  <2> QED
    BY <2>1 DEF Labelled
<1>11. CASE Finish \/ UNCHANGED vars
  <2>1. UNCHANGED <<blocks, funcs, contextBlock, contextCondAfter, frames, src>>
    BY <1>11 DEF Finish, vars, stacks
  <2>2. Traced(L, S)'
    BY <1>1, <2>1, StillTraced
  <2> QED
    BY <2>2 DEF Labelled
<1>12. ~ NestedAppend
  BY DEF NestedAppend, ExpressionAllowed
<1> QED
  BY <1>2, <1>3, <1>4, <1>5, <1>6, <1>7, <1>8, <1>9, <1>10, <1>11, <1>12 DEF Next

\* The two functions a module begins with.
LEMMA InitLabelled == Init => Labelled /\ Begun
<1> SUFFICES ASSUME Init PROVE Labelled /\ Begun
  OBVIOUS
<1> DEFINE L == <<Nowhere, <<0, "entry">>>>
           S == <<Ended, New>>
<1>1. /\ blocks = <<BlockOf(GlobalInit, << >>, RetVoid), NewBlock(Main)>>
      /\ funcs = <<NewFunc("globalinit", 0, 1, TRUE), NewFunc("main", 0, 2, FALSE)>>
      /\ src = << >> /\ frames = << >>
  BY DEF Init
<1>2. /\ Len(blocks) = 2 /\ 1 .. Len(blocks) = {1, 2} /\ Len(funcs) = 2 /\ 1 .. Len(funcs) = {1, 2}
      /\ blocks[1].fn = 1 /\ blocks[2].fn = 2 /\ blocks[2].code = << >> /\ blocks[2].term = NoTerm
      /\ funcs[1].kind = "globalinit" /\ funcs[2].kind = "main" /\ funcs[2].entry = 2
      /\ ~ funcs[2].complete /\ funcs[2].at = 1 /\ Len(frames) = 0
  BY <1>1 DEF BlockOf, NewBlock, NewFunc, GlobalInit, Main, Here
<1>3. /\ DOMAIN L = {1, 2} /\ DOMAIN S = {1, 2} /\ L[1] = Nowhere /\ L[2] = <<0, "entry">>
      /\ S[1] = Ended /\ S[2] = New /\ <<0, "entry">> \in Places
  BY DEF Places, Marks
<1> HIDE DEF L, S
<1>4. Good(L, src, blocks[1], L[1], S[1]) /\ Good(L, src, blocks[2], L[2], S[2])
  <2>1. Good(L, src, blocks[1], L[1], S[1])
    BY <1>3 DEF Good
  <2>2. Shaped(L, blocks[2], New)
    BY <1>2 DEF Shaped, New, OpenAt, Choosing, Ended
  <2>3. ASSUME NEW A, NEW T PROVE Right(A, T, L, blocks[2], L[2], New)
    BY <1>2 DEF Right, Starts, Within, New
  <2> QED
    BY <1>3, <2>1, <2>2, <2>3 DEF Good
<1>5. BlocksTraced(L, S)
  <2>1. L[2] # Nowhere
    BY <1>3 DEF Nowhere
  <2>2. \A b \in {1, 2} : Rests(L[b], S[b], blocks[b].term, b, frames, contextBlock)
    BY <1>2, <1>3 DEF Rests
  <2>3. funcs[blocks[1].fn].kind \in Unlabelled
    BY <1>2 DEF Unlabelled
  <2> QED
    BY <1>2, <1>3, <1>4, <2>1, <2>2, <2>3 DEF BlocksTraced
<1>6. FramesTraced(L, S)
  BY <1>2 DEF FramesTraced
<1>7. EntriesTraced(L)
  BY <1>2, <1>3 DEF EntriesTraced, EntryOfFunc, Unlabelled, Main
<1>8. Traced(L, S)
  BY <1>1, <1>3, <1>5, <1>6, <1>7 DEF Traced
<1>9. Begun
  BY <1>2 DEF Begun, Unlabelled
<1> QED
  BY <1>8, <1>9 DEF Labelled

-----------------------------------------------------------------------------
(* What complete functions do                                                *)

\* All blocks of a complete function have ended.
LEMMA BodyFinished ==
  ASSUME Known, OwnRight, TermRight, NEW L, NEW S, Traced(L, S), NEW f \in Bodies
  PROVE  Finished(L, BlocksOf(f))
<1> SUFFICES ASSUME NEW b \in BlocksOf(f)
             PROVE  /\ b \in DOMAIN blocks /\ L[b] \in Places /\ L[b] # Nowhere
                    /\ Good(L, src, blocks[b], L[b], Ended)
                    /\ \A i \in DOMAIN blocks[b].term.to : blocks[b].term.to[i] \in BlocksOf(f)
  BY DEF Finished
<1>0. TypeOK /\ OwnedNow /\ CallsRight /\ DOMAIN blocks = 1 .. Len(blocks)
  BY LenProperties DEF Known, TypeOK
<1>1. /\ b \in 1 .. Len(blocks) /\ blocks[b].fn = f /\ funcs[f].complete
      /\ funcs[f].kind \notin Unlabelled
  BY <1>0 DEF BlocksOf, Bodies, Completed, Unlabelled
<1>2. /\ L[b] \in Places /\ L[b] # Nowhere /\ Good(L, src, blocks[b], L[b], S[b])
      /\ Rests(L[b], S[b], blocks[b].term, b, frames, contextBlock)
  BY <1>1 DEF Traced, BlocksTraced
<1>3. ~ Held(b, frames, contextBlock) /\ ~ Loose(b, frames, contextBlock)
  BY <1>0, <1>1, HolderIncomplete
<1>4. blocks[b].term # NoTerm
  <2>1. ~ (b = 2 /\ MainWaits(frames, funcs))
    BY <1>0, <1>1 DEF OwnedNow, In, MainWaits
  <2> QED
    BY <1>1, <1>3, <2>1 DEF TermRight, NoTerm
<1>5. ~ Back(b, frames, contextBlock)
  <2> SUFFICES ASSUME NEW i \in 1 .. Len(frames), b = Returning(i, frames, contextBlock) PROVE FALSE
    BY DEF Back
  <2>1. PICK m \in 1 .. Len(frames) :
          frames[m].kind = "func" /\ frames[m].fn = OwnerOf(frames[i], blocks)
    BY <1>0, OwnerOpen
  <2>2. frames[m].fn = f
    BY <1>0, <1>1, <2>1, HolderOwns
  <2> QED
    BY <1>0, <1>1, <2>1, <2>2 DEF CallsRight, FuncsOpen
<1>6. S[b] = Ended
  BY <1>2, <1>4, <1>5 DEF Rests
<1>7. \A i \in DOMAIN blocks[b].term.to : blocks[b].term.to[i] \in BlocksOf(f)
  <2>1. Aims(blocks[b].term, f, blocks)
    BY <1>1, <1>3 DEF OwnRight
  <2> QED
    BY <1>0, <2>1 DEF Aims, In, BlocksOf
<1> QED
  BY <1>0, <1>1, <1>2, <1>6, <1>7

\* A complete function does what its body says.
LEMMA LabelledFaithful ==
  ASSUME Known, OwnRight, TermRight, Labelled, Begun
  PROVE  Faithful
<1>1. PICK L, S : Traced(L, S)
  BY DEF Labelled
<1>2. /\ src \in Seq(Token) /\ blocks \in Seq(BasicBlock) /\ TokensRight
      /\ DOMAIN blocks = 1 .. Len(blocks) /\ DOMAIN funcs = 1 .. Len(funcs)
  BY LenProperties DEF Known, TypeOK, TokensKnown
<1> SUFFICES ASSUME NEW f \in Bodies
             PROVE  /\ FirstFrom(funcs[f].entry) = Arrive[funcs[f].at + 1]
                    /\ \A b \in BlocksOf(f) : \A k \in DOMAIN blocks[b].code :
                         BlockFlow(b, k) = SourceFlow(blocks[b].code[k])
  BY DEF Faithful
<1>3. f \in 1 .. Len(funcs) /\ funcs[f].complete /\ funcs[f].kind \notin Unlabelled
  BY <1>2 DEF Bodies, Completed, Unlabelled
<1>4. src # << >>
  BY <1>3 DEF Begun
<1> DEFINE B == BlocksOf(f)
<1>5. Finished(L, B)
  BY <1>1, BodyFinished
<1>6. /\ funcs[f].entry \in B /\ L[funcs[f].entry] = EntryOfFunc(f)
      /\ funcs[f].at # 0 /\ funcs[f].at \in Nat
  <2>1. EntriesTraced(L)
    BY <1>1 DEF Traced
  <2>2. funcs[f] \in Func
    BY <1>3, ElementOfSeq DEF Known, TypeOK
  <2> QED
    BY <1>2, <1>3, <2>1, <2>2 DEF EntriesTraced, BlocksOf, Func
<1>7. First[EntryOfFunc(f)] = Arrive[funcs[f].at + 1]
  <2> DEFINE p == IF f = Main THEN 0 ELSE funcs[f].at
  <2>1. p \in Nat /\ EntryOfFunc(f) = <<p, "entry">> /\ "entry" \in Marks
    BY <1>6 DEF EntryOfFunc, Marks
  <2>2. p = 0 => f = Main
    BY <1>6
  <2>3. f # Main => p = funcs[f].at
    OBVIOUS
  <2>4. f = Main => p = 0
    OBVIOUS
  <2> HIDE DEF p
  <2>5. /\ First[<<p, "entry">>] = FirstAt(<<p, "entry">>)
        /\ p = 0 => FirstAt(<<p, "entry">>) = Arrive[funcs[Main].at + 1]
        /\ p # 0 => FirstAt(<<p, "entry">>) = Arrive[p + 1]
    BY <2>1, FirstOf
  <2> QED
    BY <2>1, <2>2, <2>3, <2>4, <2>5
<1> HIDE DEF B
<1>8. \A b \in B : FirstFrom(b) = First[L[b]]
  BY <1>2, <1>4, <1>5, FirstRight
<1>9. ASSUME NEW b \in B, NEW k \in DOMAIN blocks[b].code
      PROVE  BlockFlow(b, k) = SourceFlow(blocks[b].code[k])
  BY <1>2, <1>4, <1>5, FlowRight
<1> QED
  BY <1>6, <1>7, <1>8, <1>9 DEF B

\* Every function does what its body says (README.md:3 "A LLVM backed Go compiler"): it starts
\* with the first statement, and after every instruction its blocks go on where the source
\* does, whichever way a condition, a bounds check or a switch decides; however the ifs, loops,
\* switches, appends and literals are nested, for programs of any length without the forms
\* that Extra names.
THEOREM FlowFaithful ==
  ASSUME Extra = {}
  PROVE  Spec => []Faithful
<1> DEFINE Inv == Known /\ OwnRight /\ TermRight /\ Labelled /\ Begun
<1>1. /\ "openBranchEnd" \notin Extra /\ "flowInCase" \notin Extra /\ "blocksInItem" \notin Extra
      /\ "armsReturn" \notin Extra /\ "voidReturn" \notin Extra
      /\ {"breakInSwitch", "fallIntoDefault", "blocksInItem", "voidReturn"} \cap Extra = {}
  OBVIOUS
<1>2. Init => Inv
  BY InitOwned, InitRight, InitCalls, InitReturns, InitTokens, InitOwn, InitTerm, InitLabelled
     DEF Known
<1>3. Inv /\ NoPanic' /\ [Next]_vars => Inv'
  <2> SUFFICES ASSUME Inv, NoPanic', [Next]_vars PROVE Inv'
    OBVIOUS
  <2>1. TypeOK /\ OwnedNow /\ StacksRight /\ CallsRight /\ RetRight /\ TokensKnown
    BY DEF Known
  <2>2. TypeOK' /\ OwnedNow'
    BY <2>1, NextOwned
  <2>3. StacksRight'
    BY <2>1, NextRight
  <2>4. CallsRight'
    BY <1>1, <2>1, NextCalls
  <2>5. RetRight'
    BY <1>1, <2>1, NextReturns
  <2>6. TokensKnown'
    BY <2>1, <2>2, NextTokens DEF NoPanic
  <2>7. OwnRight' /\ TermRight'
    BY <1>1, <2>1, NextOwn, NextTerm
  <2>8. Labelled' /\ Begun'
    BY <2>1, <2>2, NextLabelled, NextBegun DEF NoPanic
  <2> QED
    BY <2>2, <2>3, <2>4, <2>5, <2>6, <2>7, <2>8 DEF Known
<1>4. Inv => Faithful
  BY LabelledFaithful
<1>5. Spec => []NoPanic
  BY <1>1, NeverPanics
<1> HIDE DEF Inv
<1> QED
  BY <1>2, <1>3, <1>4, <1>5, PTL DEF Spec

=============================================================================
