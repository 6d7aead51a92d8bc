---------------------------- MODULE CodegenBlocks ----------------------------
(***************************************************************************)
(* Theorems about the blocks of a completed function: each of them has a   *)
(* terminator (Terminated), and none branches to another function          *)
(* (OwnTargets).                                                           *)
(*                                                                         *)
(* Neither is inductive.  While a function is compiled, blocks without a   *)
(* terminator exist, and so do branches to the function around it: an if   *)
(* at the end of a loop or function literal inside another if jumps on to  *)
(* contextCondAfter of the outer one.  The inductive forms say who is      *)
(* going to write the missing or the right terminator: the innermost call  *)
(* its current block, an open call the blocks it holds, and a call the     *)
(* block it goes on in when a function literal or switch inside it ends.   *)
(***************************************************************************)
EXTENDS CodegenTerms

-----------------------------------------------------------------------------
(* Where an open call goes on                                                *)

\* The block in which call i goes on when the calls inside it have returned: that of a
\* function literal or switch is known; after another call, the call itself chooses it.
Returning(i, fs, cb) ==
  IF i = Len(fs) THEN cb
  ELSE IF fs[i + 1].kind = "func" THEN fs[i + 1].prevBlock
  ELSE IF fs[i + 1].kind = "switch" THEN fs[i + 1].pre
  ELSE NoBlock

\* A call of kind k goes on in block b.
At(b, k, fs, cb) == \E i \in 1 .. Len(fs) : fs[i].kind = k /\ b = Returning(i, fs, cb)

\* The innermost call goes on in the current block.
LEMMA AtNow ==
  ASSUME NEW fs \in Seq(Frame), fs # << >>, NEW cb
  PROVE  At(cb, Last(fs).kind, fs, cb)
<1>1. Len(fs) \in Nat \ {0} /\ Last(fs) = fs[Len(fs)]
  BY FrontType
<1>2. Len(fs) \in 1 .. Len(fs)
  BY <1>1
<1> QED
  BY <1>1, <1>2 DEF At, Returning

\* The current block changes.
LEMMA AtKeep ==
  ASSUME NEW fs \in Seq(Frame), NEW cb, NEW cc, NEW b, NEW k, At(b, k, fs, cb),
         b # cb \/ k # Last(fs).kind \/ cc = cb
  PROVE  At(b, k, fs, cc)
<1>1. Len(fs) \in Nat /\ (fs # << >> => Last(fs) = fs[Len(fs)])
  BY LenProperties, FrontType
<1>2. PICK i \in 1 .. Len(fs) : fs[i].kind = k /\ b = Returning(i, fs, cb)
  BY DEF At
<1>3. fs # << >>
  BY <1>1, <1>2
<1>4. b = Returning(i, fs, cc)
  BY <1>1, <1>2, <1>3 DEF Returning
<1> QED
  BY <1>2, <1>4 DEF At

\* A call is opened.  A function literal and a switch remember the current block.
LEMMA AtPush ==
  ASSUME NEW fs \in Seq(Frame), NEW f \in Frame, NEW cb, NEW cc, NEW b, NEW k, At(b, k, fs, cb),
         \/ b # cb
         \/ f.kind = "func" /\ f.prevBlock = cb
         \/ f.kind = "switch" /\ f.pre = cb
  PROVE  At(b, k, Append(fs, f), cc)
<1> DEFINE gs == Append(fs, f)
<1>1. /\ Len(fs) \in Nat /\ gs \in Seq(Frame) /\ Len(gs) = Len(fs) + 1
      /\ \A i \in 1 .. Len(fs) : gs[i] = fs[i]
      /\ gs[Len(fs) + 1] = f
  BY LenProperties, AppendType
<1> HIDE DEF gs
<1>2. PICK i \in 1 .. Len(fs) : fs[i].kind = k /\ b = Returning(i, fs, cb)
  BY DEF At
<1>3. i \in 1 .. Len(gs) /\ gs[i].kind = k /\ i # Len(gs)
  BY <1>1, <1>2
<1>4. b = Returning(i, gs, cc)
  <2>1. CASE i = Len(fs)
    <3>1. b = cb
      BY <1>2, <2>1 DEF Returning
    <3>2. gs[i + 1] = f
      BY <1>1, <2>1
    <3> QED
      BY <1>3, <3>1, <3>2 DEF Returning
  <2>2. CASE i # Len(fs)
    <3>1. i + 1 \in 1 .. Len(fs)
      BY <1>1, <1>2, <2>2
    <3>2. gs[i + 1] = fs[i + 1]
      BY <1>1, <3>1
    <3> QED
      BY <1>2, <1>3, <2>2, <3>2 DEF Returning
  <2> QED
    BY <2>1, <2>2
<1>5. At(b, k, gs, cc)
  BY <1>3, <1>4 DEF At
<1> QED
  BY <1>5 DEF gs

\* A call is closed.  The end of a function literal goes back to the block it remembers.
LEMMA AtPop ==
  ASSUME NEW fs \in Seq(Frame), fs # << >>, NEW cb, NEW cc, NEW b, NEW k, At(b, k, fs, cb),
         b # cb \/ k # Last(fs).kind, b # NoBlock,
         Last(fs).kind = "func" => cc = Last(fs).prevBlock,
         Last(fs).kind = "switch" => b # Last(fs).pre
  PROVE  At(b, k, Front(fs), cc)
<1> DEFINE gs == Front(fs)
<1>1. /\ gs \in Seq(Frame) /\ Len(gs) = Len(fs) - 1 /\ Len(fs) \in Nat \ {0}
      /\ \A i \in 1 .. Len(fs) - 1 : gs[i] = fs[i]
      /\ Last(fs) = fs[Len(fs)]
  BY FrontType
<1> HIDE DEF gs
<1>2. PICK i \in 1 .. Len(fs) : fs[i].kind = k /\ b = Returning(i, fs, cb)
  BY DEF At
<1>3. i # Len(fs)
  BY <1>1, <1>2 DEF Returning
<1>4. i \in 1 .. Len(gs) /\ i \in 1 .. Len(fs) - 1
  BY <1>1, <1>2, <1>3
<1>5. gs[i].kind = k
  BY <1>1, <1>2, <1>4
<1>6. b = Returning(i, gs, cc)
  <2>1. CASE i = Len(gs)
    <3>1. i + 1 = Len(fs)
      BY <1>1, <2>1
    <3>2. b = IF Last(fs).kind = "func" THEN Last(fs).prevBlock
              ELSE IF Last(fs).kind = "switch" THEN Last(fs).pre ELSE NoBlock
      BY <1>1, <1>2, <1>3, <3>1 DEF Returning
    <3>3. b = cc
      BY <3>2
    <3> QED
      BY <2>1, <3>3 DEF Returning
  <2>2. CASE i # Len(gs)
    <3>1. i + 1 \in 1 .. Len(fs) - 1
      BY <1>1, <1>4, <2>2
    <3>2. gs[i + 1] = fs[i + 1]
      BY <1>1, <3>1
    <3> QED
      BY <1>2, <1>3, <2>2, <3>2 DEF Returning
  <2> QED
    BY <2>1, <2>2
<1>7. At(b, k, gs, cc)
  BY <1>4, <1>5, <1>6 DEF At
<1> QED
  BY <1>7 DEF gs

\* The innermost call changes, but neither its kind nor the block it remembers.
LEMMA AtTop ==
  ASSUME NEW fs \in Seq(Frame), fs # << >>, NEW g \in Frame, NEW cb, NEW cc, NEW b, NEW k,
         At(b, k, fs, cb), b # cb \/ k # Last(fs).kind,
         g.kind = Last(fs).kind, g.kind # "func", g.kind = "switch" => g.pre = Last(fs).pre
  PROVE  At(b, k, [fs EXCEPT ![Len(fs)] = g], cc)
<1> DEFINE gs == [fs EXCEPT ![Len(fs)] = g]
<1>1. /\ gs \in Seq(Frame) /\ Len(gs) = Len(fs) /\ Len(fs) \in Nat \ {0}
      /\ \A i \in 1 .. Len(fs) : gs[i] = IF i = Len(fs) THEN g ELSE fs[i]
      /\ Last(fs) = fs[Len(fs)]
  <2>1. Len(fs) \in Nat \ {0} /\ Last(fs) = fs[Len(fs)]
    BY FrontType
  <2>2. Len(fs) \in 1 .. Len(fs)
    BY <2>1
  <2> QED
    BY <2>1, <2>2, ExceptSeq
<1> HIDE DEF gs
<1>2. PICK i \in 1 .. Len(fs) : fs[i].kind = k /\ b = Returning(i, fs, cb)
  BY DEF At
<1>3. i # Len(fs)
  BY <1>1, <1>2 DEF Returning
<1>4. i \in 1 .. Len(gs) /\ gs[i].kind = k /\ i + 1 \in 1 .. Len(fs) /\ i # Len(gs)
  BY <1>1, <1>2, <1>3
<1>5. b = Returning(i, gs, cc)
  <2>1. gs[i + 1] = IF i + 1 = Len(fs) THEN g ELSE fs[i + 1]
    BY <1>1, <1>4
  <2> QED
    BY <1>1, <1>2, <1>3, <1>4, <2>1 DEF Returning
<1>6. At(b, k, gs, cc)
  BY <1>4, <1>5 DEF At
<1> QED
  BY <1>6 DEF gs

-----------------------------------------------------------------------------
(* How the open calls are nested                                             *)

\* A switch is the innermost call, and only a function literal is inside an append.
Nested(fs) ==
  \A i \in 1 .. Len(fs) - 1 : /\ fs[i].kind # "switch"
                              /\ fs[i].kind = "append" => fs[i + 1].kind = "func"

\* Where a switch f of function cf is compiled: in the block it stands in, its default or
\* one of its cases.
SwitchAt(f, cb, cf, bs) ==
  f.kind = "switch" =>
    /\ f.open = "none"    => cb = f.pre
    /\ f.open = "default" => cb = f.dflt
    /\ f.open = "case"    => \E k \in 1 .. Len(f.cases) : f.cases[k] = cb
    /\ \A k \in 1 .. Len(f.cases) : In(f.cases[k], cf, bs)

\* The open functions are incomplete, and no function is open twice.
FuncsOpen(fs, fns) ==
  \A i \in 1 .. Len(fs) : fs[i].kind = "func" =>
    /\ ~ fns[fs[i].fn].complete
    /\ \A j \in 1 .. i - 1 : fs[j].kind = "func" => fs[j].fn # fs[i].fn

\* A return statement terminates the current block.
Returned ==
  status = "compiling" /\ src # << >> /\ Last(src).op = "return"
    => blocks[contextBlock].term \in {RetVal, RetVoid}

CallsRight ==
  /\ Nested(frames)
  /\ frames # << >> => SwitchAt(Top, contextBlock, contextFunc, blocks)
  /\ FuncsOpen(frames, funcs)
  /\ Returned

\* A call is opened.
LEMMA NestedPush ==
  ASSUME NEW fs \in Seq(Frame), NEW f \in Frame, Nested(fs),
         fs # << >> => /\ Last(fs).kind # "switch"
                       /\ Last(fs).kind = "append" => f.kind = "func"
  PROVE  Nested(Append(fs, f))
<1> DEFINE gs == Append(fs, f)
<1>1. /\ Len(fs) \in Nat /\ Len(gs) = Len(fs) + 1
      /\ \A i \in 1 .. Len(fs) : gs[i] = fs[i]
      /\ gs[Len(fs) + 1] = f
  BY LenProperties, AppendType
<1> HIDE DEF gs
<1>0. fs # << >> => Last(fs) = fs[Len(fs)]
  BY FrontType
<1>2. ASSUME NEW i \in 1 .. Len(gs) - 1
      PROVE  gs[i].kind # "switch" /\ (gs[i].kind = "append" => gs[i + 1].kind = "func")
  <2>1. i \in 1 .. Len(fs) /\ gs[i] = fs[i] /\ fs # << >>
    BY <1>1
  <2>2. CASE i = Len(fs)
    BY <1>0, <1>1, <2>1, <2>2
  <2>3. CASE i # Len(fs)
    <3>1. i \in 1 .. Len(fs) - 1 /\ i + 1 \in 1 .. Len(fs)
      BY <1>1, <2>1, <2>3
    <3> QED
      BY <1>1, <2>1, <3>1 DEF Nested
  <2> QED
    BY <2>2, <2>3
<1>3. Nested(gs)
  BY <1>2 DEF Nested
<1> QED
  BY <1>3 DEF gs

\* A call is closed.  The call it was made in is no switch, and an append only if the
\* closed call is a function literal.
LEMMA NestedPop ==
  ASSUME NEW fs \in Seq(Frame), fs # << >>, Nested(fs)
  PROVE  /\ Nested(Front(fs))
         /\ Front(fs) # << >> =>
              /\ Last(Front(fs)) = fs[Len(fs) - 1]
              /\ Len(fs) - 1 \in 1 .. Len(fs) - 1
              /\ fs[Len(fs) - 1] \in Frame
              /\ fs[Len(fs) - 1].kind # "switch"
              /\ fs[Len(fs) - 1].kind = "append" => Last(fs).kind = "func"
<1> DEFINE gs == Front(fs)
<1>1. /\ gs \in Seq(Frame) /\ Len(gs) = Len(fs) - 1 /\ Len(fs) \in Nat \ {0}
      /\ \A i \in 1 .. Len(fs) - 1 : gs[i] = fs[i]
      /\ Last(fs) = fs[Len(fs)]
  BY FrontType
<1>2. gs # << >> => Len(gs) \in Nat \ {0} /\ Last(gs) = gs[Len(gs)] /\ Last(gs) \in Frame
  BY <1>1, FrontType
<1> HIDE DEF gs
<1>3. Nested(gs)
  <2>1. ASSUME NEW i \in 1 .. Len(gs) - 1
        PROVE  gs[i].kind # "switch" /\ (gs[i].kind = "append" => gs[i + 1].kind = "func")
    <3>1. i \in 1 .. Len(fs) - 1 /\ i + 1 \in 1 .. Len(fs) - 1
      BY <1>1
    <3> QED
      BY <1>1, <3>1 DEF Nested
  <2> QED
    BY <2>1 DEF Nested
<1>4. ASSUME gs # << >>
      PROVE  /\ Last(gs) = fs[Len(fs) - 1]
             /\ Len(fs) - 1 \in 1 .. Len(fs) - 1
             /\ fs[Len(fs) - 1] \in Frame
             /\ fs[Len(fs) - 1].kind # "switch"
             /\ fs[Len(fs) - 1].kind = "append" => Last(fs).kind = "func"
  <2>1. Len(fs) - 1 \in 1 .. Len(fs) - 1 /\ Len(fs) - 1 + 1 = Len(fs)
    BY <1>1, <1>2, <1>4
  <2>2. Last(gs) = fs[Len(fs) - 1]
    BY <1>1, <1>2, <1>4, <2>1
  <2> QED
    BY <1>1, <1>2, <1>4, <2>1, <2>2 DEF Nested
<1> QED
  BY <1>3, <1>4 DEF gs

\* The innermost call changes.
LEMMA NestedTop ==
  ASSUME NEW fs \in Seq(Frame), fs # << >>, NEW g \in Frame, g.kind = Last(fs).kind, Nested(fs)
  PROVE  /\ Nested([fs EXCEPT ![Len(fs)] = g])
         /\ [fs EXCEPT ![Len(fs)] = g] # << >>
         /\ Last([fs EXCEPT ![Len(fs)] = g]) = g
<1> DEFINE gs == [fs EXCEPT ![Len(fs)] = g]
<1>1. Len(fs) \in Nat \ {0} /\ Last(fs) = fs[Len(fs)]
  BY FrontType
<1>2. Len(fs) \in 1 .. Len(fs)
  BY <1>1
<1>3. /\ gs \in Seq(Frame) /\ Len(gs) = Len(fs)
      /\ \A i \in 1 .. Len(fs) : gs[i] = IF i = Len(fs) THEN g ELSE fs[i]
  BY <1>2, ExceptSeq
<1> HIDE DEF gs
<1>4. gs # << >>
  BY <1>1, <1>3
<1>5. Last(gs) = g
  BY <1>2, <1>3, <1>4, FrontType
<1>6. Nested(gs)
  <2>1. ASSUME NEW i \in 1 .. Len(gs) - 1
        PROVE  gs[i].kind # "switch" /\ (gs[i].kind = "append" => gs[i + 1].kind = "func")
    <3>1. i \in 1 .. Len(fs) - 1 /\ i \in 1 .. Len(fs) /\ i + 1 \in 1 .. Len(fs) /\ i # Len(fs)
      BY <1>1, <1>3
    <3>2. gs[i] = fs[i] /\ gs[i + 1].kind = fs[i + 1].kind
      BY <1>1, <1>3, <3>1
    <3> QED
      BY <3>1, <3>2 DEF Nested
  <2> QED
    BY <2>1 DEF Nested
<1> QED
  BY <1>4, <1>5, <1>6 DEF gs

\* A call is opened: of a function that is incomplete and not open yet, if of a function.
LEMMA OpenPush ==
  ASSUME NEW fs \in Seq(Frame), NEW f \in Frame, NEW fns, NEW gns, FuncsOpen(fs, fns),
         \A i \in 1 .. Len(fs) :
           fs[i].kind = "func" => gns[fs[i].fn].complete = fns[fs[i].fn].complete,
         f.kind = "func" =>
           /\ ~ gns[f.fn].complete
           /\ \A i \in 1 .. Len(fs) : fs[i].kind = "func" => fs[i].fn # f.fn
  PROVE  FuncsOpen(Append(fs, f), gns)
<1> DEFINE gs == Append(fs, f)
<1>1. /\ Len(fs) \in Nat /\ Len(gs) = Len(fs) + 1
      /\ \A i \in 1 .. Len(fs) : gs[i] = fs[i]
      /\ gs[Len(fs) + 1] = f
  BY LenProperties, AppendType
<1> HIDE DEF gs
<1>2. ASSUME NEW i \in 1 .. Len(gs), gs[i].kind = "func"
      PROVE  /\ ~ gns[gs[i].fn].complete
             /\ \A j \in 1 .. i - 1 : gs[j].kind = "func" => gs[j].fn # gs[i].fn
  <2>1. CASE i = Len(fs) + 1
    <3>1. \A j \in 1 .. i - 1 : j \in 1 .. Len(fs)
      BY <1>1, <2>1
    <3> QED
      BY <1>1, <1>2, <2>1, <3>1
  <2>2. CASE i # Len(fs) + 1
    <3>1. i \in 1 .. Len(fs) /\ \A j \in 1 .. i - 1 : j \in 1 .. Len(fs)
      BY <1>1, <2>2
    <3> QED
      BY <1>1, <1>2, <3>1 DEF FuncsOpen
  <2> QED
    BY <2>1, <2>2
<1>3. FuncsOpen(gs, gns)
  BY <1>2 DEF FuncsOpen
<1> QED
  BY <1>3 DEF gs

\* A call is closed: if of a function, no other function has been completed.
LEMMA OpenPop ==
  ASSUME NEW fs \in Seq(Frame), fs # << >>, NEW fns, NEW gns, FuncsOpen(fs, fns),
         \A i \in 1 .. Len(fs) :
           /\ fs[i].kind = "func"
           /\ Last(fs).kind = "func" => fs[i].fn # Last(fs).fn
           => gns[fs[i].fn].complete = fns[fs[i].fn].complete
  PROVE  FuncsOpen(Front(fs), gns)
<1> DEFINE gs == Front(fs)
<1>1. /\ Len(gs) = Len(fs) - 1 /\ Len(fs) \in Nat \ {0}
      /\ \A i \in 1 .. Len(fs) - 1 : gs[i] = fs[i]
      /\ Last(fs) = fs[Len(fs)]
  BY FrontType
<1> HIDE DEF gs
<1>2. ASSUME NEW i \in 1 .. Len(gs), gs[i].kind = "func"
      PROVE  /\ ~ gns[gs[i].fn].complete
             /\ \A j \in 1 .. i - 1 : gs[j].kind = "func" => gs[j].fn # gs[i].fn
  <2>1. /\ i \in 1 .. Len(fs) - 1 /\ i \in 1 .. Len(fs) /\ Len(fs) \in 1 .. Len(fs)
        /\ i \in 1 .. Len(fs) - 1
        /\ \A j \in 1 .. i - 1 : j \in 1 .. Len(fs) - 1
    BY <1>1
  <2>2. gs[i] = fs[i] /\ \A j \in 1 .. i - 1 : gs[j] = fs[j]
    BY <1>1, <2>1
  <2>3. Last(fs).kind = "func" => fs[i].fn # Last(fs).fn
    BY <1>1, <1>2, <2>1, <2>2 DEF FuncsOpen
  <2> QED
    BY <1>2, <2>1, <2>2, <2>3 DEF FuncsOpen
<1>3. FuncsOpen(gs, gns)
  BY <1>2 DEF FuncsOpen
<1> QED
  BY <1>3 DEF gs

\* The innermost call changes and is of no function.
LEMMA OpenTop ==
  ASSUME NEW fs \in Seq(Frame), fs # << >>, NEW g \in Frame, g.kind = Last(fs).kind,
         g.kind # "func", NEW fns, FuncsOpen(fs, fns)
  PROVE  FuncsOpen([fs EXCEPT ![Len(fs)] = g], fns)
<1> DEFINE gs == [fs EXCEPT ![Len(fs)] = g]
<1>1. Len(fs) \in Nat \ {0}
  BY FrontType
<1>2. Len(fs) \in 1 .. Len(fs)
  BY <1>1
<1>3. /\ Len(gs) = Len(fs)
      /\ \A i \in 1 .. Len(fs) : gs[i] = IF i = Len(fs) THEN g ELSE fs[i]
  BY <1>2, ExceptSeq
<1> HIDE DEF gs
<1>4. ASSUME NEW i \in 1 .. Len(gs), gs[i].kind = "func"
      PROVE  /\ ~ fns[gs[i].fn].complete
             /\ \A j \in 1 .. i - 1 : gs[j].kind = "func" => gs[j].fn # gs[i].fn
  <2>1. i \in 1 .. Len(fs) /\ i # Len(fs) /\ \A j \in 1 .. i - 1 : j \in 1 .. Len(fs) /\ j # Len(fs)
    BY <1>1, <1>3, <1>4
  <2>2. gs[i] = fs[i] /\ \A j \in 1 .. i - 1 : gs[j] = fs[j]
    BY <1>3, <2>1
  <2> QED
    BY <1>4, <2>1, <2>2 DEF FuncsOpen
<1>5. FuncsOpen(gs, fns)
  BY <1>4 DEF FuncsOpen
<1> QED
  BY <1>5 DEF gs

\* The blocks of a switch stay where they are.
LEMMA SwitchGrows ==
  ASSUME NEW bs \in Seq(BasicBlock), NEW cs, Grows(bs, cs), NEW f, NEW cb, NEW cf,
         SwitchAt(f, cb, cf, bs)
  PROVE  SwitchAt(f, cb, cf, cs)
BY InGrows DEF SwitchAt

\* Instructions, checks and jumps leave the calls alone.
LEMMA CallsStraight ==
  ASSUME TypeOK, OwnedNow, CallsRight, UNCHANGED <<funcs, frames, contextFunc>>,
         Grows(blocks, blocks'), Returned',
         contextBlock' = contextBlock \/ Top.kind # "switch"
  PROVE  CallsRight'
<1>1. blocks \in Seq(BasicBlock)
  BY DEF TypeOK
<1>2. ASSUME frames # << >> PROVE SwitchAt(Top, contextBlock', contextFunc, blocks')
  <2>1. SwitchAt(Top, contextBlock, contextFunc, blocks)
    BY <1>2 DEF CallsRight
  <2>2. SwitchAt(Top, contextBlock, contextFunc, blocks')
    BY <1>1, <2>1, SwitchGrows
  <2> QED
    BY <2>2 DEF SwitchAt
<1>3. frames' # << >> => SwitchAt(Top', contextBlock', contextFunc', blocks')
  BY <1>2 DEF Top
<1> QED
  BY <1>3 DEF CallsRight

\* A call other than a function is opened.
LEMMA CallsPush ==
  ASSUME TypeOK, OwnedNow, CallsRight, UNCHANGED funcs, Returned',
         NEW f \in Frame, frames' = Append(frames, f), f.kind # "func",
         frames # << >> => Top.kind \notin {"switch", "append"},
         SwitchAt(f, contextBlock', contextFunc', blocks')
  PROVE  CallsRight'
<1>1. frames \in Seq(Frame) /\ Nested(frames) /\ FuncsOpen(frames, funcs)
  BY DEF TypeOK, CallsRight
<1>2. Nested(frames')
  BY <1>1, NestedPush DEF Top
<1>3. FuncsOpen(frames', funcs')
  BY <1>1, OpenPush
<1>4. frames' # << >> /\ Top' = f
  BY <1>1, AppendType DEF Top
<1> QED
  BY <1>2, <1>3, <1>4 DEF CallsRight

\* A call other than a function is closed.
LEMMA CallsPop ==
  ASSUME TypeOK, OwnedNow, CallsRight, UNCHANGED funcs, Returned',
         frames # << >>, frames' = Front(frames)
  PROVE  CallsRight'
<1>1. frames \in Seq(Frame) /\ Nested(frames) /\ FuncsOpen(frames, funcs)
  BY DEF TypeOK, CallsRight
<1>2. Nested(frames') /\ (frames' # << >> => Last(frames').kind # "switch")
  BY <1>1, NestedPop
<1>3. FuncsOpen(frames', funcs')
  BY <1>1, OpenPop
<1>4. frames' # << >> => SwitchAt(Top', contextBlock', contextFunc', blocks')
  BY <1>2 DEF Top, SwitchAt
<1> QED
  BY <1>2, <1>3, <1>4 DEF CallsRight

\* The innermost call changes.
LEMMA CallsTop ==
  ASSUME TypeOK, OwnedNow, CallsRight, UNCHANGED <<funcs, contextFunc>>, Returned',
         frames # << >>, NEW g \in Frame, frames' = [frames EXCEPT ![Len(frames)] = g],
         g.kind = Top.kind, g.kind # "func",
         SwitchAt(g, contextBlock', contextFunc, blocks')
  PROVE  CallsRight'
<1>1. frames \in Seq(Frame) /\ Nested(frames) /\ FuncsOpen(frames, funcs)
  BY DEF TypeOK, CallsRight
<1>2. Nested(frames') /\ frames' # << >> /\ Last(frames') = g
  BY <1>1, NestedTop DEF Top
<1>3. FuncsOpen(frames', funcs')
  BY <1>1, OpenTop DEF Top
<1>4. frames' # << >> => SwitchAt(Top', contextBlock', contextFunc', blocks')
  BY <1>2 DEF Top
<1> QED
  BY <1>2, <1>3, <1>4 DEF CallsRight

-----------------------------------------------------------------------------
(* CallsRight: one lemma per action                                          *)

\* The token written last.
LEMMA LastPut ==
  ASSUME TypeOK, NEW op, NEW of, NEW form, Put(op, of, form)
  PROVE  src' # << >> /\ Last(src').op = op
<1> DEFINE e == [op |-> op, of |-> of, form |-> form]
           S == Token \cup {e}
<1>1. src' = Append(src, e)
  BY DEF Put
<1>2. src \in Seq(Token) /\ Token \subseteq S /\ e \in S /\ e.op = op
  BY DEF TypeOK
<1> HIDE DEF e, S
<1>3. src \in Seq(S)
  BY <1>2, LenProperties
<1>4. src' # << >> /\ Last(src') = e
  BY <1>1, <1>2, <1>3, AppendType
<1> QED
  BY <1>2, <1>4

LEMMA OtherReturned ==
  ASSUME TypeOK, NEW op, NEW of, NEW form, Put(op, of, form), op # "return"
  PROVE  Returned'
BY LastPut DEF Returned

LEMMA ReturnReturned ==
  ASSUME TypeOK, OwnedNow, ReturnValues \/ NakedReturn
  PROVE  Returned'
<1>1. frames # << >> /\ contextBlock' = contextBlock /\ contextBlock \in 1 .. Len(blocks)
  BY Context DEF ReturnValues, NakedReturn, ReturnAllowed, JumpAllowed, StatementAllowed, CanStand
<1>2. ASSUME NEW t \in {RetVal, RetVoid},
             blocks' = Terminate(Emit(blocks, contextBlock, [at |-> Here, tag |-> "ret"]),
                                 contextBlock, t)
      PROVE  blocks'[contextBlock].term = t
  <2>1. t \in Term
    BY TermTypes
  <2> QED
    BY <1>1, <1>2, <2>1, ReturnTerms DEF Returns
<1>3. CASE ReturnValues
  BY <1>1, <1>2, <1>3 DEF ReturnValues, Returned
<1>4. CASE NakedReturn
  BY <1>1, <1>2, <1>4 DEF NakedReturn, NakedTerm, Returned
<1> QED
  BY <1>3, <1>4

\* Every other action writes another token, or none and does not go on.
LEMMA NextReturned ==
  ASSUME TypeOK, OwnedNow, Returned, [Next]_vars
  PROVE  Returned'
<1>1. CASE Stmt \/ Index \/ Substring \/ TypeAssertion
  BY <1>1, OtherReturned DEF Stmt, Index, Substring, TypeAssertion
<1>2. CASE (\E self \in BOOLEAN : BeginAppend(self)) \/ NestedAppend \/ EndAppend
  BY <1>2, OtherReturned DEF BeginAppend, NestedAppend, EndAppend
<1>3. CASE (\E hasElse \in BOOLEAN : BeginIf(hasElse)) \/ BeginElse \/ EndIf
  BY <1>3, OtherReturned DEF BeginIf, BeginElse, EndIf
<1>4. CASE (\E form \in {"plain", "checked", "range"} : BeginFor(form)) \/ EndFor
  BY <1>4, OtherReturned DEF BeginFor, EndFor
<1>5. CASE Break \/ Continue
  BY <1>5, OtherReturned DEF Break, Continue
<1>6. CASE (\E hasDefault \in BOOLEAN : BeginSwitch(hasDefault)) \/ EndDefault
             \/ BeginCase \/ EndSwitch
  BY <1>6, OtherReturned DEF BeginSwitch, EndDefault, BeginCase, EndSwitch
<1>7. CASE \E fallthrough \in BOOLEAN : EndCase(fallthrough)
  <2>1. PICK fallthrough \in BOOLEAN : EndCase(fallthrough)
    BY <1>7
  <2>2. Put(IF fallthrough THEN "fallthrough" ELSE "endcase", Top.at, "plain")
    BY <2>1 DEF EndCase
  <2>3. (IF fallthrough THEN "fallthrough" ELSE "endcase") # "return"
    OBVIOUS
  <2> QED
    BY <2>2, <2>3, OtherReturned
<1>8. CASE BeginMain \/ EndFunc \/
             \E kind \in {"init", "named", "method", "literal"}, results \in 0 .. 2 :
               BeginFunc(kind, results)
  BY <1>8, OtherReturned DEF BeginMain, BeginFunc, EndFunc
<1>9. CASE ReturnValues \/ NakedReturn
  BY <1>9, ReturnReturned
<1>10. CASE Finish \/ UNCHANGED vars
  BY <1>10 DEF Finish, vars, Returned
<1> QED
  BY <1>1, <1>2, <1>3, <1>4, <1>5, <1>6, <1>7, <1>8, <1>9, <1>10 DEF Next

\* What a statement other than straight-line code, and an expression, may stand in.
LEMMA Standing ==
  ASSUME "flowInCase" \notin Extra, NEW s, s # "stmt"
  PROVE  /\ CanStand(s) => status = "compiling" /\ frames # << >> /\ Top.kind # "switch"
         /\ StatementAllowed(s) => /\ status = "compiling" /\ frames # << >>
                                   /\ Top.kind \notin {"switch", "append"}
         /\ ExpressionAllowed(s) => /\ status = "compiling" /\ frames # << >>
                                    /\ Top.kind # "switch"
BY DEF CanStand, StatementAllowed, ExpressionAllowed, Open

LEMMA StraightCalls ==
  ASSUME TypeOK, OwnedNow, StacksRight, CallsRight, Returned', "flowInCase" \notin Extra,
         Stmt \/ Index \/ Substring \/ TypeAssertion \/ NestedAppend \/ Break \/ Continue
           \/ ReturnValues \/ NakedReturn
  PROVE  CallsRight'
<1>1. UNCHANGED <<funcs, frames, contextFunc>> /\ frames # << >>
  BY DEF Stmt, Index, Substring, TypeAssertion, NestedAppend, Break, Continue, ReturnValues,
         NakedReturn, ReturnAllowed, JumpAllowed, StatementAllowed, ExpressionAllowed, CanStand
<1>2. contextBlock' = contextBlock \/ Top.kind # "switch"
  BY Standing DEF Stmt, Index, Substring, TypeAssertion, NestedAppend, Break, Continue,
                  ReturnValues, NakedReturn
<1>3. blocks \in Seq(BasicBlock)
  BY DEF TypeOK
<1>4. Grows(blocks, blocks')
  <2>1. CASE ReturnValues \/ NakedReturn
    <3>1. \/ blocks' = blocks
          \/ \E t \in {RetVal, RetVoid} : blocks' =
               Terminate(Emit(blocks, contextBlock, [at |-> Here, tag |-> "ret"]), contextBlock, t)
      BY <2>1 DEF ReturnValues, NakedReturn, NakedTerm
    <3>2. ASSUME NEW t \in Term,
                 blocks' = Terminate(Emit(blocks, contextBlock, [at |-> Here, tag |-> "ret"]),
                                     contextBlock, t)
          PROVE  Grows(blocks, blocks')
      <4>1. Returns(blocks', t)
        BY <1>1, <3>2, ReturnTerms
      <4> QED
        BY <1>3, <4>1, LenProperties DEF Returns, Grows
    <3> QED
      BY <1>3, <3>1, <3>2, TermTypes, GrowsRefl
  <2>2. CASE Break \/ Continue
    BY <1>3, <2>2, BreakBuilds, GrowsRefl DEF Builds, Added
  <2>3. CASE Index \/ Substring \/ TypeAssertion
    BY <2>3, IndexBuilds, SubstringBuilds, TypeAssertionBuilds DEF Builds, Added
  <2>4. CASE Stmt \/ NestedAppend
    BY <2>4, StraightBuilds DEF Builds, Added
  <2> QED
    BY <2>1, <2>2, <2>3, <2>4
<1> QED
  BY <1>1, <1>2, <1>4, CallsStraight

LEMMA BeginAppendCalls ==
  ASSUME TypeOK, OwnedNow, CallsRight, Returned', "flowInCase" \notin Extra,
         NEW self \in BOOLEAN, BeginAppend(self), TypeOK'
  PROVE  CallsRight'
<1> DEFINE f == [kind |-> "append", at |-> Here, entry |-> Heights, add |-> Fresh(2)]
<1>1. /\ frames' = Append(frames, f) /\ UNCHANGED funcs
      /\ frames # << >> /\ Top.kind \notin {"switch", "append"}
  BY Standing DEF BeginAppend
<1>2. f \in Frame
  BY Numbers DEF Frame, AppendFrame
<1>3. f.kind # "func" /\ SwitchAt(f, contextBlock', contextFunc', blocks')
  BY DEF SwitchAt
<1> HIDE DEF f
<1> QED
  BY <1>1, <1>2, <1>3, CallsPush

LEMMA BeginIfCalls ==
  ASSUME TypeOK, OwnedNow, CallsRight, Returned', "flowInCase" \notin Extra,
         NEW hasElse \in BOOLEAN, BeginIf(hasElse)
  PROVE  CallsRight'
<1> DEFINE fls == IF hasElse THEN Fresh(3) ELSE Fresh(1)
           f   == [kind |-> "if", at |-> Here, entry |-> Heights, hasElse |-> hasElse,
                   arm |-> "true", tru |-> Fresh(2), fls |-> fls, after |-> Fresh(1)]
<1>1. /\ frames' = Append(frames, f) /\ UNCHANGED funcs
      /\ frames # << >> /\ Top.kind \notin {"switch", "append"}
  BY Standing DEF BeginIf
<1>2. f \in Frame
  BY Numbers, FreshBlocks DEF Frame, IfFrame
<1>3. f.kind # "func" /\ SwitchAt(f, contextBlock', contextFunc', blocks')
  BY DEF SwitchAt
<1> HIDE DEF f
<1> QED
  BY <1>1, <1>2, <1>3, CallsPush

LEMMA BeginForCalls ==
  ASSUME TypeOK, OwnedNow, CallsRight, Returned', "flowInCase" \notin Extra,
         NEW form \in {"plain", "checked", "range"}, BeginFor(form)
  PROVE  CallsRight'
<1> DEFINE f == [kind |-> "for", at |-> Here, entry |-> Heights,
                 cond |-> Fresh(1), post |-> Fresh(3), after |-> Fresh(4)]
<1>1. /\ frames' = Append(frames, f) /\ UNCHANGED funcs
      /\ frames # << >> /\ Top.kind \notin {"switch", "append"}
  BY Standing DEF BeginFor
<1>2. f \in Frame
  BY Numbers, FreshBlocks DEF Frame, ForFrame
<1>3. f.kind # "func" /\ SwitchAt(f, contextBlock', contextFunc', blocks')
  BY DEF SwitchAt
<1> HIDE DEF f
<1> QED
  BY <1>1, <1>2, <1>3, CallsPush

LEMMA BeginSwitchCalls ==
  ASSUME TypeOK, OwnedNow, CallsRight, Returned', "flowInCase" \notin Extra,
         NEW hasDefault \in BOOLEAN, BeginSwitch(hasDefault)
  PROVE  CallsRight'
<1> DEFINE open == IF hasDefault THEN "default" ELSE "none"
           f    == [kind |-> "switch", at |-> Here, entry |-> Heights,
                    hasDefault |-> hasDefault, open |-> open, pre |-> contextBlock,
                    dflt |-> Fresh(2), after |-> Fresh(1), cases |-> << >>, through |-> << >>]
<1>1. /\ frames' = Append(frames, f) /\ UNCHANGED funcs
      /\ contextBlock' = IF hasDefault THEN Fresh(2) ELSE contextBlock
      /\ frames # << >> /\ Top.kind \notin {"switch", "append"}
  BY Standing DEF BeginSwitch
<1>2. contextBlock \in Block
  <2>1. contextBlock \in 1 .. Len(blocks) /\ Len(blocks) \in Nat
    BY <1>1, Context, Numbers
  <2> QED
    BY <2>1 DEF Block
<1>3. f \in Frame
  BY <1>2, Numbers, FreshBlocks DEF Frame, SwitchFrame
<1>4. f.kind # "func" /\ SwitchAt(f, contextBlock', contextFunc', blocks')
  BY <1>1 DEF SwitchAt
<1> HIDE DEF f
<1> QED
  BY <1>1, <1>3, <1>4, CallsPush

LEMMA CloseCalls ==
  ASSUME TypeOK, OwnedNow, CallsRight, Returned', "flowInCase" \notin Extra,
         EndAppend \/ EndIf \/ EndFor \/ EndSwitch
  PROVE  CallsRight'
<1>1. frames # << >> /\ UNCHANGED <<funcs, contextFunc>>
  BY DEF EndAppend, EndIf, EndFor, EndSwitch, Open
<1>2. CASE frames' = Front(frames)
  BY <1>1, <1>2, CallsPop
<1>3. CASE UNCHANGED <<blocks, contextBlock, frames>>
  <2>1. Grows(blocks, blocks')
    BY <1>3, GrowsRefl DEF TypeOK
  <2> QED
    BY <1>1, <1>3, <2>1, CallsStraight
<1>4. frames' = Front(frames) \/ UNCHANGED <<blocks, contextBlock, frames>>
  BY EndSwitchBuilds DEF EndAppend, EndIf, EndFor
<1> QED
  BY <1>2, <1>3, <1>4

\* The innermost call becomes g, of the same kind.
Becomes(g) ==
  /\ frames # << >> /\ g \in Frame /\ g.kind = Top.kind /\ g.after = Top.after
  /\ frames' = [frames EXCEPT ![Len(frames)] = g]
  /\ UNCHANGED <<funcs, contextFunc>>

LEMMA ElseBecomes ==
  ASSUME TypeOK, OwnedNow, BeginElse
  PROVE  Top.kind = "if" /\ \E g : Becomes(g) /\ g.arm = "false"
<1> DEFINE g == [frames[Len(frames)] EXCEPT !.arm = "false"]
<1>1. frames # << >> /\ Top.kind = "if" /\ UNCHANGED <<funcs, contextFunc>>
  BY DEF BeginElse, Open
<1>2. Top = frames[Len(frames)] /\ Top \in IfFrame
  BY <1>1, Context, FrameKinds
<1>3. /\ g \in Frame /\ g.kind = frames[Len(frames)].kind
      /\ g.after = frames[Len(frames)].after /\ g.arm = "false"
  BY <1>2 DEF Frame, IfFrame
<1>4. frames' = [frames EXCEPT ![Len(frames)] = g]
  BY DEF BeginElse
<1> HIDE DEF g
<1>5. Becomes(g)
  BY <1>1, <1>2, <1>3, <1>4 DEF Becomes
<1> QED
  BY <1>1, <1>3, <1>5

\* A switch begins a case, or ends one or its default.
LEMMA SwitchBecomes ==
  ASSUME TypeOK, OwnedNow,
         EndDefault \/ BeginCase \/ \E fallthrough \in BOOLEAN : EndCase(fallthrough)
  PROVE  /\ Top.kind = "switch"
         /\ \E g : /\ Becomes(g) /\ g.pre = Top.pre
                   /\ BeginCase => /\ g.open = "case"
                                   /\ g.cases = Append(Top.cases, Fresh(1))
                   /\ ~ BeginCase => g.open = "none" /\ g.cases = Top.cases
<1> DEFINE top == frames[Len(frames)]
<1>1. frames # << >> /\ Top.kind = "switch" /\ UNCHANGED <<funcs, contextFunc>>
  BY DEF EndDefault, BeginCase, EndCase, Open
<1>2. Top = top /\ top \in SwitchFrame /\ Len(frames) \in DOMAIN frames
  BY <1>1, SwitchOwned DEF TypeOK
<1> HIDE DEF top
<1> SUFFICES \E g : /\ g \in Frame /\ g.kind = top.kind /\ g.after = top.after
                    /\ frames' = [frames EXCEPT ![Len(frames)] = g]
                    /\ g.pre = top.pre
                    /\ BeginCase => /\ g.open = "case"
                                    /\ g.cases = Append(top.cases, Fresh(1))
                    /\ ~ BeginCase => g.open = "none" /\ g.cases = top.cases
  BY <1>1, <1>2 DEF Becomes
<1>3. CASE EndDefault
  <2> DEFINE g == [top EXCEPT !.open = "none"]
  <2>1. g \in Frame /\ g.kind = top.kind /\ g.after = top.after /\ g.pre = top.pre
        /\ g.open = "none" /\ g.cases = top.cases
    BY <1>2 DEF Frame, SwitchFrame
  <2>2. frames' = [frames EXCEPT ![Len(frames)] = g]
    BY <1>3 DEF EndDefault, top
  <2>3. ~ BeginCase
    BY <1>3 DEF EndDefault, BeginCase
  <2> QED
    BY <2>1, <2>2, <2>3
<1>4. CASE BeginCase
  <2> DEFINE g == [top EXCEPT !.open = "case", !.cases = Append(@, Fresh(1))]
  <2>1. Append(top.cases, Fresh(1)) \in Seq(Block)
    BY <1>2, FreshBlocks, AppendType DEF SwitchFrame
  <2>2. g \in Frame /\ g.kind = top.kind /\ g.after = top.after /\ g.pre = top.pre
        /\ g.open = "case" /\ g.cases = Append(top.cases, Fresh(1))
    BY <1>2, <2>1 DEF Frame, SwitchFrame
  <2>3. frames' = [frames EXCEPT ![Len(frames)] = g]
    <3>1. frames' = [frames EXCEPT ![Len(frames)].open  = "case",
                                   ![Len(frames)].cases = Append(@, Fresh(1))]
      BY <1>4 DEF BeginCase
    <3> QED
      BY <1>2, <3>1 DEF top
  <2> QED
    BY <1>4, <2>2, <2>3
<1>5. CASE \E fallthrough \in BOOLEAN : EndCase(fallthrough)
  <2>1. PICK fallthrough \in BOOLEAN : EndCase(fallthrough)
    BY <1>5
  <2> DEFINE g == [top EXCEPT !.open = "none", !.through = Append(@, fallthrough)]
  <2>2. Append(top.through, fallthrough) \in Seq(BOOLEAN)
    BY <1>2, AppendType DEF SwitchFrame
  <2>3. g \in Frame /\ g.kind = top.kind /\ g.after = top.after /\ g.pre = top.pre
        /\ g.open = "none" /\ g.cases = top.cases
    BY <1>2, <2>2 DEF Frame, SwitchFrame
  <2>4. frames' = [frames EXCEPT ![Len(frames)] = g]
    <3>1. frames' = [frames EXCEPT ![Len(frames)].open = "none",
                                   ![Len(frames)].through = Append(@, fallthrough)]
      BY <2>1 DEF EndCase
    <3> QED
      BY <1>2, <3>1 DEF top
  <2>5. ~ BeginCase
    BY <2>1 DEF EndCase, BeginCase
  <2> QED
    BY <2>3, <2>4, <2>5
<1> QED
  BY <1>3, <1>4, <1>5

LEMMA BetweenCalls ==
  ASSUME TypeOK, OwnedNow, CallsRight, Returned',
         BeginElse \/ EndDefault \/ BeginCase \/ \E fallthrough \in BOOLEAN : EndCase(fallthrough)
  PROVE  CallsRight'
<1>1. ASSUME NEW g, Becomes(g), g.kind # "func", SwitchAt(g, contextBlock', contextFunc, blocks')
      PROVE  CallsRight'
  BY <1>1, CallsTop DEF Becomes
<1>2. CASE BeginElse
  BY <1>1, <1>2, ElseBecomes DEF SwitchAt, Becomes
<1>3. CASE EndDefault \/ BeginCase \/ \E fallthrough \in BOOLEAN : EndCase(fallthrough)
  <2>1. Top.kind = "switch" /\ frames # << >>
    BY <1>3, SwitchBecomes DEF Becomes
  <2>2. PICK g : /\ Becomes(g) /\ g.pre = Top.pre
                 /\ BeginCase => g.open = "case" /\ g.cases = Append(Top.cases, Fresh(1))
                 /\ ~ BeginCase => g.open = "none" /\ g.cases = Top.cases
    BY <1>3, SwitchBecomes
  <2>3. \A k \in 1 .. Len(Top.cases) : In(Top.cases[k], contextFunc, blocks)
    BY <2>1 DEF CallsRight, SwitchAt
  <2>4. blocks \in Seq(BasicBlock) /\ Grows(blocks, blocks')
    BY <1>3, EndDefaultBuilds, BeginCaseBuilds, StraightBuilds DEF Builds, Added, TypeOK
  <2>5. \A k \in 1 .. Len(Top.cases) : In(Top.cases[k], contextFunc, blocks')
    BY <2>3, <2>4, InGrows
  <2>6. g.kind = "switch"
    BY <2>1, <2>2 DEF Becomes
  <2>7. CASE BeginCase
    <3>1. Builds(blocks', 1, {}, {Fresh(1)}) /\ contextBlock' = Fresh(1)
      BY <2>7, BeginCaseBuilds DEF BeginCase
    <3>2. In(Fresh(1), contextFunc, blocks')
      BY <3>1, FreshIn DEF Builds
    <3>3. Top.cases \in Seq(Block) /\ Fresh(1) \in Block
      BY <2>1, TopType, FreshBlocks
    <3>4. g.open = "case" /\ g.cases = Append(Top.cases, Fresh(1))
      BY <2>2, <2>7
    <3>5. /\ Len(Top.cases) \in Nat /\ Len(g.cases) = Len(Top.cases) + 1
          /\ \A k \in 1 .. Len(Top.cases) : g.cases[k] = Top.cases[k]
          /\ g.cases[Len(Top.cases) + 1] = Fresh(1)
      BY <3>3, <3>4, AppendType, LenProperties
    <3>6. \A k \in 1 .. Len(g.cases) : k \in 1 .. Len(Top.cases) \/ k = Len(Top.cases) + 1
      BY <3>5
    <3>7. \A k \in 1 .. Len(g.cases) : In(g.cases[k], contextFunc, blocks')
      BY <2>5, <3>2, <3>5, <3>6
    <3>8. \E k \in 1 .. Len(g.cases) : g.cases[k] = contextBlock'
      <4>1. Len(Top.cases) + 1 \in 1 .. Len(g.cases)
        BY <3>5
      <4> QED
        BY <3>1, <3>5, <4>1
    <3>9. SwitchAt(g, contextBlock', contextFunc, blocks')
      BY <3>4, <3>7, <3>8 DEF SwitchAt
    <3> QED
      BY <1>1, <2>2, <2>6, <3>9
  <2>8. CASE ~ BeginCase
    <3>1. contextBlock' = Top.pre
      BY <1>3, <2>8 DEF EndDefault, EndCase
    <3>2. SwitchAt(g, contextBlock', contextFunc, blocks')
      BY <2>2, <2>5, <2>8, <3>1 DEF SwitchAt
    <3> QED
      BY <1>1, <2>2, <2>6, <3>2
  <2> QED
    BY <2>7, <2>8
<1> QED
  BY <1>2, <1>3

\* The frame that EnterFunc makes.
LEMMA EnterFrame ==
  ASSUME TypeOK, OwnedNow, NEW f \in Nat \ {0}, NEW entry, NEW results, EnterFunc(f, entry, results)
  PROVE  \E g \in Frame : /\ frames' = Append(frames, g) /\ g.kind = "func" /\ g.fn = f
                          /\ g.prevBlock = contextBlock /\ contextBlock' = entry
<1> DEFINE g == [kind |-> "func", at |-> Here, entry |-> Heights, fn |-> f,
                 prevFunc |-> contextFunc, prevBlock |-> contextBlock]
<1>1. contextFunc \in Nat /\ contextBlock \in Nat /\ Here \in Nat /\ Heights \in Height
  BY Numbers DEF TypeOK
<1>2. g \in Frame /\ g.kind = "func" /\ g.fn = f /\ g.prevBlock = contextBlock
  BY <1>1 DEF Frame, FuncFrame
<1>3. frames' = Append(frames, g) /\ contextBlock' = entry
  BY DEF EnterFunc
<1> QED
  BY <1>2, <1>3

\* A function is opened.
LEMMA EnterCalls ==
  ASSUME TypeOK, OwnedNow, CallsRight, Returned',
         NEW f \in Nat \ {0}, NEW entry, NEW results, EnterFunc(f, entry, results),
         \A k \in 1 .. Len(funcs) : funcs'[k].complete = funcs[k].complete,
         ~ funcs'[f].complete, frames = << >> \/ f > Len(funcs),
         frames # << >> => Top.kind # "switch"
  PROVE  CallsRight'
<1>1. frames \in Seq(Frame) /\ Nested(frames) /\ FuncsOpen(frames, funcs)
  BY DEF TypeOK, CallsRight
<1>2. PICK g \in Frame : frames' = Append(frames, g) /\ g.kind = "func" /\ g.fn = f
  BY EnterFrame
<1>3. Nested(frames')
  BY <1>1, <1>2, NestedPush DEF Top
<1>4. \A i \in 1 .. Len(frames) : frames[i].kind = "func" => frames[i].fn \in 1 .. Len(funcs)
  BY CallTypes
<1>5. \A i \in 1 .. Len(frames) : frames[i].kind = "func" => frames[i].fn # f
  <2>1. CASE frames = << >>
    BY <2>1
  <2>2. CASE f > Len(funcs)
    <3>1. Len(funcs) \in Nat
      BY Numbers
    <3>2. \A k \in 1 .. Len(funcs) : k # f
      BY <2>2, <3>1
    <3> QED
      BY <1>4, <3>2
  <2> QED
    BY <2>1, <2>2
<1>6. FuncsOpen(frames', funcs')
  <2>1. \A i \in 1 .. Len(frames) :
          frames[i].kind = "func" => funcs'[frames[i].fn].complete = funcs[frames[i].fn].complete
    BY <1>4
  <2> QED
    BY <1>1, <1>2, <1>5, <2>1, OpenPush
<1>7. frames' # << >> => SwitchAt(Top', contextBlock', contextFunc', blocks')
  <2>1. Last(frames') = g
    BY <1>1, <1>2, AppendType
  <2> QED
    BY <1>2, <2>1 DEF Top, SwitchAt
<1> QED
  BY <1>3, <1>6, <1>7 DEF CallsRight

LEMMA BeginMainCalls ==
  ASSUME TypeOK, OwnedNow, CallsRight, Returned', BeginMain
  PROVE  CallsRight'
<1>1. /\ EnterFunc(Main, 2, 0) /\ frames = << >> /\ ~ funcs[Main].complete
      /\ funcs' = [funcs EXCEPT ![Main].at = Here]
  BY DEF BeginMain
<1>2. Main \in Nat \ {0} /\ Main \in 1 .. Len(funcs) /\ funcs \in Seq(Func)
  BY Numbers DEF Main, TypeOK
<1>3. /\ \A k \in 1 .. Len(funcs) : funcs'[k].complete = funcs[k].complete
      /\ ~ funcs'[Main].complete
  <2>1. DOMAIN funcs = 1 .. Len(funcs)
    BY <1>2, LenProperties
  <2>2. \A k \in 1 .. Len(funcs) :
          funcs'[k] = IF k = Main THEN [funcs[k] EXCEPT !.at = Here] ELSE funcs[k]
    BY <1>1, <2>1
  <2>3. \A k \in 1 .. Len(funcs) : funcs[k] \in Func
    BY <1>2, <2>1, ElementOfSeq
  <2>4. \A k \in 1 .. Len(funcs) : funcs'[k].complete = funcs[k].complete
    BY <2>2, <2>3 DEF Func
  <2> QED
    BY <1>1, <1>2, <2>4
<1> QED
  BY <1>1, <1>2, <1>3, EnterCalls

LEMMA BeginFuncCalls ==
  ASSUME TypeOK, OwnedNow, CallsRight, Returned', "flowInCase" \notin Extra,
         NEW kind \in {"init", "named", "method", "literal"},
         NEW results \in 0 .. 2, BeginFunc(kind, results)
  PROVE  CallsRight'
<1> DEFINE f == Len(funcs) + 1
<1>1. Enters(kind, results)
  BY BeginFuncEnters
<1>2. EnterFunc(f, Fresh(1), results) /\ (frames # << >> => Top.kind # "switch")
  BY Standing DEF BeginFunc
<1>3. Len(funcs) \in Nat /\ f \in Nat \ {0} /\ f > Len(funcs)
  <2>1. Len(funcs) \in Nat
    BY Numbers
  <2> QED
    BY <2>1
<1>4. ~ funcs'[f].complete
  BY <1>1 DEF Enters
<1>5. \A k \in 1 .. Len(funcs) : funcs'[k].complete = funcs[k].complete
  <2>1. \A k \in 1 .. Len(funcs) : k # 0
    BY <1>3
  <2> QED
    BY <1>1, <2>1 DEF Enters, FuncsKept
<1> HIDE DEF f
<1> QED
  BY <1>2, <1>3, <1>4, <1>5, EnterCalls

LEMMA EndFuncCalls ==
  ASSUME TypeOK, OwnedNow, CallsRight, Returned', EndFunc
  PROVE  CallsRight'
<1>1. frames # << >> /\ Top.kind = "func" /\ frames' = Front(frames)
  BY DEF EndFunc, Open
<1>2. frames \in Seq(Frame) /\ Nested(frames) /\ FuncsOpen(frames, funcs)
  BY DEF TypeOK, CallsRight
<1>3. Nested(frames') /\ (frames' # << >> => Last(frames').kind # "switch")
  BY <1>1, <1>2, NestedPop
<1>4. FuncsOpen(frames', funcs')
  <2>1. FuncsKept(Top.fn)
    BY EndFuncBuilds
  <2>2. \A i \in 1 .. Len(frames) : frames[i].kind = "func" => frames[i].fn \in 1 .. Len(funcs)
    BY CallTypes
  <2>3. \A i \in 1 .. Len(frames) :
          frames[i].kind = "func" /\ frames[i].fn # Last(frames).fn
            => funcs'[frames[i].fn].complete = funcs[frames[i].fn].complete
    BY <2>1, <2>2 DEF FuncsKept, Top
  <2>4. Last(frames).kind = "func"
    BY <1>1 DEF Top
  <2>5. \A i \in 1 .. Len(frames) :
          /\ frames[i].kind = "func"
          /\ Last(frames).kind = "func" => frames[i].fn # Last(frames).fn
          => funcs'[frames[i].fn].complete = funcs[frames[i].fn].complete
    BY <2>3, <2>4
  <2> QED
    BY <1>1, <1>2, <2>5, OpenPop
<1>5. frames' # << >> => SwitchAt(Top', contextBlock', contextFunc', blocks')
  BY <1>3 DEF Top, SwitchAt
<1> QED
  BY <1>3, <1>4, <1>5 DEF CallsRight

LEMMA NextCalls ==
  ASSUME TypeOK, OwnedNow, StacksRight, CallsRight, [Next]_vars, "flowInCase" \notin Extra
  PROVE  CallsRight'
<1>1. Returned' /\ TypeOK'
  BY NextReturned, NextOwned DEF CallsRight
<1>2. CASE Stmt \/ Index \/ Substring \/ TypeAssertion \/ NestedAppend \/ Break \/ Continue
             \/ ReturnValues \/ NakedReturn
  BY <1>1, <1>2, StraightCalls
<1>3. CASE \/ \E self \in BOOLEAN : BeginAppend(self)
           \/ \E hasElse \in BOOLEAN : BeginIf(hasElse)
           \/ \E form \in {"plain", "checked", "range"} : BeginFor(form)
           \/ \E hasDefault \in BOOLEAN : BeginSwitch(hasDefault)
  BY <1>1, <1>3, BeginAppendCalls, BeginIfCalls, BeginForCalls, BeginSwitchCalls
<1>4. CASE EndAppend \/ EndIf \/ EndFor \/ EndSwitch
  BY <1>1, <1>4, CloseCalls
<1>5. CASE BeginElse \/ EndDefault \/ BeginCase \/ \E fallthrough \in BOOLEAN : EndCase(fallthrough)
  BY <1>1, <1>5, BetweenCalls
<1>6. CASE BeginMain \/ EndFunc \/
             \E kind \in {"init", "named", "method", "literal"}, results \in 0 .. 2 :
               BeginFunc(kind, results)
  BY <1>1, <1>6, BeginMainCalls, BeginFuncCalls, EndFuncCalls
<1>7. CASE Finish \/ UNCHANGED vars
  <2>1. UNCHANGED <<funcs, frames, contextFunc, contextBlock, blocks>>
    BY <1>7 DEF Finish, vars
  <2>2. Grows(blocks, blocks')
    BY <2>1, GrowsRefl DEF TypeOK
  <2> QED
    BY <1>1, <2>1, <2>2, CallsStraight
<1> QED
  BY <1>2, <1>3, <1>4, <1>5, <1>6, <1>7 DEF Next

LEMMA InitCalls == Init => CallsRight
BY DEF Init, CallsRight, Nested, FuncsOpen, Returned

-----------------------------------------------------------------------------
(* OwnTargets: branches to another function are replaced                     *)

\* A function or a loop goes on in block b: EndFunc and EndFor write its terminator.
Loose(b, fs, cb) == At(b, "for", fs, cb) \/ At(b, "func", fs, cb)

\* The inductive form of OwnTargets.
OwnRight ==
  \A b \in 1 .. Len(blocks) :
    Aims(blocks[b].term, blocks[b].fn, blocks) \/ Loose(b, frames, contextBlock)

\* A loose block stays one, or gets a terminator.
LEMMA LooseKeep ==
  ASSUME NEW fs \in Seq(Frame), NEW cb, NEW cc, NEW b, Loose(b, fs, cb), b # cb \/ cc = cb
  PROVE  Loose(b, fs, cc)
BY AtKeep DEF Loose

LEMMA LoosePush ==
  ASSUME NEW fs \in Seq(Frame), NEW f \in Frame, NEW cb, NEW cc, NEW b, Loose(b, fs, cb),
         \/ b # cb
         \/ f.kind = "func" /\ f.prevBlock = cb
         \/ f.kind = "switch" /\ f.pre = cb
  PROVE  Loose(b, Append(fs, f), cc)
BY AtPush DEF Loose

LEMMA LoosePop ==
  ASSUME NEW fs \in Seq(Frame), fs # << >>, NEW cb, NEW cc, NEW b, Loose(b, fs, cb), b # NoBlock,
         b # cb \/ Last(fs).kind \notin {"for", "func"},
         Last(fs).kind = "func" => cc = Last(fs).prevBlock,
         Last(fs).kind = "switch" => b # Last(fs).pre
  PROVE  Loose(b, Front(fs), cc)
BY AtPop DEF Loose

LEMMA LooseTop ==
  ASSUME NEW fs \in Seq(Frame), fs # << >>, NEW g \in Frame, NEW cb, NEW cc, NEW b,
         Loose(b, fs, cb), g.kind = Last(fs).kind, g.kind \in {"if", "switch"},
         g.kind = "switch" => g.pre = Last(fs).pre
  PROVE  Loose(b, [fs EXCEPT ![Len(fs)] = g], cc)
BY AtTop DEF Loose

\* What the steps have in common: the old blocks that are written, and the new ones, aim at
\* their own function or are loose, and the others are as before.
LEMMA OwnStep ==
  ASSUME TypeOK, OwnedNow, OwnRight, NEW n \in Nat, NEW W, NEW K, Builds(blocks', n, W, K),
         \A b \in 1 .. Len(blocks) :
           b \in W => \/ Aims(blocks'[b].term, blocks[b].fn, blocks')
                      \/ Loose(b, frames', contextBlock'),
         \A b \in 1 .. Len(blocks) :
           b \notin W /\ Loose(b, frames, contextBlock) => Loose(b, frames', contextBlock'),
         \A i \in 1 .. n : Aims(blocks'[Fresh(i)].term, contextFunc, blocks')
  PROVE  OwnRight'
<1>1. /\ blocks \in Seq(BasicBlock) /\ Len(blocks) \in Nat
      /\ Grows(blocks, blocks') /\ Len(blocks') = Len(blocks) + n
      /\ \A i \in 1 .. n : blocks'[Len(blocks) + i].fn = contextFunc
  BY Numbers DEF TypeOK, Builds, Added, In
<1>2. ASSUME NEW b \in 1 .. Len(blocks')
      PROVE  Aims(blocks'[b].term, blocks'[b].fn, blocks') \/ Loose(b, frames', contextBlock')
  <2>1. CASE b \in 1 .. Len(blocks)
    <3>1. blocks'[b].fn = blocks[b].fn
      BY <1>1, <2>1 DEF Grows
    <3>2. CASE b \in W
      BY <2>1, <3>1, <3>2
    <3>3. CASE b \notin W
      <4>1. blocks'[b].term = blocks[b].term
        BY <2>1, <3>3 DEF Builds
      <4>2. Aims(blocks[b].term, blocks[b].fn, blocks) \/ Loose(b, frames, contextBlock)
        BY <2>1 DEF OwnRight
      <4>3. Aims(blocks[b].term, blocks[b].fn, blocks) => Aims(blocks[b].term, blocks[b].fn, blocks')
        BY <1>1, AimsGrow
      <4> QED
        BY <2>1, <3>1, <3>3, <4>1, <4>2, <4>3
    <3> QED
      BY <3>2, <3>3
  <2>2. CASE b \notin 1 .. Len(blocks)
    <3>1. PICK i \in 1 .. n : b = Len(blocks) + i
      <4>1. b - Len(blocks) \in 1 .. n /\ b = Len(blocks) + (b - Len(blocks))
        BY <1>1, <2>2
      <4> QED
        BY <4>1
    <3>2. b = Fresh(i) /\ blocks'[b].fn = contextFunc
      BY <1>1, <3>1 DEF Fresh
    <3> QED
      BY <3>2
  <2> QED
    BY <2>1, <2>2
<1> QED
  BY <1>2 DEF OwnRight

\* The same for steps that only write terminators that stay in the current function.
LEMMA OwnLocal ==
  ASSUME TypeOK, OwnedNow, OwnRight, NEW n \in Nat, NEW W, NEW K, Builds(blocks', n, W, K),
         Local(blocks', n, W), \A b \in W : In(b, contextFunc, blocks),
         \A b \in 1 .. Len(blocks) :
           b \notin W /\ Loose(b, frames, contextBlock) => Loose(b, frames', contextBlock')
  PROVE  OwnRight'
<1>1. \A b \in 1 .. Len(blocks) : b \in W => Aims(blocks'[b].term, blocks[b].fn, blocks')
  BY DEF Local, In
<1>2. \A i \in 1 .. n : Aims(blocks'[Fresh(i)].term, contextFunc, blocks')
  BY DEF Local
<1> QED
  BY <1>1, <1>2, OwnStep

\* A break or a continue leaves a loop: switches hold no jumps, and nothing but function
\* literals is inside an append.
LEMMA JumpsInLoop ==
  ASSUME TypeOK, OwnedNow, CallsRight, "flowInCase" \notin Extra, Break \/ Continue
  PROVE  LoopsOpen # {}
<1>1. CASE Break
  <2> DEFINE i == InnermostOf(BreakablesOpen)
  <2>1. BreakablesOpen \in SUBSET (DOMAIN frames) /\ BreakablesOpen # {}
    BY <1>1 DEF Break, BreakablesOpen
  <2>2. i \in BreakablesOpen
    BY <2>1, InnermostType
  <2> HIDE DEF i
  <2>3. i \in 1 .. Len(frames) /\ frames \in Seq(Frame) /\ Len(frames) \in Nat
    BY <2>1, <2>2, CallTypes DEF TypeOK
  <2>4. frames # << >> /\ Top.kind # "switch" /\ Top = frames[Len(frames)]
    BY <1>1, Standing, Context DEF Break, JumpAllowed
  <2>5. frames[i].kind # "switch"
    <3>1. CASE i = Len(frames)
      BY <2>4, <3>1
    <3>2. CASE i # Len(frames)
      <4>1. i \in 1 .. Len(frames) - 1
        BY <2>3, <3>2
      <4> QED
        BY <4>1 DEF CallsRight, Nested
    <3> QED
      BY <3>1, <3>2
  <2>6. i \in LoopsOpen
    BY <2>2, <2>5 DEF BreakablesOpen, LoopsOpen
  <2> QED
    BY <2>6
<1>2. CASE Continue
  BY <1>2 DEF Continue
<1> QED
  BY <1>1, <1>2

\* A return stays in its function.
LEMMA OwnReturn ==
  ASSUME TypeOK, OwnedNow, OwnRight, NEW t \in {RetVal, RetVoid}, Returns(blocks', t),
         \A b \in 1 .. Len(blocks) :
           b # contextBlock /\ Loose(b, frames, contextBlock) => Loose(b, frames', contextBlock')
  PROVE  OwnRight'
<1>1. /\ blocks \in Seq(BasicBlock) /\ Len(blocks') = Len(blocks) /\ Grows(blocks, blocks')
      /\ Len(blocks) \in Nat
  BY Numbers DEF TypeOK, Returns, Grows
<1>2. ASSUME NEW b \in 1 .. Len(blocks')
      PROVE  Aims(blocks'[b].term, blocks'[b].fn, blocks') \/ Loose(b, frames', contextBlock')
  <2>1. b \in 1 .. Len(blocks) /\ blocks'[b].fn = blocks[b].fn
    BY <1>1, <1>2 DEF Returns
  <2>2. CASE b = contextBlock
    <3>1. blocks'[b].term = t
      BY <2>1, <2>2 DEF Returns
    <3> QED
      BY <3>1, AimsAt
  <2>3. CASE b # contextBlock
    <3>1. blocks'[b].term = blocks[b].term
      BY <2>1, <2>3 DEF Returns
    <3>2. Aims(blocks[b].term, blocks[b].fn, blocks) \/ Loose(b, frames, contextBlock)
      BY <2>1 DEF OwnRight
    <3>3. Aims(blocks[b].term, blocks[b].fn, blocks) => Aims(blocks[b].term, blocks[b].fn, blocks')
      BY <1>1, AimsGrow
    <3> QED
      BY <2>1, <2>3, <3>1, <3>2, <3>3
  <2> QED
    BY <2>2, <2>3
<1> QED
  BY <1>2 DEF OwnRight

\* Nothing but the place where the calls go on changes.
LEMMA OwnSame ==
  ASSUME TypeOK, OwnRight, blocks' = blocks,
         \A b \in 1 .. Len(blocks) :
           Loose(b, frames, contextBlock) => Loose(b, frames', contextBlock')
  PROVE  OwnRight'
BY DEF OwnRight

LEMMA StraightOwn ==
  ASSUME TypeOK, OwnedNow, StacksRight, CallsRight, OwnRight, "flowInCase" \notin Extra,
         Stmt \/ Index \/ Substring \/ TypeAssertion \/ NestedAppend \/ Break \/ Continue
           \/ ReturnValues \/ NakedReturn
  PROVE  OwnRight'
<1>1. frames' = frames /\ frames # << >> /\ frames \in Seq(Frame)
  BY DEF Stmt, Index, Substring, TypeAssertion, NestedAppend, Break, Continue, ReturnValues, TypeOK,
         NakedReturn, ReturnAllowed, JumpAllowed, StatementAllowed, ExpressionAllowed, CanStand
<1>2. \A b : b # contextBlock /\ Loose(b, frames, contextBlock) => Loose(b, frames', contextBlock')
  BY <1>1, LooseKeep
<1>3. In(contextBlock, contextFunc, blocks)
  BY <1>1, Context
<1>4. ASSUME NEW n \in Nat, NEW K, Builds(blocks', n, {contextBlock}, K),
             Local(blocks', n, {contextBlock})
      PROVE  OwnRight'
  <2>1. \A b \in {contextBlock} : In(b, contextFunc, blocks)
    BY <1>3
  <2>2. \A b \in 1 .. Len(blocks) : b \notin {contextBlock} /\ Loose(b, frames, contextBlock)
                                      => Loose(b, frames', contextBlock')
    BY <1>2
  <2> QED
    BY <1>4, <2>1, <2>2, OwnLocal
<1>5. CASE Index \/ Substring \/ TypeAssertion
  <2>1. 2 \in Nat /\ 3 \in Nat
    OBVIOUS
  <2> QED
    BY <1>4, <1>5, <2>1, IndexBuilds, SubstringBuilds, TypeAssertionBuilds
<1>6. CASE Break \/ Continue
  <2>1. Builds(blocks', 0, {contextBlock}, {}) /\ Local(blocks', 0, {contextBlock}) /\ 0 \in Nat
    BY <1>6, JumpsInLoop, BreakBuilds
  <2> QED
    BY <1>4, <2>1
<1>7. CASE Stmt \/ NestedAppend
  <2>1. Builds(blocks', 0, {}, {}) /\ Local(blocks', 0, {}) /\ 0 \in Nat
    BY <1>7, StraightBuilds
  <2>2. contextBlock' = contextBlock
    BY <1>7 DEF Stmt, NestedAppend
  <2> QED
    BY <1>1, <2>1, <2>2, OwnLocal
<1>8. CASE ReturnValues \/ NakedReturn
  <2>1. contextBlock' = contextBlock
    BY <1>8 DEF ReturnValues, NakedReturn
  <2>2. \/ blocks' = blocks
        \/ \E t \in {RetVal, RetVoid} : blocks' =
             Terminate(Emit(blocks, contextBlock, [at |-> Here, tag |-> "ret"]), contextBlock, t)
    BY <1>8 DEF ReturnValues, NakedReturn, NakedTerm
  <2>3. ASSUME NEW t \in {RetVal, RetVoid},
               blocks' = Terminate(Emit(blocks, contextBlock, [at |-> Here, tag |-> "ret"]),
                                   contextBlock, t)
        PROVE  OwnRight'
    <3>1. t \in Term
      BY TermTypes
    <3>2. Returns(blocks', t)
      BY <1>1, <2>3, <3>1, ReturnTerms
    <3> QED
      BY <1>2, <3>2, OwnReturn
  <2>4. CASE blocks' = blocks
    BY <1>1, <2>1, <2>4, OwnSame
  <2> QED
    BY <2>2, <2>3, <2>4
<1> QED
  BY <1>5, <1>6, <1>7, <1>8

LEMMA OpenOwn ==
  ASSUME TypeOK, OwnedNow, OwnRight,
         \/ \E self \in BOOLEAN : BeginAppend(self)
         \/ \E hasElse \in BOOLEAN : BeginIf(hasElse)
         \/ \E form \in {"plain", "checked", "range"} : BeginFor(form)
         \/ \E hasDefault \in BOOLEAN : BeginSwitch(hasDefault)
  PROVE  OwnRight'
<1>1. frames # << >> /\ frames \in Seq(Frame)
  BY DEF BeginAppend, BeginIf, BeginFor, BeginSwitch, StatementAllowed, CanStand, TypeOK
<1>2. In(contextBlock, contextFunc, blocks)
  BY <1>1, Context
<1>3. ASSUME NEW f, frames' = Append(frames, f), NEW b, Loose(b, frames, contextBlock),
             b # contextBlock \/ (f.kind = "switch" /\ f.pre = contextBlock)
      PROVE  Loose(b, frames', contextBlock')
  <2>1. f \in Frame
    <3>1. frames' \in Seq(Frame)
      BY NextOwned DEF Next, TypeOK
    <3>2. Len(frames) \in Nat /\ Len(frames') = Len(frames) + 1 /\ frames'[Len(frames) + 1] = f
      BY <1>1, <1>3, LenProperties
    <3>3. Len(frames) + 1 \in 1 .. Len(frames')
      BY <3>2
    <3> QED
      BY <3>1, <3>2, <3>3, ElementOfSeq
  <2> QED
    BY <1>1, <1>3, <2>1, LoosePush
<1>4. ASSUME NEW n \in Nat, NEW K, Builds(blocks', n, {contextBlock}, K),
             Local(blocks', n, {contextBlock}), NEW f, frames' = Append(frames, f)
      PROVE  OwnRight'
  <2>1. \A b \in {contextBlock} : In(b, contextFunc, blocks)
    BY <1>2
  <2>2. \A b \in 1 .. Len(blocks) : b \notin {contextBlock} /\ Loose(b, frames, contextBlock)
                                      => Loose(b, frames', contextBlock')
    BY <1>3, <1>4
  <2> QED
    BY <1>4, <2>1, <2>2, OwnLocal
<1>5. CASE \E self \in BOOLEAN : BeginAppend(self)
  <2>1. \E f : frames' = Append(frames, f)
    BY <1>5 DEF BeginAppend
  <2>2. 4 \in Nat /\ Builds(blocks', 4, {contextBlock}, {}) /\ Local(blocks', 4, {contextBlock})
    BY <1>5, BeginAppendBuilds
  <2> QED
    BY <1>4, <2>1, <2>2
<1>6. CASE \E hasElse \in BOOLEAN : BeginIf(hasElse)
  <2>1. PICK hasElse \in BOOLEAN : BeginIf(hasElse)
    BY <1>6
  <2> DEFINE n == IF hasElse THEN 3 ELSE 2
  <2>2. \E f : frames' = Append(frames, f)
    BY <2>1 DEF BeginIf
  <2>3. /\ Builds(blocks', n, {contextBlock}, {Fresh(1), Fresh(2), Fresh(n)})
        /\ Local(blocks', n, {contextBlock})
    BY <2>1, BeginIfBuilds
  <2>4. n \in Nat
    OBVIOUS
  <2> HIDE DEF n
  <2> QED
    BY <1>4, <2>2, <2>3, <2>4
<1>7. CASE \E form \in {"plain", "checked", "range"} : BeginFor(form)
  <2>1. PICK form \in {"plain", "checked", "range"} : BeginFor(form)
    BY <1>7
  <2> DEFINE n == IF form = "plain" THEN 4 ELSE 6
  <2>2. \E f : frames' = Append(frames, f)
    BY <2>1 DEF BeginFor
  <2>3. /\ Builds(blocks', n, {contextBlock}, {Fresh(3), Fresh(4), contextBlock'})
        /\ Local(blocks', n, {contextBlock})
    BY <2>1, BeginForBuilds
  <2>4. n \in Nat
    OBVIOUS
  <2> HIDE DEF n
  <2> QED
    BY <1>4, <2>2, <2>3, <2>4
<1>8. CASE \E hasDefault \in BOOLEAN : BeginSwitch(hasDefault)
  <2>1. (\E K : Builds(blocks', 2, {}, K)) /\ Local(blocks', 2, {}) /\ 2 \in Nat
    BY <1>8, BeginSwitchBuilds
  <2>2. \E f : frames' = Append(frames, f) /\ f.kind = "switch" /\ f.pre = contextBlock
    <3>1. PICK hasDefault \in BOOLEAN : BeginSwitch(hasDefault)
      BY <1>8
    <3> DEFINE f == [kind |-> "switch", at |-> Here, entry |-> Heights, hasDefault |-> hasDefault,
                     open |-> IF hasDefault THEN "default" ELSE "none", pre |-> contextBlock,
                     dflt |-> Fresh(2), after |-> Fresh(1), cases |-> << >>, through |-> << >>]
    <3>2. frames' = Append(frames, f)
      BY <3>1 DEF BeginSwitch
    <3>3. f.kind = "switch" /\ f.pre = contextBlock
      OBVIOUS
    <3> HIDE DEF f
    <3> QED
      BY <3>2, <3>3
  <2>3. \A b : Loose(b, frames, contextBlock) => Loose(b, frames', contextBlock')
    BY <1>3, <2>2
  <2> QED
    BY <2>1, <2>3, OwnLocal
<1> QED
  BY <1>5, <1>6, <1>7, <1>8

\* The innermost call of an if, a loop, a switch or an append was made in another call.
LEMMA Outer ==
  ASSUME TypeOK, OwnedNow, CallsRight, frames # << >>, Top.kind # "func"
  PROVE  /\ Front(frames) # << >> /\ Front(frames) \in Seq(Frame)
         /\ Last(Front(frames)) = frames[Len(frames) - 1]
         /\ Len(frames) - 1 \in 1 .. Len(frames)
         /\ Last(Front(frames)).kind \in {"if", "for", "func"}
<1>1. frames \in Seq(Frame) /\ Nested(frames)
  BY DEF TypeOK, CallsRight
<1>2. /\ Len(frames) \in Nat \ {0} /\ Len(Front(frames)) = Len(frames) - 1
      /\ Front(frames) \in Seq(Frame)
  BY <1>1, FrontType
<1>3. FrameOwned(Top, OwnerAt(Len(frames) - 1, frames, blocks), blocks, Len(funcs)) /\ Top \in Frame
  BY Context
<1>4. Len(frames) - 1 # 0
  BY <1>3, FrameKinds DEF FrameOwned, OwnerAt
<1>5. Front(frames) # << >>
  BY <1>2, <1>4
<1>6. Last(Front(frames)) \in Frame
  BY <1>2, <1>5, FrontType
<1>7. Last(Front(frames)).kind \in {"if", "for", "switch", "append", "func"}
  BY <1>6, FrameKinds
<1>8. Len(frames) - 1 \in 1 .. Len(frames)
  BY <1>2, <1>4
<1> QED
  BY <1>1, <1>2, <1>5, <1>7, <1>8, NestedPop DEF Top

\* What contextCondAfter leads to when an if ends that stands directly in another if.
LEMMA OuterAfter ==
  ASSUME TypeOK, OwnedNow, StacksRight, CallsRight, frames # << >>, Top.kind = "if",
         Last(Front(frames)).kind = "if"
  PROVE  In(Last(Front(contextCondAfter)), contextFunc, blocks)
<1> DEFINE m == Len(frames) - 1
           f == frames[m]
<1>1. m \in 1 .. Len(frames) /\ Last(Front(frames)) = f /\ f.kind = "if"
  BY Outer
<1>2. /\ Len(frames) \in Nat \ {0} /\ Len(frames) \in 1 .. Len(frames)
      /\ Top = frames[Len(frames)] /\ m + 1 = Len(frames) /\ m + 1 \in 1 .. Len(frames)
  <2>1. Len(frames) \in Nat \ {0} /\ Top = frames[Len(frames)]
    BY Context
  <2> QED
    BY <2>1
<1>3. f \in Frame /\ f.entry \in Height /\ Top.entry \in Height
  BY <1>1, <1>2, CallTypes
<1>4. Top.entry = Inside(f) /\ Heights = Inside(Top)
  <2>1. EntryAt(m + 1) = Inside(frames[m]) /\ EntryAt(m + 1) = frames[m + 1].entry
    BY <1>1, <1>2, Chain DEF StacksRight
  <2>2. Heights = Inside(Top)
    BY TopHeights
  <2> QED
    BY <1>2, <2>1, <2>2
<1>5. Inside(f).cond = f.entry.cond + 1 /\ Inside(Top).cond = Top.entry.cond + 1
  BY <1>1, <1>2, InsideTypes
<1>6. Len(contextCondAfter) = f.entry.cond + 2 /\ f.entry.cond \in Nat
  <2>1. f.entry.cond \in Nat /\ Top.entry.cond = f.entry.cond + 1
        /\ Heights.cond = Top.entry.cond + 1
    BY <1>3, <1>4, <1>5 DEF Height
  <2>2. Heights.cond = Len(contextCondAfter)
    BY DEF Heights
  <2> QED
    BY <2>1, <2>2
<1>7. contextCondAfter[f.entry.cond + 1] = f.after
  <2>1. Entries(f)
    BY <1>1, OwnEntriesIs, CallTypes DEF StacksRight
  <2> QED
    BY <1>1, <2>1 DEF Entries, FrameEntries
<1>8. Last(Front(contextCondAfter)) = f.after
  <2> DEFINE s == contextCondAfter
             n == f.entry.cond
  <2>0. s \in Seq(Block) /\ Len(s) = n + 2 /\ n \in Nat
    BY <1>6, StackTypes
  <2> HIDE DEF s, n
  <2>1. s \in Seq(Block) /\ s # << >>
    BY <2>0
  <2>2. /\ Front(s) \in Seq(Block) /\ Len(Front(s)) = Len(s) - 1
        /\ \A i \in 1 .. Len(s) - 1 : Front(s)[i] = s[i]
    BY <2>1, FrontType
  <2> DEFINE t == Front(s)
  <2> HIDE DEF t
  <2>3. t \in Seq(Block) /\ Len(t) = n + 1 /\ t # << >>
    <3>1. Len(t) = n + 1 /\ t \in Seq(Block)
      BY <2>0, <2>2 DEF t
    <3> QED
      BY <2>0, <3>1
  <2>4. Last(t) = t[n + 1]
    BY <2>3, FrontType
  <2>5. n + 1 \in 1 .. Len(s) - 1
    BY <2>0
  <2>6. Last(t) = s[n + 1]
    BY <2>2, <2>4, <2>5 DEF t
  <2> QED
    BY <1>7, <2>6 DEF s, n, t
<1>9. In(f.after, contextFunc, blocks)
  <2>1. OwnerAt(m, frames, blocks) = contextFunc
    BY <1>2, TopOwned
  <2>0. m # 0
    BY <1>1, <1>2
  <2>2. OwnerOf(f, blocks) = contextFunc
    BY <2>0, <2>1 DEF OwnerAt
  <2>3. FrameOwned(f, OwnerAt(m - 1, frames, blocks), blocks, Len(funcs))
    BY <1>1 DEF OwnedNow, Owned
  <2> QED
    BY <1>1, <2>2, <2>3 DEF FrameOwned, OwnerOf, In
<1> QED
  BY <1>8, <1>9

\* EndIf sends the block after the if to where the innermost contextCondAfter leads.  That
\* may be in the function around, but then a loop or a function goes on in the block.
LEMMA EndIfOwn ==
  ASSUME TypeOK, OwnedNow, StacksRight, CallsRight, OwnRight, EndIf
  PROVE  OwnRight'
<1> DEFINE entry == IF Top.hasElse THEN Top.fls ELSE Top.tru
           arm   == IF blocks[entry].term = NoTerm THEN {entry} ELSE {}
           outer == Front(contextCondAfter)
<1>1. /\ frames # << >> /\ Top.kind = "if" /\ frames' = Front(frames)
      /\ contextBlock' = Top.after /\ frames \in Seq(Frame)
      /\ blocks' = IF outer # << >> THEN Terminate(ArmClosed(entry), Top.after, Br(Last(outer)))
                                    ELSE ArmClosed(entry)
  BY DEF EndIf, Open, TypeOK
<1>2. Top.kind # "func"
  BY <1>1
<1>3. /\ Front(frames) # << >> /\ Front(frames) \in Seq(Frame)
      /\ Last(Front(frames)).kind \in {"if", "for", "func"}
  BY <1>1, <1>2, Outer
<1>4. In(entry, contextFunc, blocks) /\ In(Top.after, contextFunc, blocks)
  BY <1>1, <1>2, TopOwned DEF FrameOwned
<1>5. \A b \in 1 .. Len(blocks) :
        Loose(b, frames, contextBlock) => Loose(b, frames', contextBlock')
  <2>1. \A b \in 1 .. Len(blocks) : b # NoBlock
    BY Numbers DEF NoBlock
  <2>2. Last(frames).kind = "if"
    BY <1>1 DEF Top
  <2> QED
    BY <1>1, <2>1, <2>2, LoosePop
<1>6. entry = Top.tru \/ entry = Top.fls
  OBVIOUS
<1>7. Builds(ArmClosed(entry), 0, arm, {}) /\ Local(ArmClosed(entry), 0, arm)
  <2> HIDE DEF entry
  <2> QED
    BY <1>1, <1>6, ArmBuilds
<1>8. \A b \in arm : In(b, contextFunc, blocks)
  BY <1>4
<1>9. 0 \in Nat
  OBVIOUS
<1>10. /\ outer = << >> => Builds(blocks', 0, arm, {}) /\ Local(blocks', 0, arm)
       /\ outer # << >> => Builds(blocks', 0, arm \cup {Top.after}, {})
       /\ outer # << >> /\ In(Last(outer), contextFunc, blocks) =>
            Local(blocks', 0, arm \cup {Top.after})
  BY EndIfBuilds
<1> HIDE DEF arm, outer, entry
<1>11. CASE outer = << >>
  BY <1>5, <1>8, <1>9, <1>10, <1>11, OwnLocal
<1>12. CASE outer # << >> /\ In(Last(outer), contextFunc, blocks)
  <2>1. \A b \in arm \cup {Top.after} : In(b, contextFunc, blocks)
    BY <1>4, <1>8
  <2> QED
    BY <1>5, <1>9, <1>10, <1>12, <2>1, OwnLocal
<1>13. CASE outer # << >> /\ ~ In(Last(outer), contextFunc, blocks)
  <2>1. Last(Front(frames)).kind \in {"for", "func"}
    BY <1>1, <1>3, <1>13, OuterAfter DEF outer
  <2>2. Loose(Top.after, frames', contextBlock')
    BY <1>1, <1>3, <2>1, AtNow DEF Loose
  <2> DEFINE cs == ArmClosed(entry)
             W  == arm \cup {Top.after}
  <2>3. /\ cs \in Seq(BasicBlock) /\ Len(cs) = Len(blocks) /\ Len(blocks) \in Nat
        /\ blocks' = Terminate(cs, Top.after, Br(Last(outer)))
        /\ Top.after \in 1 .. Len(cs)
    <3>1. cs \in Seq(BasicBlock) /\ Len(cs) = Len(blocks) + 0 /\ Len(blocks) \in Nat
      BY <1>7, Numbers DEF Builds, Added, Grows
    <3> QED
      BY <1>1, <1>4, <1>13, <3>1 DEF In
  <2>4. Last(outer) \in Block
    <3>1. outer \in Seq(Block)
      BY FrontSeq DEF outer, TypeOK
    <3> QED
      BY <1>13, <3>1, FrontType
  <2>5. /\ Grows(cs, blocks')
        /\ \A c \in 1 .. Len(cs) : c # Top.after => blocks'[c].term = cs[c].term
    <3> DEFINE t == Br(Last(outer))
    <3>1. t \in Term
      BY <2>4, TermTypes
    <3>2. cs \in Seq(BasicBlock) /\ blocks' = Terminate(cs, Top.after, t) /\ Top.after \in 1 .. Len(cs)
      BY <2>3
    <3> HIDE DEF t, cs
    <3> QED
      BY <3>1, <3>2, TerminateGrows, TerminateTerms, SMTT(20)
  <2>6. \A b \in 1 .. Len(blocks) : b \in W =>
          \/ Aims(blocks'[b].term, blocks[b].fn, blocks')
          \/ Loose(b, frames', contextBlock')
    <3> SUFFICES ASSUME NEW b \in 1 .. Len(blocks), b \in arm, b # Top.after
                 PROVE  Aims(blocks'[b].term, blocks[b].fn, blocks')
      BY <2>2
    <3>1. Aims(cs[b].term, contextFunc, cs) /\ blocks[b].fn = contextFunc
      BY <1>7, <1>8 DEF Local, In
    <3>2. blocks'[b].term = cs[b].term
      BY <2>3, <2>5
    <3> HIDE DEF cs
    <3> QED
      BY <2>3, <2>5, <3>1, <3>2, AimsGrow
  <2>7. Builds(blocks', 0, W, {})
    BY <1>10, <1>13
  <2>8. \A i \in 1 .. 0 : Aims(blocks'[Fresh(i)].term, contextFunc, blocks')
    OBVIOUS
  <2> HIDE DEF W, cs
  <2> QED
    BY <1>5, <1>9, <2>6, <2>7, <2>8, OwnStep
<1> QED
  BY <1>11, <1>12, <1>13

LEMMA CloseOwn ==
  ASSUME TypeOK, OwnedNow, CallsRight, OwnRight, EndAppend \/ EndFor \/ EndSwitch
  PROVE  OwnRight'
<1>1. frames # << >> /\ frames \in Seq(Frame) /\ Top = Last(frames)
  BY DEF EndAppend, EndFor, EndSwitch, Open, TypeOK, Top
<1>2. \A b \in 1 .. Len(blocks) : b # NoBlock
  BY Numbers DEF NoBlock
<1>3. In(contextBlock, contextFunc, blocks)
  BY <1>1, Context
<1>4. 0 \in Nat
  OBVIOUS
<1>5. CASE EndAppend
  <2>1. Top.kind = "append" /\ frames' = Front(frames)
    BY <1>5 DEF EndAppend, Open
  <2>2. \A b \in 1 .. Len(blocks) :
          Loose(b, frames, contextBlock) => Loose(b, frames', contextBlock')
    BY <1>1, <1>2, <2>1, LoosePop
  <2>3. Builds(blocks', 0, {}, {}) /\ Local(blocks', 0, {})
    BY <1>5, StraightBuilds
  <2> QED
    BY <1>4, <2>2, <2>3, OwnLocal
<1>6. CASE EndFor
  <2> DEFINE W == {contextBlock, Top.post}
  <2>1. Top.kind = "for" /\ frames' = Front(frames)
    BY <1>6 DEF EndFor, Open
  <2>2. \A b \in 1 .. Len(blocks) :
          b \notin W /\ Loose(b, frames, contextBlock) => Loose(b, frames', contextBlock')
    BY <1>1, <1>2, <2>1, LoosePop
  <2>3. Builds(blocks', 0, W, {}) /\ Local(blocks', 0, W)
    BY <1>6, EndForBuilds
  <2>4. In(Top.post, contextFunc, blocks)
    BY <1>1, <2>1, TopOwned DEF FrameOwned
  <2>5. \A b \in W : In(b, contextFunc, blocks)
    BY <1>3, <2>4
  <2> HIDE DEF W
  <2> QED
    BY <1>4, <2>2, <2>3, <2>5, OwnLocal
<1>7. CASE EndSwitch
  <2> DEFINE W == {contextBlock} \cup CaseBlocks
  <2>1. Top.kind = "switch" /\ Top.open = "none"
    BY <1>7 DEF EndSwitch, Open
  <2>2. contextBlock = Top.pre /\ \A k \in 1 .. Len(Top.cases) : In(Top.cases[k], contextFunc, blocks)
    BY <1>1, <2>1 DEF CallsRight, SwitchAt
  <2>3. \A b \in CaseBlocks : In(b, contextFunc, blocks)
    BY <2>2 DEF CaseBlocks
  <2>4. CASE UNCHANGED <<blocks, contextBlock, frames>>
    BY <2>4, OwnSame
  <2>5. CASE Builds(blocks', 0, W, {}) /\ Local(blocks', 0, W) /\ frames' = Front(frames)
    <3>1. \A b \in 1 .. Len(blocks) :
            b \notin W /\ Loose(b, frames, contextBlock) => Loose(b, frames', contextBlock')
      BY <1>1, <1>2, <2>1, <2>2, <2>5, LoosePop
    <3>2. \A b \in W : In(b, contextFunc, blocks)
      BY <1>3, <2>3
    <3> HIDE DEF W
    <3> QED
      BY <1>4, <2>5, <3>1, <3>2, OwnLocal
  <2> QED
    BY <1>7, <2>3, <2>4, <2>5, EndSwitchBuilds
<1> QED
  BY <1>5, <1>6, <1>7

LEMMA BetweenOwn ==
  ASSUME TypeOK, OwnedNow, CallsRight, OwnRight,
         BeginElse \/ EndDefault \/ BeginCase \/ \E fallthrough \in BOOLEAN : EndCase(fallthrough)
  PROVE  OwnRight'
<1>1. ASSUME NEW g, Becomes(g), g.kind \in {"if", "switch"},
             g.kind = "switch" => g.pre = Top.pre, NEW b, Loose(b, frames, contextBlock)
      PROVE  Loose(b, frames', contextBlock')
  BY <1>1, LooseTop DEF Becomes, Top, TypeOK
<1>2. frames # << >>
  BY DEF BeginElse, EndDefault, BeginCase, EndCase, Open
<1>3. CASE BeginElse
  <2> DEFINE W == IF blocks[Top.tru].term = NoTerm THEN {Top.tru} ELSE {}
  <2>1. Builds(blocks', 0, W, {}) /\ Local(blocks', 0, W) /\ 0 \in Nat
    BY <1>3, BeginElseBuilds
  <2>2. Top.kind = "if" /\ \E g : Becomes(g)
    BY <1>3, ElseBecomes
  <2>3. In(Top.tru, contextFunc, blocks)
    BY <1>2, <2>2, TopOwned DEF FrameOwned
  <2>4. \A b \in W : In(b, contextFunc, blocks)
    BY <2>3
  <2>5. \A b : Loose(b, frames, contextBlock) => Loose(b, frames', contextBlock')
    BY <1>1, <2>2 DEF Becomes
  <2> HIDE DEF W
  <2> QED
    BY <2>1, <2>4, <2>5, OwnLocal
<1>4. CASE EndDefault \/ BeginCase \/ \E fallthrough \in BOOLEAN : EndCase(fallthrough)
  <2>1. Top.kind = "switch" /\ \E g : Becomes(g) /\ g.pre = Top.pre
    BY <1>4, SwitchBecomes
  <2>2. \A b : Loose(b, frames, contextBlock) => Loose(b, frames', contextBlock')
    BY <1>1, <2>1 DEF Becomes
  <2>3. In(Top.dflt, contextFunc, blocks)
    BY <1>2, <2>1, SwitchOwned
  <2>4. \A b \in {Top.dflt} : In(b, contextFunc, blocks)
    BY <2>3
  <2>5. 0 \in Nat /\ 1 \in Nat
    OBVIOUS
  <2>6. CASE EndDefault
    BY <2>2, <2>4, <2>5, <2>6, EndDefaultBuilds, OwnLocal
  <2>7. CASE BeginCase
    BY <2>2, <2>5, <2>7, BeginCaseBuilds, OwnLocal
  <2>8. CASE \E fallthrough \in BOOLEAN : EndCase(fallthrough)
    BY <2>2, <2>5, <2>8, StraightBuilds, OwnLocal
  <2> QED
    BY <1>4, <2>6, <2>7, <2>8
<1> QED
  BY <1>3, <1>4

LEMMA BeginMainOwn ==
  ASSUME TypeOK, OwnedNow, OwnRight, BeginMain
  PROVE  OwnRight'
<1>1. blocks' = blocks /\ Len(frames) = 0
  BY DEF BeginMain
<1>2. \A b : ~ Loose(b, frames, contextBlock)
  BY <1>1 DEF Loose, At
<1> QED
  BY <1>1, <1>2, OwnSame

LEMMA BeginFuncOwn ==
  ASSUME TypeOK, OwnedNow, OwnRight, NEW kind \in {"init", "named", "method", "literal"},
         NEW results \in 0 .. 2, BeginFunc(kind, results)
  PROVE  OwnRight'
<1> DEFINE n == IF kind = "method" THEN 2 ELSE 1
<1>1. Enters(kind, results)
  BY BeginFuncEnters
<1>2. /\ blocks \in Seq(BasicBlock) /\ Len(blocks) \in Nat /\ Len(blocks') = Len(blocks) + n
      /\ Grows(blocks, blocks')
      /\ \A c \in 1 .. Len(blocks) : blocks'[c].term = blocks[c].term
      /\ blocks'[Len(blocks) + 1].term = NoTerm
      /\ kind = "method" => blocks'[Len(blocks) + 2].term \in {RetVal, RetVoid}
  <2>1. blocks \in Seq(BasicBlock) /\ Len(blocks) \in Nat
    BY Numbers DEF TypeOK
  <2>2. /\ Len(blocks') = Len(blocks) + n /\ blocks' \in Seq(BasicBlock)
        /\ \A c \in 1 .. Len(blocks) : blocks'[c].term = blocks[c].term
        /\ \A c \in 1 .. Len(blocks) : blocks'[c].fn = blocks[c].fn
        /\ blocks'[Len(blocks) + 1].term = NoTerm
        /\ kind = "method" => blocks'[Len(blocks) + 2].term \in {RetVal, RetVoid}
    BY <1>1 DEF Enters
  <2>3. Len(blocks) <= Len(blocks')
    BY <2>1, <2>2
  <2> QED
    BY <2>1, <2>2, <2>3 DEF Grows
<1>3. \A b \in 1 .. Len(blocks) : Loose(b, frames, contextBlock) => Loose(b, frames', contextBlock')
  <2> DEFINE f == Len(funcs) + 1
  <2>1. EnterFunc(f, Fresh(1), results) /\ frames \in Seq(Frame)
    BY DEF BeginFunc, TypeOK
  <2>2. f \in Nat \ {0}
    <3>1. Len(funcs) \in Nat
      BY Numbers
    <3> QED
      BY <3>1
  <2> HIDE DEF f
  <2>3. \E g \in Frame : frames' = Append(frames, g) /\ g.kind = "func" /\ g.prevBlock = contextBlock
    BY <2>1, <2>2, EnterFrame
  <2> QED
    BY <2>1, <2>3, LoosePush
<1>4. ASSUME NEW b \in 1 .. Len(blocks')
      PROVE  Aims(blocks'[b].term, blocks'[b].fn, blocks') \/ Loose(b, frames', contextBlock')
  <2>1. CASE b \in 1 .. Len(blocks)
    <3>1. blocks'[b].fn = blocks[b].fn /\ blocks'[b].term = blocks[b].term
      BY <1>2, <2>1 DEF Grows
    <3>2. Aims(blocks[b].term, blocks[b].fn, blocks) \/ Loose(b, frames, contextBlock)
      BY <2>1 DEF OwnRight
    <3>3. Aims(blocks[b].term, blocks[b].fn, blocks) => Aims(blocks[b].term, blocks[b].fn, blocks')
      BY <1>2, AimsGrow
    <3> QED
      BY <1>3, <2>1, <3>1, <3>2, <3>3
  <2>2. CASE b \notin 1 .. Len(blocks)
    <3>1. b = Len(blocks) + 1 \/ (kind = "method" /\ b = Len(blocks) + 2)
      BY <1>2, <2>2
    <3> QED
      BY <1>2, <3>1, AimsAt
  <2> QED
    BY <2>1, <2>2
<1> QED
  BY <1>4 DEF OwnRight

\* When a function ends, its current block returns: by EndFunc, or by a return statement.
LEMMA LastReturns ==
  ASSUME TypeOK, OwnedNow, CallsRight, EndFunc, "armsReturn" \notin Extra
  PROVE  \E t \in {RetVal, RetVoid} : Returns(blocks', t)
<1>1. frames # << >> /\ status = "compiling" /\ BodyMayEnd(Top.fn)
  BY DEF EndFunc, Open
<1>2. CASE funcs[Top.fn].results = 0
  BY <1>2, EndFuncBuilds
<1>3. CASE funcs[Top.fn].results # 0 /\ ~Returns(blocks', RetVal)
  <2>1. blocks' = blocks /\ blocks \in Seq(BasicBlock)
    BY <1>3, EndFuncBuilds DEF TypeOK
  <2>2. funcs[Top.fn].results > 0
    <3>1. Top.fn \in 1 .. Len(funcs) /\ funcs \in Seq(Func)
      BY EndFuncBuilds DEF TypeOK
    <3>2. funcs[Top.fn] \in Func
      BY <3>1, ElementOfSeq
    <3>3. funcs[Top.fn].results \in Nat
      BY <3>2 DEF Func
    <3> QED
      BY <1>3, <3>3
  <2>3. src # << >> /\ Last(src).op = "return"
    BY <1>1, <2>2 DEF BodyMayEnd
  <2>4. blocks[contextBlock].term \in {RetVal, RetVoid}
    BY <1>1, <2>3 DEF CallsRight, Returned
  <2> QED
    BY <2>1, <2>4 DEF Returns
<1> QED
  BY <1>2, <1>3

LEMMA EndFuncOwn ==
  ASSUME TypeOK, OwnedNow, CallsRight, OwnRight, EndFunc, "armsReturn" \notin Extra
  PROVE  OwnRight'
<1>1. /\ frames # << >> /\ frames \in Seq(Frame) /\ Last(frames).kind = "func"
      /\ frames' = Front(frames) /\ contextBlock' = Last(frames).prevBlock
  BY DEF EndFunc, Open, Top, BackToCaller, TypeOK
<1>2. \A b \in 1 .. Len(blocks) : b # NoBlock
  BY Numbers DEF NoBlock
<1>3. \A b \in 1 .. Len(blocks) :
        b # contextBlock /\ Loose(b, frames, contextBlock) => Loose(b, frames', contextBlock')
  BY <1>1, <1>2, LoosePop
<1> QED
  BY <1>3, LastReturns, OwnReturn

LEMMA NextOwn ==
  ASSUME TypeOK, OwnedNow, StacksRight, CallsRight, OwnRight, [Next]_vars,
         "flowInCase" \notin Extra, "armsReturn" \notin Extra
  PROVE  OwnRight'
<1>1. CASE Stmt \/ Index \/ Substring \/ TypeAssertion \/ NestedAppend \/ Break \/ Continue
             \/ ReturnValues \/ NakedReturn
  BY <1>1, StraightOwn
<1>2. CASE \/ \E self \in BOOLEAN : BeginAppend(self)
           \/ \E hasElse \in BOOLEAN : BeginIf(hasElse)
           \/ \E form \in {"plain", "checked", "range"} : BeginFor(form)
           \/ \E hasDefault \in BOOLEAN : BeginSwitch(hasDefault)
  BY <1>2, OpenOwn
<1>3. CASE EndAppend \/ EndIf \/ EndFor \/ EndSwitch
  BY <1>3, CloseOwn, EndIfOwn
<1>4. CASE BeginElse \/ EndDefault \/ BeginCase \/ \E fallthrough \in BOOLEAN : EndCase(fallthrough)
  BY <1>4, BetweenOwn
<1>5. CASE BeginMain \/ EndFunc \/
             \E kind \in {"init", "named", "method", "literal"}, results \in 0 .. 2 :
               BeginFunc(kind, results)
  BY <1>5, BeginMainOwn, BeginFuncOwn, EndFuncOwn
<1>6. CASE Finish \/ UNCHANGED vars
  <2>1. UNCHANGED <<blocks, frames, contextBlock>>
    BY <1>6 DEF Finish, vars
  <2> QED
    BY <2>1, OwnSame
<1> QED
  BY <1>1, <1>2, <1>3, <1>4, <1>5, <1>6 DEF Next

LEMMA InitOwn == Init => OwnRight
<1> SUFFICES ASSUME Init PROVE OwnRight
  OBVIOUS
<1>1. blocks = <<BlockOf(GlobalInit, << >>, RetVoid), NewBlock(Main)>>
  BY DEF Init
<1>2. Len(blocks) = 2 /\ blocks[1].term = RetVoid /\ blocks[2].term = NoTerm
  BY <1>1 DEF BlockOf, NewBlock
<1> QED
  BY <1>2, AimsAt DEF OwnRight

-----------------------------------------------------------------------------
(* Terminated: every block without a terminator is waited for                *)

\* The blocks that the end of call f, or the else of an if, goes on in or terminates.
HeldBy(b, f) ==
  \/ f.kind = "if" /\ (b = f.after \/ (f.hasElse /\ f.arm = "true" /\ b = f.fls))
  \/ f.kind = "for" /\ b \in {f.post, f.after}
  \/ f.kind = "switch" /\ (b = f.after \/ \E k \in 1 .. Len(f.cases) : f.cases[k] = b)

Held(b, fs, cb) ==
  \/ \E k \in {"if", "for", "switch", "func"} : At(b, k, fs, cb)
  \/ \E i \in 1 .. Len(fs) : HeldBy(b, fs[i])

\* The entry of main, made by addGlobal, is waited for until main is compiled.
MainWaits(fs, fns) ==
  /\ ~ fns[Main].complete
  /\ \A i \in 1 .. Len(fs) : fs[i].kind = "func" => fs[i].fn # Main

\* The inductive form of Terminated.
TermRight ==
  \A b \in 1 .. Len(blocks) :
    \/ blocks[b].term.kind # "none"
    \/ /\ blocks[b].term = NoTerm
       /\ Held(b, frames, contextBlock) \/ (b = 2 /\ MainWaits(frames, funcs))

\* The innermost call holds its blocks.
LEMMA HeldNow ==
  ASSUME NEW fs \in Seq(Frame), fs # << >>, NEW b, NEW cb,
         HeldBy(b, Last(fs)) \/ (b = cb /\ Last(fs).kind # "append")
  PROVE  Held(b, fs, cb)
<1>1. Len(fs) \in Nat \ {0} /\ Last(fs) = fs[Len(fs)] /\ Last(fs) \in Frame
  BY FrontType
<1>2. Len(fs) \in 1 .. Len(fs)
  BY <1>1
<1>3. CASE HeldBy(b, Last(fs))
  BY <1>1, <1>2, <1>3 DEF Held
<1>4. CASE b = cb /\ Last(fs).kind # "append"
  <2>1. Last(fs).kind \in {"if", "for", "switch", "func"}
    BY <1>1, <1>4, FrameKinds
  <2>2. At(b, Last(fs).kind, fs, cb)
    BY <1>4, AtNow
  <2> QED
    BY <2>1, <2>2 DEF Held
<1> QED
  BY <1>3, <1>4

LEMMA HeldKeep ==
  ASSUME NEW fs \in Seq(Frame), NEW cb, NEW cc, NEW b, Held(b, fs, cb), b # cb \/ cc = cb
  PROVE  Held(b, fs, cc)
BY AtKeep DEF Held

LEMMA HeldPush ==
  ASSUME NEW fs \in Seq(Frame), NEW f \in Frame, NEW cb, NEW cc, NEW b, Held(b, fs, cb),
         \/ b # cb
         \/ f.kind = "func" /\ f.prevBlock = cb
         \/ f.kind = "switch" /\ f.pre = cb
  PROVE  Held(b, Append(fs, f), cc)
<1>1. CASE \E k \in {"if", "for", "switch", "func"} : At(b, k, fs, cb)
  BY <1>1, AtPush DEF Held
<1>2. CASE \E i \in 1 .. Len(fs) : HeldBy(b, fs[i])
  <2> DEFINE gs == Append(fs, f)
  <2>1. PICK i \in 1 .. Len(fs) : HeldBy(b, fs[i])
    BY <1>2
  <2>2. Len(fs) \in Nat /\ Len(gs) = Len(fs) + 1 /\ \A j \in 1 .. Len(fs) : gs[j] = fs[j]
    BY LenProperties, AppendType
  <2> HIDE DEF gs
  <2>3. i \in 1 .. Len(gs) /\ gs[i] = fs[i]
    BY <2>1, <2>2
  <2>4. Held(b, gs, cc)
    BY <2>1, <2>3 DEF Held
  <2> QED
    BY <2>4 DEF gs
<1> QED
  BY <1>1, <1>2 DEF Held

LEMMA HeldPop ==
  ASSUME NEW fs \in Seq(Frame), fs # << >>, NEW cb, NEW cc, NEW b, Held(b, fs, cb), b # NoBlock,
         ~ HeldBy(b, Last(fs)), b # cb \/ Last(fs).kind = "append",
         Last(fs).kind = "func" => cc = Last(fs).prevBlock,
         Last(fs).kind = "switch" => b # Last(fs).pre
  PROVE  Held(b, Front(fs), cc)
<1>1. CASE \E k \in {"if", "for", "switch", "func"} : At(b, k, fs, cb)
  BY <1>1, AtPop DEF Held
<1>2. CASE \E i \in 1 .. Len(fs) : HeldBy(b, fs[i])
  <2> DEFINE gs == Front(fs)
  <2>1. PICK i \in 1 .. Len(fs) : HeldBy(b, fs[i])
    BY <1>2
  <2>2. /\ Len(gs) = Len(fs) - 1 /\ Len(fs) \in Nat \ {0} /\ Last(fs) = fs[Len(fs)]
        /\ \A j \in 1 .. Len(fs) - 1 : gs[j] = fs[j]
    BY FrontType
  <2> HIDE DEF gs
  <2>3. i # Len(fs)
    BY <2>1, <2>2
  <2>4. i \in 1 .. Len(gs) /\ gs[i] = fs[i]
    BY <2>1, <2>2, <2>3
  <2>5. Held(b, gs, cc)
    BY <2>1, <2>4 DEF Held
  <2> QED
    BY <2>5 DEF gs
<1> QED
  BY <1>1, <1>2 DEF Held

LEMMA HeldTop ==
  ASSUME NEW fs \in Seq(Frame), fs # << >>, NEW g \in Frame, NEW cb, NEW cc, NEW b,
         Held(b, fs, cb), b # cb, HeldBy(b, Last(fs)) => HeldBy(b, g),
         g.kind = Last(fs).kind, g.kind # "func", g.kind = "switch" => g.pre = Last(fs).pre
  PROVE  Held(b, [fs EXCEPT ![Len(fs)] = g], cc)
<1>1. CASE \E k \in {"if", "for", "switch", "func"} : At(b, k, fs, cb)
  BY <1>1, AtTop DEF Held
<1>2. CASE \E i \in 1 .. Len(fs) : HeldBy(b, fs[i])
  <2> DEFINE gs == [fs EXCEPT ![Len(fs)] = g]
  <2>1. PICK i \in 1 .. Len(fs) : HeldBy(b, fs[i])
    BY <1>2
  <2>2. Len(fs) \in Nat \ {0} /\ Last(fs) = fs[Len(fs)]
    BY FrontType
  <2>3. Len(fs) \in 1 .. Len(fs)
    BY <2>2
  <2>4. Len(gs) = Len(fs) /\ \A j \in 1 .. Len(fs) : gs[j] = IF j = Len(fs) THEN g ELSE fs[j]
    BY <2>3, ExceptSeq
  <2> HIDE DEF gs
  <2>5. i \in 1 .. Len(gs) /\ HeldBy(b, gs[i])
    BY <2>1, <2>2, <2>4
  <2>6. Held(b, gs, cc)
    BY <2>5 DEF Held
  <2> QED
    BY <2>6 DEF gs
<1> QED
  BY <1>1, <1>2 DEF Held

\* Main stays uncompiled while another function is.
LEMMA MainPush ==
  ASSUME NEW fs \in Seq(Frame), NEW f \in Frame, NEW fns, NEW gns, MainWaits(fs, fns),
         gns[Main].complete = fns[Main].complete, f.kind = "func" => f.fn # Main
  PROVE  MainWaits(Append(fs, f), gns)
<1> DEFINE gs == Append(fs, f)
<1>1. /\ Len(fs) \in Nat /\ Len(gs) = Len(fs) + 1
      /\ \A i \in 1 .. Len(fs) : gs[i] = fs[i]
      /\ gs[Len(fs) + 1] = f
  BY LenProperties, AppendType
<1> HIDE DEF gs
<1>2. \A i \in 1 .. Len(gs) : i \in 1 .. Len(fs) \/ i = Len(fs) + 1
  BY <1>1
<1>3. MainWaits(gs, gns)
  BY <1>1, <1>2 DEF MainWaits
<1> QED
  BY <1>3 DEF gs

LEMMA MainPop ==
  ASSUME NEW fs \in Seq(Frame), fs # << >>, NEW fns, NEW gns, MainWaits(fs, fns),
         (Last(fs).kind = "func" /\ Last(fs).fn = Main) \/ gns[Main].complete = fns[Main].complete
  PROVE  MainWaits(Front(fs), gns)
<1> DEFINE gs == Front(fs)
<1>1. /\ Len(gs) = Len(fs) - 1 /\ Len(fs) \in Nat \ {0} /\ Last(fs) = fs[Len(fs)]
      /\ \A i \in 1 .. Len(fs) - 1 : gs[i] = fs[i]
  BY FrontType
<1> HIDE DEF gs
<1>2. Len(fs) \in 1 .. Len(fs) /\ \A i \in 1 .. Len(gs) : i \in 1 .. Len(fs) /\ gs[i] = fs[i]
  BY <1>1
<1>3. MainWaits(gs, gns)
  BY <1>1, <1>2 DEF MainWaits
<1> QED
  BY <1>3 DEF gs

LEMMA MainTop ==
  ASSUME NEW fs \in Seq(Frame), fs # << >>, NEW g \in Frame, g.kind # "func", NEW fns,
         MainWaits(fs, fns)
  PROVE  MainWaits([fs EXCEPT ![Len(fs)] = g], fns)
<1> DEFINE gs == [fs EXCEPT ![Len(fs)] = g]
<1>1. Len(fs) \in Nat \ {0}
  BY FrontType
<1>2. Len(fs) \in 1 .. Len(fs)
  BY <1>1
<1>3. Len(gs) = Len(fs) /\ \A i \in 1 .. Len(fs) : gs[i] = IF i = Len(fs) THEN g ELSE fs[i]
  BY <1>2, ExceptSeq
<1> HIDE DEF gs
<1>4. MainWaits(gs, fns)
  BY <1>3 DEF MainWaits
<1> QED
  BY <1>4 DEF gs

\* What the steps have in common.
LEMMA TermStep ==
  ASSUME TypeOK, OwnedNow, TermRight, NEW n \in Nat, NEW W, NEW K, Builds(blocks', n, W, K),
         \A b \in 1 .. Len(blocks) :
           b \notin W /\ blocks[b].term = NoTerm /\ Held(b, frames, contextBlock)
             => Held(b, frames', contextBlock'),
         MainWaits(frames, funcs) => MainWaits(frames', funcs'),
         \A i \in 1 .. n : Fresh(i) \in K => Held(Fresh(i), frames', contextBlock')
  PROVE  TermRight'
<1>1. Len(blocks) \in Nat /\ Len(blocks') = Len(blocks) + n
  BY Numbers DEF Builds, Added
<1>2. ASSUME NEW b \in 1 .. Len(blocks')
      PROVE  \/ blocks'[b].term.kind # "none"
             \/ /\ blocks'[b].term = NoTerm
                /\ Held(b, frames', contextBlock') \/ (b = 2 /\ MainWaits(frames', funcs'))
  <2>1. CASE b \in 1 .. Len(blocks)
    <3>1. CASE b \in W
      <4>1. FlowTerm(blocks'[b].term)
        BY <2>1, <3>1 DEF Builds
      <4> QED
        BY <4>1 DEF FlowTerm
    <3>2. CASE b \notin W
      <4>1. blocks'[b].term = blocks[b].term
        BY <2>1, <3>2 DEF Builds
      <4> QED
        BY <2>1, <3>2, <4>1 DEF TermRight
    <3> QED
      BY <3>1, <3>2
  <2>2. CASE b \notin 1 .. Len(blocks)
    <3>1. PICK i \in 1 .. n : b = Len(blocks) + i
      <4>1. b - Len(blocks) \in 1 .. n /\ b = Len(blocks) + (b - Len(blocks))
        BY <1>1, <2>2
      <4> QED
        BY <4>1
    <3>2. b = Fresh(i)
      BY <3>1 DEF Fresh
    <3>3. FlowTerm(blocks'[b].term) \/ (blocks'[b].term = NoTerm /\ b \in K)
      BY <3>2 DEF Builds
    <3> QED
      BY <3>2, <3>3 DEF FlowTerm
  <2> QED
    BY <2>1, <2>2
<1> QED
  BY <1>2 DEF TermRight

\* A step that writes a return, or nothing.
LEMMA TermReturn ==
  ASSUME TypeOK, OwnedNow, TermRight, NEW t \in {RetVal, RetVoid}, Returns(blocks', t),
         \A b \in 1 .. Len(blocks) :
           b # contextBlock /\ Held(b, frames, contextBlock) => Held(b, frames', contextBlock'),
         MainWaits(frames, funcs) => MainWaits(frames', funcs')
  PROVE  TermRight'
<1>1. t.kind # "none"
  BY DEF RetVal, RetVoid
<1>2. Len(blocks') = Len(blocks) /\ \A c \in 1 .. Len(blocks) :
        blocks'[c].term = IF c = contextBlock THEN t ELSE blocks[c].term
  BY DEF Returns
<1> QED
  BY <1>1, <1>2 DEF TermRight

LEMMA TermSame ==
  ASSUME TypeOK, TermRight, blocks' = blocks,
         \A b \in 1 .. Len(blocks) : Held(b, frames, contextBlock) => Held(b, frames', contextBlock'),
         MainWaits(frames, funcs) => MainWaits(frames', funcs')
  PROVE  TermRight'
BY DEF TermRight

LEMMA StraightTerm ==
  ASSUME TypeOK, OwnedNow, StacksRight, CallsRight, TermRight,
         "flowInCase" \notin Extra, "blocksInItem" \notin Extra,
         Stmt \/ Index \/ Substring \/ TypeAssertion \/ NestedAppend \/ Break \/ Continue
           \/ ReturnValues \/ NakedReturn
  PROVE  TermRight'
<1>1. UNCHANGED <<frames, funcs>> /\ frames # << >> /\ frames \in Seq(Frame) /\ Last(frames) = Top
  BY DEF Stmt, Index, Substring, TypeAssertion, NestedAppend, Break, Continue, ReturnValues, TypeOK,
         NakedReturn, ReturnAllowed, JumpAllowed, StatementAllowed, ExpressionAllowed, CanStand, Top
<1>2. \A b : b # contextBlock /\ Held(b, frames, contextBlock) => Held(b, frames', contextBlock')
  BY <1>1, HeldKeep
<1>3. MainWaits(frames, funcs) => MainWaits(frames', funcs')
  BY <1>1
<1>4. ASSUME NEW n \in Nat, NEW K, Builds(blocks', n, {contextBlock}, K),
             \A b \in K : b = contextBlock', Top.kind # "append"
      PROVE  TermRight'
  <2>1. \A i \in 1 .. n : Fresh(i) \in K => Held(Fresh(i), frames', contextBlock')
    BY <1>1, <1>4, HeldNow
  <2>2. \A b \in 1 .. Len(blocks) :
          b \notin {contextBlock} /\ blocks[b].term = NoTerm /\ Held(b, frames, contextBlock)
            => Held(b, frames', contextBlock')
    BY <1>2
  <2> QED
    BY <1>3, <1>4, <2>1, <2>2, TermStep
<1>5. CASE Index \/ Substring \/ TypeAssertion
  <2>1. Top.kind # "append"
    BY <1>5 DEF Index, Substring, TypeAssertion, ExpressionAllowed, StatementAllowed, Open, CanStand
  <2>2. /\ Index => Builds(blocks', 2, {contextBlock}, {Fresh(2)}) /\ contextBlock' = Fresh(2)
        /\ Substring => Builds(blocks', 3, {contextBlock}, {Fresh(2)}) /\ contextBlock' = Fresh(2)
        /\ TypeAssertion => Builds(blocks', 3, {contextBlock}, {Fresh(3)}) /\ contextBlock' = Fresh(3)
    BY IndexBuilds, SubstringBuilds, TypeAssertionBuilds DEF Index, Substring, TypeAssertion
  <2>3. 2 \in Nat /\ 3 \in Nat
    OBVIOUS
  <2> QED
    BY <1>4, <1>5, <2>1, <2>2, <2>3
<1>6. CASE Break \/ Continue
  <2>1. Builds(blocks', 0, {contextBlock}, {}) /\ 0 \in Nat
    BY <1>6, JumpsInLoop, BreakBuilds
  <2>2. Top.kind # "append"
    BY <1>6 DEF Break, Continue, JumpAllowed, StatementAllowed, Open, CanStand
  <2> QED
    BY <1>4, <2>1, <2>2
<1>7. CASE Stmt \/ NestedAppend
  <2>1. Builds(blocks', 0, {}, {}) /\ 0 \in Nat
    BY <1>7, StraightBuilds
  <2>2. contextBlock' = contextBlock
    BY <1>7 DEF Stmt, NestedAppend
  <2> QED
    BY <1>1, <1>3, <2>1, <2>2, TermStep
<1>8. CASE ReturnValues \/ NakedReturn
  <2>1. contextBlock' = contextBlock
    BY <1>8 DEF ReturnValues, NakedReturn
  <2>2. \/ blocks' = blocks
        \/ \E t \in {RetVal, RetVoid} : blocks' =
             Terminate(Emit(blocks, contextBlock, [at |-> Here, tag |-> "ret"]), contextBlock, t)
    BY <1>8 DEF ReturnValues, NakedReturn, NakedTerm
  <2>3. ASSUME NEW t \in {RetVal, RetVoid},
               blocks' = Terminate(Emit(blocks, contextBlock, [at |-> Here, tag |-> "ret"]),
                                   contextBlock, t)
        PROVE  TermRight'
    <3>1. t \in Term
      BY TermTypes
    <3>2. Returns(blocks', t)
      BY <1>1, <2>3, <3>1, ReturnTerms
    <3> QED
      BY <1>2, <1>3, <3>2, TermReturn
  <2>4. CASE blocks' = blocks
    BY <1>1, <1>3, <2>1, <2>4, TermSame
  <2> QED
    BY <2>2, <2>3, <2>4
<1> QED
  BY <1>5, <1>6, <1>7, <1>8

\* An opened call f holds the blocks that were made for it, and the current one if it is
\* a switch.
LEMMA OpenTerm ==
  ASSUME TypeOK, OwnedNow, TermRight, TypeOK', UNCHANGED funcs, frames # << >>,
         NEW f, frames' = Append(frames, f), f.kind # "func",
         NEW n \in Nat, NEW W, NEW K, Builds(blocks', n, W, K), f.kind = "append" => K = {},
         contextBlock \in W \/ (f.kind = "switch" /\ f.pre = contextBlock),
         \A b \in K : b = contextBlock' \/ HeldBy(b, f)
  PROVE  TermRight'
<1>1. frames \in Seq(Frame) /\ frames' \in Seq(Frame)
  BY DEF TypeOK
<1>2. f \in Frame /\ frames' # << >> /\ Last(frames') = f
  <2>1. Len(frames) \in Nat /\ Len(frames') = Len(frames) + 1 /\ frames'[Len(frames) + 1] = f
    BY <1>1, LenProperties
  <2>2. Len(frames) + 1 \in 1 .. Len(frames')
    BY <2>1
  <2>3. f \in Frame
    BY <1>1, <2>1, <2>2, ElementOfSeq
  <2> QED
    BY <1>1, <2>3, AppendType
<1>3. \A b \in 1 .. Len(blocks) :
        b \notin W /\ blocks[b].term = NoTerm /\ Held(b, frames, contextBlock)
          => Held(b, frames', contextBlock')
  BY <1>1, <1>2, HeldPush
<1>4. MainWaits(frames, funcs) => MainWaits(frames', funcs')
  BY <1>1, <1>2, MainPush
<1>5. \A i \in 1 .. n : Fresh(i) \in K => Held(Fresh(i), frames', contextBlock')
  BY <1>1, <1>2, HeldNow
<1> QED
  BY <1>3, <1>4, <1>5, TermStep

LEMMA BeginTerm ==
  ASSUME TypeOK, OwnedNow, TermRight,
         \/ \E self \in BOOLEAN : BeginAppend(self)
         \/ \E hasElse \in BOOLEAN : BeginIf(hasElse)
         \/ \E form \in {"plain", "checked", "range"} : BeginFor(form)
         \/ \E hasDefault \in BOOLEAN : BeginSwitch(hasDefault)
  PROVE  TermRight'
<1>1. frames # << >> /\ UNCHANGED funcs
  BY DEF BeginAppend, BeginIf, BeginFor, BeginSwitch, StatementAllowed, CanStand
<1>2. TypeOK'
  BY NextOwned DEF Next
<1>3. CASE \E self \in BOOLEAN : BeginAppend(self)
  <2> DEFINE f == [kind |-> "append", at |-> Here, entry |-> Heights, add |-> Fresh(2)]
  <2>1. frames' = Append(frames, f) /\ f.kind = "append"
    BY <1>3 DEF BeginAppend
  <2>2. 4 \in Nat /\ Builds(blocks', 4, {contextBlock}, {})
    BY <1>3, BeginAppendBuilds
  <2> HIDE DEF f
  <2> QED
    BY <1>1, <1>2, <2>1, <2>2, OpenTerm
<1>4. CASE \E hasElse \in BOOLEAN : BeginIf(hasElse)
  <2>1. PICK hasElse \in BOOLEAN : BeginIf(hasElse)
    BY <1>4
  <2> DEFINE n   == IF hasElse THEN 3 ELSE 2
             fls == IF hasElse THEN Fresh(3) ELSE Fresh(1)
             f   == [kind |-> "if", at |-> Here, entry |-> Heights, hasElse |-> hasElse,
                     arm |-> "true", tru |-> Fresh(2), fls |-> fls, after |-> Fresh(1)]
             K   == {Fresh(1), Fresh(2), Fresh(n)}
  <2>2. frames' = Append(frames, f) /\ contextBlock' = Fresh(2)
    BY <2>1 DEF BeginIf
  <2>3. Builds(blocks', n, {contextBlock}, K) /\ n \in Nat
    BY <2>1, BeginIfBuilds
  <2>4. f.kind = "if" /\ \A b \in K : b = contextBlock' \/ HeldBy(b, f)
    BY <2>2 DEF HeldBy
  <2> HIDE DEF f, K, n
  <2> QED
    BY <1>1, <1>2, <2>2, <2>3, <2>4, OpenTerm
<1>5. CASE \E form \in {"plain", "checked", "range"} : BeginFor(form)
  <2>1. PICK form \in {"plain", "checked", "range"} : BeginFor(form)
    BY <1>5
  <2> DEFINE n == IF form = "plain" THEN 4 ELSE 6
             f == [kind |-> "for", at |-> Here, entry |-> Heights,
                   cond |-> Fresh(1), post |-> Fresh(3), after |-> Fresh(4)]
             K == {Fresh(3), Fresh(4), contextBlock'}
  <2>2. frames' = Append(frames, f)
    BY <2>1 DEF BeginFor
  <2>3. Builds(blocks', n, {contextBlock}, K) /\ n \in Nat
    BY <2>1, BeginForBuilds
  <2>4. f.kind = "for" /\ \A b \in K : b = contextBlock' \/ HeldBy(b, f)
    BY DEF HeldBy
  <2> HIDE DEF f, K, n
  <2> QED
    BY <1>1, <1>2, <2>2, <2>3, <2>4, OpenTerm
<1>6. CASE \E hasDefault \in BOOLEAN : BeginSwitch(hasDefault)
  <2>1. PICK hasDefault \in BOOLEAN : BeginSwitch(hasDefault)
    BY <1>6
  <2> DEFINE f == [kind |-> "switch", at |-> Here, entry |-> Heights, hasDefault |-> hasDefault,
                   open |-> IF hasDefault THEN "default" ELSE "none", pre |-> contextBlock,
                   dflt |-> Fresh(2), after |-> Fresh(1), cases |-> << >>, through |-> << >>]
             K == IF hasDefault THEN {Fresh(1), Fresh(2)} ELSE {Fresh(1)}
  <2>2. frames' = Append(frames, f) /\ (hasDefault => contextBlock' = Fresh(2))
    BY <2>1 DEF BeginSwitch
  <2>3. Builds(blocks', 2, {}, K) /\ 2 \in Nat
    BY <2>1, BeginSwitchBuilds
  <2>4. /\ f.kind = "switch" /\ f.pre = contextBlock
        /\ \A b \in K : b = contextBlock' \/ HeldBy(b, f)
    BY <2>2 DEF HeldBy
  <2> HIDE DEF f, K
  <2> QED
    BY <1>1, <1>2, <2>2, <2>3, <2>4, OpenTerm
<1> QED
  BY <1>3, <1>4, <1>5, <1>6

\* Where an arm of an if ends, the block it began in or the current one has a terminator.
LEMMA ArmEnds ==
  ASSUME TypeOK, OwnedNow, TermRight, frames # << >>, NEW entry, BranchMayEnd(entry),
         "openBranchEnd" \notin Extra, NEW W, W = IF blocks[entry].term = NoTerm THEN {entry} ELSE {},
         blocks[contextBlock].term = NoTerm
  PROVE  contextBlock \in W
<1>1. NoTerm.kind = "none"
  BY Kinds
<1> QED
  BY <1>1 DEF BranchMayEnd

\* A closed call other than a function goes on in the block after it.
LEMMA CloseTerm ==
  ASSUME TypeOK, OwnedNow, CallsRight, TermRight, frames # << >>, Top.kind \notin {"func", "append"},
         UNCHANGED funcs, frames' = Front(frames), contextBlock' = Top.after,
         NEW W, NEW K, Builds(blocks', 0, W, K),
         blocks[contextBlock].term = NoTerm => contextBlock \in W,
         \A b : HeldBy(b, Top) => b \in W \/ b = Top.after,
         Top.kind = "switch" => contextBlock = Top.pre
  PROVE  TermRight'
<1>1. frames \in Seq(Frame) /\ Top = Last(frames) /\ 0 \in Nat
  BY DEF TypeOK, Top
<1>2. \A b \in 1 .. Len(blocks) : b # NoBlock
  BY Numbers DEF NoBlock
<1>3. /\ Front(frames) # << >> /\ Front(frames) \in Seq(Frame)
      /\ Last(Front(frames)).kind # "append"
  BY Outer
<1>4. \A b \in 1 .. Len(blocks) :
        b \notin W /\ blocks[b].term = NoTerm /\ Held(b, frames, contextBlock)
          => Held(b, frames', contextBlock')
  <2> SUFFICES ASSUME NEW b \in 1 .. Len(blocks), b \notin W, blocks[b].term = NoTerm,
                      Held(b, frames, contextBlock)
               PROVE  Held(b, frames', contextBlock')
    OBVIOUS
  <2>1. CASE b = Top.after
    BY <1>3, <2>1, HeldNow
  <2>2. CASE b # Top.after
    <3>1. ~ HeldBy(b, Top) /\ b # contextBlock
      BY <2>2
    <3> QED
      BY <1>1, <1>2, <3>1, HeldPop
  <2> QED
    BY <2>1, <2>2
<1>5. MainWaits(frames, funcs) => MainWaits(frames', funcs')
  BY <1>1, MainPop
<1>6. \A i \in 1 .. 0 : Fresh(i) \in K => Held(Fresh(i), frames', contextBlock')
  OBVIOUS
<1> QED
  BY <1>1, <1>4, <1>5, <1>6, TermStep

LEMMA EndIfTerm ==
  ASSUME TypeOK, OwnedNow, CallsRight, TermRight, "openBranchEnd" \notin Extra, EndIf
  PROVE  TermRight'
<1> DEFINE entry == IF Top.hasElse THEN Top.fls ELSE Top.tru
           arm   == IF blocks[entry].term = NoTerm THEN {entry} ELSE {}
           outer == Front(contextCondAfter)
<1>1. /\ frames # << >> /\ Top.kind = "if" /\ frames' = Front(frames)
      /\ contextBlock' = Top.after /\ UNCHANGED funcs /\ BranchMayEnd(entry)
      /\ Top.hasElse => Top.arm = "false"
  BY DEF EndIf, Open
<1>2. \A b : HeldBy(b, Top) => b = Top.after
  BY <1>1 DEF HeldBy
<1>3. blocks[contextBlock].term = NoTerm => contextBlock \in arm
  <2> HIDE DEF entry
  <2> QED
    BY <1>1, ArmEnds
<1>4. /\ outer = << >> => Builds(blocks', 0, arm, {})
      /\ outer # << >> => Builds(blocks', 0, arm \cup {Top.after}, {})
  BY EndIfBuilds
<1> HIDE DEF arm, entry, outer
<1>5. \E W : Builds(blocks', 0, W, {}) /\ (blocks[contextBlock].term = NoTerm => contextBlock \in W)
  BY <1>3, <1>4
<1> QED
  BY <1>1, <1>2, <1>5, CloseTerm

LEMMA EndTerm ==
  ASSUME TypeOK, OwnedNow, CallsRight, TermRight, EndAppend \/ EndFor \/ EndSwitch
  PROVE  TermRight'
<1>1. frames # << >> /\ frames \in Seq(Frame) /\ Top = Last(frames) /\ UNCHANGED funcs
  BY DEF EndAppend, EndFor, EndSwitch, Open, TypeOK, Top
<1>2. CASE EndAppend
  <2>1. Top.kind = "append" /\ frames' = Front(frames)
    BY <1>2 DEF EndAppend, Open
  <2>2. \A b \in 1 .. Len(blocks) : b # NoBlock
    BY Numbers DEF NoBlock
  <2>3. \A b : ~ HeldBy(b, Top)
    BY <2>1 DEF HeldBy
  <2>4. \A b \in 1 .. Len(blocks) :
          Held(b, frames, contextBlock) => Held(b, frames', contextBlock')
    BY <1>1, <2>1, <2>2, <2>3, HeldPop
  <2>5. MainWaits(frames, funcs) => MainWaits(frames', funcs')
    BY <1>1, <2>1, MainPop
  <2>6. Builds(blocks', 0, {}, {}) /\ 0 \in Nat
    BY <1>2, StraightBuilds
  <2> QED
    BY <2>4, <2>5, <2>6, TermStep
<1>3. CASE EndFor
  <2>1. Top.kind = "for" /\ frames' = Front(frames) /\ contextBlock' = Top.after
    BY <1>3 DEF EndFor, Open
  <2>2. Builds(blocks', 0, {contextBlock, Top.post}, {})
    BY <1>3, EndForBuilds
  <2>3. \A b : HeldBy(b, Top) => b \in {contextBlock, Top.post} \/ b = Top.after
    BY <2>1 DEF HeldBy
  <2> QED
    BY <1>1, <2>1, <2>2, <2>3, CloseTerm
<1>4. CASE EndSwitch
  <2>1. Top.kind = "switch" /\ Top.open = "none"
    BY <1>4 DEF EndSwitch, Open
  <2>2. contextBlock = Top.pre
    BY <1>1, <2>1 DEF CallsRight, SwitchAt
  <2>3. \A b : HeldBy(b, Top) => b \in {contextBlock} \cup CaseBlocks \/ b = Top.after
    BY <2>1 DEF HeldBy, CaseBlocks
  <2>4. CASE UNCHANGED <<blocks, contextBlock, frames>>
    BY <1>1, <2>4, TermSame
  <2>5. CASE /\ Builds(blocks', 0, {contextBlock} \cup CaseBlocks, {})
             /\ contextBlock' = Top.after /\ frames' = Front(frames)
    BY <1>1, <2>1, <2>2, <2>3, <2>5, CloseTerm
  <2> QED
    BY <1>4, <2>4, <2>5, EndSwitchBuilds
<1> QED
  BY <1>2, <1>3, <1>4

LEMMA ElseTerm ==
  ASSUME TypeOK, OwnedNow, TermRight, "openBranchEnd" \notin Extra, BeginElse
  PROVE  TermRight'
<1> DEFINE W == IF blocks[Top.tru].term = NoTerm THEN {Top.tru} ELSE {}
<1>1. /\ frames # << >> /\ frames \in Seq(Frame) /\ Top = Last(frames) /\ UNCHANGED funcs
      /\ contextBlock' = Top.fls /\ BranchMayEnd(Top.tru)
  BY DEF BeginElse, Open, TypeOK, Top
<1>2. Builds(blocks', 0, W, {}) /\ 0 \in Nat
  BY BeginElseBuilds
<1>3. blocks[contextBlock].term = NoTerm => contextBlock \in W
  BY <1>1, ArmEnds
<1>4. PICK g : Becomes(g) /\ Top.kind = "if"
  BY ElseBecomes
<1>5. /\ g \in Frame /\ g.kind = "if" /\ g.after = Top.after
      /\ frames' = [frames EXCEPT ![Len(frames)] = g]
  BY <1>4 DEF Becomes
<1>6. frames' # << >> /\ frames' \in Seq(Frame) /\ Last(frames') = g
  <2>1. frames' # << >> /\ Last(frames') = g
    <3>1. Len(frames) \in Nat \ {0}
      BY <1>1, FrontType
    <3>2. Len(frames) \in 1 .. Len(frames)
      BY <3>1
    <3>3. /\ frames' \in Seq(Frame) /\ Len(frames') = Len(frames)
          /\ frames'[Len(frames)] = g
      BY <1>1, <1>5, <3>2, ExceptSeq
    <3>4. frames' # << >>
      BY <3>1, <3>3
    <3> QED
      BY <3>3, <3>4, FrontType
  <2> QED
    BY <2>1, NextOwned DEF Next, TypeOK
<1> HIDE DEF W
<1>7. \A b \in 1 .. Len(blocks) :
        b \notin W /\ blocks[b].term = NoTerm /\ Held(b, frames, contextBlock)
          => Held(b, frames', contextBlock')
  <2> SUFFICES ASSUME NEW b \in 1 .. Len(blocks), b \notin W, blocks[b].term = NoTerm,
                      Held(b, frames, contextBlock)
               PROVE  Held(b, frames', contextBlock')
    OBVIOUS
  <2>1. CASE b = Top.fls
    BY <1>1, <1>5, <1>6, <2>1, HeldNow
  <2>2. CASE b # Top.fls
    <3>1. b # contextBlock
      BY <1>3
    <3>2. HeldBy(b, Top) => HeldBy(b, g)
      BY <1>4, <1>5, <2>2 DEF HeldBy
    <3> QED
      BY <1>1, <1>4, <1>5, <3>1, <3>2, HeldTop
  <2> QED
    BY <2>1, <2>2
<1>8. MainWaits(frames, funcs) => MainWaits(frames', funcs')
  BY <1>1, <1>5, MainTop
<1>9. \A i \in 1 .. 0 : Fresh(i) \in {} => Held(Fresh(i), frames', contextBlock')
  OBVIOUS
<1> QED
  BY <1>2, <1>7, <1>8, <1>9, TermStep

\* The block a switch stands in is the one its caller goes on in.
LEMMA SwitchWaits ==
  ASSUME TypeOK, OwnedNow, CallsRight, frames # << >>, Top.kind = "switch"
  PROVE  \E k \in {"if", "for", "func"} : At(Top.pre, k, frames, contextBlock)
<1> DEFINE m == Len(frames) - 1
<1>1. m \in 1 .. Len(frames) /\ frames[m].kind \in {"if", "for", "func"}
  BY Outer
<1>2. Len(frames) \in Nat \ {0} /\ Top = frames[Len(frames)]
  BY Context
<1>3. m + 1 = Len(frames) /\ m # Len(frames)
  BY ONLY <1>2, Before, Zenon
<1>4. Top.pre = Returning(m, frames, contextBlock)
  BY <1>2, <1>3 DEF Returning
<1> QED
  BY <1>1, <1>4 DEF At

LEMMA SwitchTerm ==
  ASSUME TypeOK, OwnedNow, CallsRight, TermRight,
         EndDefault \/ BeginCase \/ \E fallthrough \in BOOLEAN : EndCase(fallthrough)
  PROVE  TermRight'
<1>1. Top.kind = "switch" /\ frames # << >> /\ frames \in Seq(Frame) /\ Top = Last(frames)
  BY SwitchBecomes DEF Becomes, TypeOK, Top
<1>2. PICK g : /\ Becomes(g) /\ g.pre = Top.pre
               /\ BeginCase => g.open = "case" /\ g.cases = Append(Top.cases, Fresh(1))
               /\ ~ BeginCase => g.open = "none" /\ g.cases = Top.cases
  BY SwitchBecomes
<1>3. /\ g \in Frame /\ g.kind = "switch" /\ g.after = Top.after /\ UNCHANGED funcs
      /\ frames' = [frames EXCEPT ![Len(frames)] = g]
  BY <1>1, <1>2 DEF Becomes
<1>4. frames' # << >> /\ frames' \in Seq(Frame) /\ Last(frames') = g
  <2>1. Len(frames) \in Nat \ {0}
    BY <1>1, FrontType
  <2>2. Len(frames) \in 1 .. Len(frames)
    BY <2>1
  <2>3. frames' \in Seq(Frame) /\ Len(frames') = Len(frames) /\ frames'[Len(frames)] = g
    BY <1>1, <1>3, <2>2, ExceptSeq
  <2>4. frames' # << >>
    BY <2>1, <2>3
  <2> QED
    BY <2>3, <2>4, FrontType
<1>5. /\ Top.cases \in Seq(Block) /\ Fresh(1) \in Block
      /\ BeginCase => /\ Len(Top.cases) \in Nat /\ Len(g.cases) = Len(Top.cases) + 1
                      /\ \A k \in 1 .. Len(Top.cases) : g.cases[k] = Top.cases[k]
                      /\ g.cases[Len(Top.cases) + 1] = Fresh(1)
  <2>1. Top.cases \in Seq(Block) /\ Fresh(1) \in Block
    BY <1>1, TopType, FreshBlocks
  <2> QED
    BY <1>2, <2>1, AppendType, LenProperties
<1>6. \A b : HeldBy(b, Top) => HeldBy(b, g)
  <2>1. CASE BeginCase
    <3>1. \A k \in 1 .. Len(Top.cases) : k \in 1 .. Len(g.cases) /\ g.cases[k] = Top.cases[k]
      BY <1>5, <2>1
    <3> QED
      BY <1>1, <1>3, <3>1 DEF HeldBy
  <2>2. CASE ~ BeginCase
    BY <1>1, <1>2, <1>3, <2>2 DEF HeldBy
  <2> QED
    BY <2>1, <2>2
<1>7. \A b : b # contextBlock /\ Held(b, frames, contextBlock) => Held(b, frames', contextBlock')
  BY <1>1, <1>2, <1>3, <1>6, HeldTop
<1>8. MainWaits(frames, funcs) => MainWaits(frames', funcs')
  BY <1>1, <1>3, MainTop
<1>9. SwitchAt(Top, contextBlock, contextFunc, blocks)
  BY <1>1 DEF CallsRight
<1>10. 0 \in Nat /\ 1 \in Nat
  OBVIOUS
<1>11. CASE EndDefault
  <2>1. Builds(blocks', 0, {Top.dflt}, {}) /\ Top.open = "default"
    BY <1>11, EndDefaultBuilds DEF EndDefault
  <2>2. contextBlock = Top.dflt
    BY <1>1, <1>9, <2>1 DEF SwitchAt
  <2>3. \A b \in 1 .. Len(blocks) :
          b \notin {Top.dflt} /\ blocks[b].term = NoTerm /\ Held(b, frames, contextBlock)
            => Held(b, frames', contextBlock')
    BY <1>7, <2>2
  <2>4. \A i \in 1 .. 0 : Fresh(i) \in {} => Held(Fresh(i), frames', contextBlock')
    OBVIOUS
  <2> QED
    BY <1>8, <1>10, <2>1, <2>3, <2>4, TermStep
<1>12. CASE BeginCase
  <2>1. Builds(blocks', 1, {}, {Fresh(1)}) /\ Top.open = "none"
    BY <1>12, BeginCaseBuilds DEF BeginCase
  <2>2. contextBlock = Top.pre
    BY <1>1, <1>9, <2>1 DEF SwitchAt
  <2>3. Held(contextBlock, frames', contextBlock')
    <3>1. PICK k \in {"if", "for", "func"} : At(Top.pre, k, frames, contextBlock)
      BY <1>1, SwitchWaits
    <3>2. k # Last(frames).kind /\ g.kind = Last(frames).kind /\ g.kind # "func"
      BY <1>1, <1>3, <3>1
    <3>3. At(Top.pre, k, frames', contextBlock')
      BY <1>1, <1>2, <1>3, <3>1, <3>2, AtTop
    <3> QED
      BY <2>2, <3>1, <3>3 DEF Held
  <2>4. Len(Top.cases) + 1 \in 1 .. Len(g.cases) /\ g.cases[Len(Top.cases) + 1] = Fresh(1)
    BY <1>5, <1>12
  <2>5. HeldBy(Fresh(1), g)
    BY <1>3, <2>4 DEF HeldBy
  <2>6. \A i \in 1 .. 1 : Fresh(i) \in {Fresh(1)} => Held(Fresh(i), frames', contextBlock')
    BY <1>4, <2>5, HeldNow
  <2>7. \A b \in 1 .. Len(blocks) :
          b \notin {} /\ blocks[b].term = NoTerm /\ Held(b, frames, contextBlock)
            => Held(b, frames', contextBlock')
    BY <1>7, <2>3
  <2> QED
    BY <1>8, <1>10, <2>1, <2>6, <2>7, TermStep
<1>13. CASE \E fallthrough \in BOOLEAN : EndCase(fallthrough)
  <2>1. Builds(blocks', 0, {}, {}) /\ Top.open = "case"
    BY <1>13, StraightBuilds DEF EndCase
  <2>2. \E k \in 1 .. Len(Top.cases) : Top.cases[k] = contextBlock
    BY <1>1, <1>9, <2>1 DEF SwitchAt
  <2>3. HeldBy(contextBlock, g)
    BY <1>1, <1>6, <2>2 DEF HeldBy
  <2>4. Held(contextBlock, frames', contextBlock')
    BY <1>4, <2>3, HeldNow
  <2>5. \A b \in 1 .. Len(blocks) :
          b \notin {} /\ blocks[b].term = NoTerm /\ Held(b, frames, contextBlock)
            => Held(b, frames', contextBlock')
    BY <1>7, <2>4
  <2>6. \A i \in 1 .. 0 : Fresh(i) \in {} => Held(Fresh(i), frames', contextBlock')
    OBVIOUS
  <2> QED
    BY <1>8, <1>10, <2>1, <2>5, <2>6, TermStep
<1> QED
  BY <1>11, <1>12, <1>13

LEMMA BeginMainTerm ==
  ASSUME TypeOK, OwnedNow, TermRight, BeginMain
  PROVE  TermRight'
<1>1. /\ EnterFunc(Main, 2, 0) /\ frames = << >> /\ blocks' = blocks
      /\ Main \in Nat \ {0}
  BY DEF BeginMain, Main
<1>2. PICK g \in Frame : frames' = Append(frames, g) /\ g.kind = "func" /\ contextBlock' = 2
  BY <1>1, EnterFrame
<1>3. frames' \in Seq(Frame) /\ frames' # << >> /\ Last(frames') = g
  BY <1>2, AppendType, ZenonT(40) DEF TypeOK
<1>4. Held(2, frames', contextBlock')
  BY <1>2, <1>3, HeldNow
<1>5. \A b : ~ Held(b, frames, contextBlock)
  <2>1. Len(frames) = 0
    BY <1>1
  <2> QED
    BY <2>1 DEF Held, At
<1> QED
  BY <1>1, <1>4, <1>5 DEF TermRight

LEMMA BeginFuncTerm ==
  ASSUME TypeOK, OwnedNow, TermRight, NEW kind \in {"init", "named", "method", "literal"},
         NEW results \in 0 .. 2, BeginFunc(kind, results)
  PROVE  TermRight'
<1> DEFINE f == Len(funcs) + 1
           n == IF kind = "method" THEN 2 ELSE 1
<1>1. Enters(kind, results)
  BY BeginFuncEnters
<1>2. Len(blocks) \in Nat /\ Len(funcs) \in Nat /\ 2 <= Len(funcs)
  BY Numbers
<1>3. /\ Len(blocks') = Len(blocks) + n
      /\ \A c \in 1 .. Len(blocks) : blocks'[c].term = blocks[c].term
      /\ blocks'[Len(blocks) + 1].term = NoTerm
      /\ kind = "method" => blocks'[Len(blocks) + 2].term \in {RetVal, RetVoid}
  BY <1>1 DEF Enters
<1>4. EnterFunc(f, Fresh(1), results) /\ frames \in Seq(Frame) /\ f \in Nat \ {0} /\ f # Main
  <2>1. EnterFunc(f, Fresh(1), results) /\ frames \in Seq(Frame)
    BY DEF BeginFunc, TypeOK
  <2>2. f \in Nat \ {0} /\ f # Main
    BY <1>2 DEF Main
  <2> QED
    BY <2>1, <2>2
<1>5. funcs'[Main].complete = funcs[Main].complete
  <2>1. Main \in 1 .. Len(funcs) /\ Main # 0
    BY <1>2 DEF Main
  <2> QED
    BY <1>1, <2>1 DEF Enters, FuncsKept
<1> HIDE DEF f
<1>6. PICK g \in Frame : /\ frames' = Append(frames, g) /\ g.kind = "func" /\ g.fn = f
                         /\ g.prevBlock = contextBlock /\ contextBlock' = Fresh(1)
  BY <1>4, EnterFrame
<1>7. frames' \in Seq(Frame) /\ frames' # << >> /\ Last(frames') = g
  BY <1>4, <1>6, AppendType
<1>8. \A b : Held(b, frames, contextBlock) => Held(b, frames', contextBlock')
  BY <1>4, <1>6, HeldPush
<1>9. MainWaits(frames, funcs) => MainWaits(frames', funcs')
  BY <1>4, <1>5, <1>6, MainPush
<1>10. Held(Len(blocks) + 1, frames', contextBlock')
  <2>1. contextBlock' = Len(blocks) + 1
    BY <1>6 DEF Fresh
  <2> QED
    BY <1>6, <1>7, <2>1, HeldNow
<1>11. ASSUME NEW b \in 1 .. Len(blocks')
       PROVE  \/ blocks'[b].term.kind # "none"
              \/ /\ blocks'[b].term = NoTerm
                 /\ Held(b, frames', contextBlock') \/ (b = 2 /\ MainWaits(frames', funcs'))
  <2>1. CASE b \in 1 .. Len(blocks)
    BY <1>3, <1>8, <1>9, <2>1 DEF TermRight
  <2>2. CASE b \notin 1 .. Len(blocks)
    <3>1. b = Len(blocks) + 1 \/ (kind = "method" /\ b = Len(blocks) + 2)
      BY <1>2, <1>3, <2>2
    <3> QED
      BY <1>3, <1>10, <3>1 DEF RetVal, RetVoid
  <2> QED
    BY <2>1, <2>2
<1> QED
  BY <1>11 DEF TermRight

LEMMA EndFuncTerm ==
  ASSUME TypeOK, OwnedNow, CallsRight, TermRight, EndFunc, "armsReturn" \notin Extra
  PROVE  TermRight'
<1>1. /\ frames # << >> /\ frames \in Seq(Frame) /\ Last(frames).kind = "func"
      /\ frames' = Front(frames) /\ contextBlock' = Last(frames).prevBlock
  BY DEF EndFunc, Open, Top, BackToCaller, TypeOK
<1>2. \A b \in 1 .. Len(blocks) : b # NoBlock
  BY Numbers DEF NoBlock
<1>3. \A b : ~ HeldBy(b, Last(frames))
  BY <1>1 DEF HeldBy
<1>4. \A b \in 1 .. Len(blocks) :
        b # contextBlock /\ Held(b, frames, contextBlock) => Held(b, frames', contextBlock')
  BY <1>1, <1>2, <1>3, HeldPop
<1>5. MainWaits(frames, funcs) => MainWaits(frames', funcs')
  <2>1. FuncsKept(Top.fn) /\ Top = Last(frames)
    BY EndFuncBuilds DEF Top
  <2>2. Main \in 1 .. Len(funcs)
    <3>1. Len(funcs) \in Nat /\ 2 <= Len(funcs)
      BY Numbers
    <3> QED
      BY <3>1 DEF Main
  <2>3. Last(frames).fn = Main \/ funcs'[Main].complete = funcs[Main].complete
    BY <2>1, <2>2 DEF FuncsKept
  <2> QED
    BY <1>1, <2>3, MainPop
<1> QED
  BY <1>4, <1>5, LastReturns, TermReturn

LEMMA NextTerm ==
  ASSUME TypeOK, OwnedNow, StacksRight, CallsRight, TermRight, [Next]_vars,
         "flowInCase" \notin Extra, "blocksInItem" \notin Extra,
         "openBranchEnd" \notin Extra, "armsReturn" \notin Extra
  PROVE  TermRight'
<1>1. CASE Stmt \/ Index \/ Substring \/ TypeAssertion \/ NestedAppend \/ Break \/ Continue
             \/ ReturnValues \/ NakedReturn
  BY <1>1, StraightTerm
<1>2. CASE \/ \E self \in BOOLEAN : BeginAppend(self)
           \/ \E hasElse \in BOOLEAN : BeginIf(hasElse)
           \/ \E form \in {"plain", "checked", "range"} : BeginFor(form)
           \/ \E hasDefault \in BOOLEAN : BeginSwitch(hasDefault)
  BY <1>2, BeginTerm
<1>3. CASE EndAppend \/ EndIf \/ EndFor \/ EndSwitch
  BY <1>3, EndTerm, EndIfTerm
<1>4. CASE BeginElse \/ EndDefault \/ BeginCase \/ \E fallthrough \in BOOLEAN : EndCase(fallthrough)
  BY <1>4, ElseTerm, SwitchTerm
<1>5. CASE BeginMain \/ EndFunc \/
             \E kind \in {"init", "named", "method", "literal"}, results \in 0 .. 2 :
               BeginFunc(kind, results)
  BY <1>5, BeginMainTerm, BeginFuncTerm, EndFuncTerm
<1>6. CASE Finish \/ UNCHANGED vars
  <2>1. UNCHANGED <<blocks, frames, contextBlock, funcs>>
    BY <1>6 DEF Finish, vars
  <2> QED
    BY <2>1, TermSame
<1> QED
  BY <1>1, <1>2, <1>3, <1>4, <1>5, <1>6 DEF Next

LEMMA InitTerm == Init => TermRight
<1> SUFFICES ASSUME Init PROVE TermRight
  OBVIOUS
<1>1. /\ blocks = <<BlockOf(GlobalInit, << >>, RetVoid), NewBlock(Main)>>
      /\ funcs = <<NewFunc("globalinit", 0, 1, TRUE), NewFunc("main", 0, 2, FALSE)>>
      /\ frames = << >>
  BY DEF Init
<1>2. /\ Len(blocks) = 2 /\ blocks[2].term = NoTerm
      /\ blocks[1].term = RetVoid
  BY <1>1 DEF BlockOf, NewBlock
<1>3. ~ funcs[Main].complete
  BY <1>1 DEF NewFunc, Main
<1>4. MainWaits(frames, funcs)
  BY <1>1, <1>3 DEF MainWaits
<1> QED
  BY <1>2, <1>4 DEF TermRight, RetVoid

-----------------------------------------------------------------------------
(* The theorems: the blocks of a complete function                           *)

\* The function of an open call is one whose call is open.
LEMMA OwnerOpen ==
  ASSUME TypeOK, OwnedNow, NEW i \in 1 .. Len(frames)
  PROVE  \E m \in 1 .. Len(frames) :
           frames[m].kind = "func" /\ frames[m].fn = OwnerOf(frames[i], blocks)
<1> DEFINE S == {k \in 1 .. Len(frames) : OwnerOf(frames[k], blocks) = OwnerOf(frames[i], blocks)}
<1>1. Len(frames) \in Nat
  BY CallTypes
<1>2. PICK m \in S : \A k \in S : m <= k
  <2>1. i \in S /\ S \in SUBSET Nat
    BY <1>1
  <2> HIDE DEF S
  <2> QED
    BY <2>1, Least
<1>3. /\ m \in 1 .. Len(frames) /\ OwnerOf(frames[m], blocks) = OwnerOf(frames[i], blocks)
      /\ frames[m] \in Frame
      /\ FrameOwned(frames[m], OwnerAt(m - 1, frames, blocks), blocks, Len(funcs))
  BY <1>2, CallTypes DEF OwnedNow, Owned
<1>4. OwnerOf(frames[m], blocks)
        = IF frames[m].kind = "func" THEN frames[m].fn ELSE OwnerAt(m - 1, frames, blocks)
  BY <1>3, OwnerGrows, GrowsRefl DEF TypeOK
<1>5. frames[m].kind = "func"
  <2> SUFFICES ASSUME frames[m].kind # "func" PROVE FALSE
    OBVIOUS
  <2>1. OwnerAt(m - 1, frames, blocks) # 0
    BY <1>3, FrameKinds DEF FrameOwned
  <2>2. m - 1 # 0
    BY <2>1 DEF OwnerAt
  <2>3. m - 1 \in 1 .. Len(frames) /\ ~ (m <= m - 1)
    BY <1>1, <1>3, <2>2
  <2>4. OwnerOf(frames[m - 1], blocks) = OwnerOf(frames[i], blocks)
    BY <1>3, <1>4, <2>2 DEF OwnerAt
  <2> QED
    BY <1>2, <2>3, <2>4
<1> QED
  BY <1>3, <1>4, <1>5

\* A block that an open call goes on in, or holds on to, is a block of its function.
LEMMA HolderOwns ==
  ASSUME TypeOK, OwnedNow, CallsRight, NEW b \in 1 .. Len(blocks), NEW i \in 1 .. Len(frames),
         b = Returning(i, frames, contextBlock) \/ HeldBy(b, frames[i])
  PROVE  blocks[b].fn = OwnerOf(frames[i], blocks)
<1>1. Len(frames) \in Nat /\ frames # << >> /\ b # NoBlock
  <2>1. Len(frames) \in Nat /\ frames # << >> 
    BY CallTypes, EmptySeq
  <2>2. b # NoBlock
    BY Numbers DEF NoBlock
  <2> QED
    BY <2>1, <2>2
<1>2. /\ frames[i] \in Frame
      /\ FrameOwned(frames[i], OwnerAt(i - 1, frames, blocks), blocks, Len(funcs))
  BY CallTypes DEF OwnedNow, Owned
<1>3. OwnerOf(frames[i], blocks)
        = IF frames[i].kind = "func" THEN frames[i].fn ELSE OwnerAt(i - 1, frames, blocks)
  BY <1>2, OwnerGrows, GrowsRefl DEF TypeOK
<1>4. i = Len(frames) => /\ OwnerOf(frames[i], blocks) = contextFunc
                         /\ blocks[contextBlock].fn = contextFunc
                         /\ frames[i] = Top
  BY <1>1, Context
<1>5. CASE b = Returning(i, frames, contextBlock) /\ i = Len(frames)
  BY <1>4, <1>5 DEF Returning
<1>6. CASE b = Returning(i, frames, contextBlock) /\ i # Len(frames)
  <2>1. i + 1 \in 1 .. Len(frames) /\ i + 1 # 0 /\ i + 1 - 1 = i /\ i # 0
    BY <1>1, <1>6
  <2>2. /\ frames[i + 1] \in Frame
        /\ FrameOwned(frames[i + 1], OwnerOf(frames[i], blocks), blocks, Len(funcs))
    BY <2>1, CallTypes DEF OwnedNow, Owned, OwnerAt
  <2>3. CASE frames[i + 1].kind = "func"
    BY <1>1, <1>6, <2>2, <2>3 DEF Returning, FrameOwned, In, NoBlock
  <2>4. CASE frames[i + 1].kind = "switch"
    BY <1>6, <2>2, <2>4 DEF Returning, FrameOwned, In
  <2> QED
    BY <1>1, <1>6, <2>3, <2>4 DEF Returning
<1>7. CASE HeldBy(b, frames[i])
  <2>1. CASE frames[i].kind \in {"if", "for"}
    BY <1>2, <1>3, <1>7, <2>1 DEF HeldBy, FrameOwned, In
  <2>2. CASE frames[i].kind = "switch" /\ b = frames[i].after
    BY <1>2, <1>3, <2>2 DEF FrameOwned, In
  <2>3. CASE frames[i].kind = "switch" /\ \E k \in 1 .. Len(frames[i].cases) : frames[i].cases[k] = b
    <3>1. i = Len(frames)
      <4>1. i \notin 1 .. Len(frames) - 1
        BY <2>3 DEF CallsRight, Nested
      <4> QED
        BY <1>1, <4>1
    <3>2. SwitchAt(frames[i], contextBlock, contextFunc, blocks)
      BY <1>1, <1>4, <3>1 DEF CallsRight
    <3> QED
      BY <1>4, <2>3, <3>1, <3>2 DEF SwitchAt, In
  <2> QED
    BY <1>7, <2>1, <2>2, <2>3 DEF HeldBy
<1> QED
  BY <1>5, <1>6, <1>7

\* So its function is not complete.
LEMMA HolderIncomplete ==
  ASSUME TypeOK, OwnedNow, CallsRight, NEW b \in 1 .. Len(blocks),
         Loose(b, frames, contextBlock) \/ Held(b, frames, contextBlock)
  PROVE  ~ funcs[blocks[b].fn].complete
<1>1. PICK i \in 1 .. Len(frames) :
        b = Returning(i, frames, contextBlock) \/ HeldBy(b, frames[i])
  BY DEF Loose, Held, At
<1>2. PICK m \in 1 .. Len(frames) :
        frames[m].kind = "func" /\ frames[m].fn = OwnerOf(frames[i], blocks)
  BY OwnerOpen
<1>3. frames[m].fn = blocks[b].fn
  BY <1>1, <1>2, HolderOwns
<1> QED
  BY <1>2, <1>3 DEF CallsRight, FuncsOpen

\* A branch stays in its function, although contextCondAfter outlives the function in which
\* it was pushed and condition.go:201 jumps to its top from a function literal, too: for
\* programs of any length, unless control flow stands in a case, or a function with results
\* ends in an if that returns in both its arms.
THEOREM TargetsOwned ==
  ASSUME {"flowInCase", "armsReturn"} \cap Extra = {}
  PROVE  Spec => []OwnTargets
<1>1. "flowInCase" \notin Extra /\ "armsReturn" \notin Extra
  OBVIOUS
<1> DEFINE Inv == TypeOK /\ OwnedNow /\ StacksRight /\ CallsRight /\ OwnRight
<1>2. Init => Inv
  BY InitOwned, InitRight, InitCalls, InitOwn
<1>3. Inv /\ [Next]_vars => Inv'
  BY <1>1, NextOwned, NextRight, NextCalls, NextOwn
<1>4. Inv => OwnTargets
  <2> SUFFICES ASSUME Inv,
                      NEW f \in Completed, NEW b \in BlocksOf(f), NEW i \in DOMAIN blocks[b].term.to
               PROVE  blocks[blocks[b].term.to[i]].fn = f
    BY DEF OwnTargets
  <2>1. b \in 1 .. Len(blocks) /\ blocks[b].fn = f /\ funcs[f].complete
    BY LenProperties DEF BlocksOf, Completed, TypeOK
  <2>2. Aims(blocks[b].term, f, blocks)
    BY <2>1, HolderIncomplete DEF OwnRight
  <2> QED
    BY <2>2 DEF Aims, In
<1> QED
  BY <1>2, <1>3, <1>4, PTL DEF Spec

\* When a function is compiled, each of its blocks has a terminator (the checks of
\* condition.go:181 and :190, the return at func.go:244), for programs of any length, unless the
\* arm of an if ends in a block of its own making, control flow stands in a case, the item
\* of an append makes blocks, or a function with results ends in an if that returns in both
\* its arms.
THEOREM BlocksTerminated ==
  ASSUME {"openBranchEnd", "flowInCase", "blocksInItem", "armsReturn"} \cap Extra = {}
  PROVE  Spec => []Terminated
<1>1. /\ "openBranchEnd" \notin Extra /\ "flowInCase" \notin Extra
      /\ "blocksInItem" \notin Extra /\ "armsReturn" \notin Extra
  OBVIOUS
<1> DEFINE Inv == TypeOK /\ OwnedNow /\ StacksRight /\ CallsRight /\ TermRight
<1>2. Init => Inv
  BY InitOwned, InitRight, InitCalls, InitTerm
<1>3. Inv /\ [Next]_vars => Inv'
  BY <1>1, NextOwned, NextRight, NextCalls, NextTerm
<1>4. Inv => Terminated
  <2> SUFFICES ASSUME Inv, NEW f \in Completed, NEW b \in BlocksOf(f)
               PROVE  blocks[b].term.kind # "none"
    BY DEF Terminated
  <2>1. b \in 1 .. Len(blocks) /\ blocks[b].fn = f /\ funcs[f].complete
    BY LenProperties DEF BlocksOf, Completed, TypeOK
  <2>2. ~ Held(b, frames, contextBlock)
    BY <2>1, HolderIncomplete
  <2>3. ~ (b = 2 /\ MainWaits(frames, funcs))
    BY <2>1 DEF OwnedNow, In, MainWaits
  <2> QED
    BY <2>1, <2>2, <2>3 DEF TermRight
<1> QED
  BY <1>2, <1>3, <1>4, PTL DEF Spec

=============================================================================
