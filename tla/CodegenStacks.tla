--------------------------- MODULE CodegenStacks ---------------------------
(***************************************************************************)
(* Theorems about the context stacks of Codegen: contextFuncRetVals,       *)
(* contextBlockVariables, contextLoopBreak, contextLoopContinue and        *)
(* contextCondAfter.  The inductive invariant is Balanced and OwnEntries   *)
(* together with the types and the ownership of CodegenProofs; the lemma   *)
(* that carries it is that heights only grow from an open call to the      *)
(* calls inside it.                                                        *)
(***************************************************************************)
EXTENDS CodegenProofs

-----------------------------------------------------------------------------
(* Numbers and sequences                                                     *)

\* A set of numbers that is not empty has a least member.
LEMMA Least ==
  ASSUME NEW S \in SUBSET Nat, S # {}
  PROVE  \E m \in S : \A n \in S : m <= n
<1>1. \E m \in S : \A n \in S : ~ (<<n, m>> \in OpToRel(<, Nat))
  BY NatLessThanWellFounded, WFMin
<1>2. \A m, n \in Nat : <<n, m>> \notin OpToRel(<, Nat) => m <= n
  BY DEF OpToRel
<1> QED
  BY <1>1, <1>2

\* t has the first n entries of s.
SameTo(s, t, n) == \A k \in 1 .. n : t[k] = s[k]

\* What Append and Front leave of a stack.
LEMMA SameStacks ==
  ASSUME NEW S, NEW s \in Seq(S)
  PROVE  /\ \A e \in S : /\ SameTo(s, Append(s, e), Len(s))
                         /\ Len(Append(s, e)) = Len(s) + 1
                         /\ Append(s, e)[Len(s) + 1] = e
         /\ s # << >> => /\ SameTo(s, Front(s), Len(s) - 1)
                         /\ Len(Front(s)) = Len(s) - 1
         /\ Len(s) # 0 => s # << >>
<1>1. \A e \in S : /\ SameTo(s, Append(s, e), Len(s))
                   /\ Len(Append(s, e)) = Len(s) + 1
                   /\ Append(s, e)[Len(s) + 1] = e
  BY AppendType DEF SameTo
<1>2. s # << >> => SameTo(s, Front(s), Len(s) - 1) /\ Len(Front(s)) = Len(s) - 1
  BY FrontType DEF SameTo
<1>3. Len(s) # 0 => s # << >>
  BY EmptySeq
<1> QED
  BY <1>1, <1>2, <1>3

-----------------------------------------------------------------------------
(* Heights                                                                   *)

\* The heights at package level: NewCompiler opens one scope.
Base == [rets |-> 0, vars |-> 1, loop |-> 0, cond |-> 0]

\* The heights at the entry of the j-th open call; the heights now, for the call to come.
EntryAt(j) == IF j = Len(frames) + 1 THEN Heights ELSE frames[j].entry

Below(h, k) ==
  h.rets <= k.rets /\ h.vars <= k.vars /\ h.loop <= k.loop /\ h.cond <= k.cond

\* Below is transitive.
LEMMA BelowTrans ==
  ASSUME NEW g \in Height, NEW h \in Height, NEW k \in Height, Below(g, h), Below(h, k)
  PROVE  Below(g, k)
<1>1. /\ g.rets \in Nat /\ g.vars \in Nat /\ g.loop \in Nat /\ g.cond \in Nat
      /\ h.rets \in Nat /\ h.vars \in Nat /\ h.loop \in Nat /\ h.cond \in Nat
      /\ k.rets \in Nat /\ k.vars \in Nat /\ k.loop \in Nat /\ k.cond \in Nat
  BY DEF Height
<1> QED
  BY <1>1 DEF Below

\* The types of the context stacks.
LEMMA StackTypes ==
  ASSUME TypeOK
  PROVE  /\ contextFuncRetVals \in Seq(RetVals) /\ contextBlockVariables \in Seq(Nat)
         /\ contextLoopBreak \in Seq(Block) /\ contextLoopContinue \in Seq(Block)
         /\ contextCondAfter \in Seq(Block)
BY DEF TypeOK

\* The fields of an open call that say what it pushes.
LEMMA CallTypes ==
  ASSUME TypeOK, OwnedNow
  PROVE  /\ Len(frames) \in Nat /\ DOMAIN frames = 1 .. Len(frames)
         /\ \A i \in 1 .. Len(frames) :
              /\ frames[i] \in Frame
              /\ frames[i].entry \in Height
              /\ frames[i].at \in Nat
              /\ frames[i].kind = "func" =>
                   /\ frames[i].fn \in 1 .. Len(funcs)
                   /\ funcs[frames[i].fn].results \in Nat
<1>1. Len(frames) \in Nat /\ DOMAIN frames = 1 .. Len(frames)
  BY LenProperties DEF TypeOK
<1> SUFFICES ASSUME NEW i \in 1 .. Len(frames)
             PROVE  /\ frames[i] \in Frame
                    /\ frames[i].entry \in Height
                    /\ frames[i].at \in Nat
                    /\ frames[i].kind = "func" =>
                         /\ frames[i].fn \in 1 .. Len(funcs)
                         /\ funcs[frames[i].fn].results \in Nat
  BY <1>1
<1>2. frames[i] \in Frame
  BY ElementOfSeq DEF TypeOK
<1>3. frames[i].entry \in Height /\ frames[i].at \in Nat
  BY <1>2 DEF Frame, IfFrame, ForFrame, SwitchFrame, AppendFrame, FuncFrame
<1>4. ASSUME frames[i].kind = "func"
      PROVE  frames[i].fn \in 1 .. Len(funcs) /\ funcs[frames[i].fn].results \in Nat
  <2>1. frames[i].fn \in 1 .. Len(funcs)
    BY <1>4 DEF OwnedNow, Owned, FrameOwned
  <2>2. funcs[frames[i].fn] \in Func
    BY <2>1, ElementOfSeq DEF TypeOK
  <2> QED
    BY <2>1, <2>2 DEF Func
<1> QED
  BY <1>2, <1>3, <1>4

\* What a call pushes is at most one entry on each stack.
LEMMA InsideTypes ==
  ASSUME TypeOK, OwnedNow, NEW i \in 1 .. Len(frames)
  PROVE  /\ Inside(frames[i]) \in Height
         /\ Below(frames[i].entry, Inside(frames[i]))
         /\ frames[i].kind # "for" => Inside(frames[i]).loop = frames[i].entry.loop
         /\ frames[i].kind = "for" => Inside(frames[i]).loop = frames[i].entry.loop + 1
         /\ frames[i].kind # "func" => Inside(frames[i]).rets = frames[i].entry.rets
         /\ frames[i].kind = "if" => /\ Inside(frames[i]).cond = frames[i].entry.cond + 1
                                     /\ Inside(frames[i]).vars = frames[i].entry.vars + 1
         /\ frames[i].kind = "func" =>
              /\ Inside(frames[i]).vars = frames[i].entry.vars + 1
              /\ Inside(frames[i]).rets = frames[i].entry.rets
                   + (IF funcs[frames[i].fn].results > 0 THEN 1 ELSE 0)
<1> DEFINE f == frames[i]
<1>1. f.entry \in Height
  BY CallTypes
<1>2. Inside(f) =
        [rets |-> f.entry.rets + (IF f.kind = "func" /\ funcs[f.fn].results > 0 THEN 1 ELSE 0),
         vars |-> f.entry.vars + (IF f.kind \in {"if", "func"} THEN 1 ELSE 0),
         loop |-> f.entry.loop + (IF f.kind = "for" THEN 1 ELSE 0),
         cond |-> f.entry.cond + (IF f.kind = "if" THEN 1 ELSE 0)]
  BY DEF Inside
<1> HIDE DEF f
<1>3. /\ f.entry.rets \in Nat /\ f.entry.vars \in Nat /\ f.entry.loop \in Nat
      /\ f.entry.cond \in Nat
  BY <1>1 DEF Height
<1>4. /\ Inside(f).rets = f.entry.rets + (IF f.kind = "func" /\ funcs[f.fn].results > 0 THEN 1 ELSE 0)
      /\ Inside(f).vars = f.entry.vars + (IF f.kind \in {"if", "func"} THEN 1 ELSE 0)
      /\ Inside(f).loop = f.entry.loop + (IF f.kind = "for" THEN 1 ELSE 0)
      /\ Inside(f).cond = f.entry.cond + (IF f.kind = "if" THEN 1 ELSE 0)
  BY <1>2
<1>5. Inside(f) \in Height
  BY <1>2, <1>3, SMTT(20) DEF Height
<1>6. Below(f.entry, Inside(f))
  BY <1>3, <1>4 DEF Below
<1>7. /\ f.kind # "for" => Inside(f).loop = f.entry.loop
      /\ f.kind = "for" => Inside(f).loop = f.entry.loop + 1
      /\ f.kind # "func" => Inside(f).rets = f.entry.rets
  BY <1>3, <1>4
<1>8. /\ f.kind = "if" => /\ Inside(f).cond = f.entry.cond + 1
                          /\ Inside(f).vars = f.entry.vars + 1
      /\ f.kind = "func" => /\ Inside(f).vars = f.entry.vars + 1
                            /\ Inside(f).rets = f.entry.rets
                                 + (IF funcs[f.fn].results > 0 THEN 1 ELSE 0)
  BY <1>3, <1>4
<1> QED
  BY <1>5, <1>6, <1>7, <1>8 DEF f

\* Balanced, as a chain of entries.
LEMMA Chain ==
  ASSUME TypeOK, OwnedNow, Balanced
  PROVE  /\ EntryAt(1) = Base
         /\ \A j \in 1 .. Len(frames) + 1 : EntryAt(j) \in Height
         /\ \A j \in 1 .. Len(frames) : EntryAt(j) = frames[j].entry
         /\ \A j \in 1 .. Len(frames) : EntryAt(j + 1) = Inside(frames[j])
<1>1. Len(frames) \in Nat /\ DOMAIN frames = 1 .. Len(frames)
  BY CallTypes
<1>2. \A j \in 1 .. Len(frames) : EntryAt(j) = frames[j].entry
  BY <1>1 DEF EntryAt
<1>3. EntryAt(Len(frames) + 1) = Heights
  BY DEF EntryAt
<1>4. frames = << >> <=> Len(frames) = 0
  BY EmptySeq DEF TypeOK
<1>5. EntryAt(1) = Base
  BY <1>1, <1>2, <1>3, <1>4 DEF Balanced, Base
<1>6. ASSUME NEW j \in 1 .. Len(frames)
      PROVE  EntryAt(j + 1) = Inside(frames[j])
  <2>1. CASE j = Len(frames)
    <3>1. frames # << >> /\ frames \in Seq(Frame)
      BY <2>1, <1>4 DEF TypeOK
    <3>2. Top = frames[j]
      BY <2>1, <3>1, FrontType DEF Top
    <3> QED
      BY <2>1, <3>1, <3>2, <1>3 DEF Balanced
  <2>2. CASE j # Len(frames)
    <3>1. j + 1 \in 1 .. Len(frames) /\ j + 1 # 1 /\ j + 1 - 1 = j
      <4>1. Len(frames) \in Nat
        BY <1>1
      <4> QED
        BY ONLY <4>1, <2>2, j \in 1 .. Len(frames)
    <3> QED
      BY <3>1, <1>1, <1>2 DEF Balanced
  <2> QED
    BY <2>1, <2>2
<1>7. \A j \in 1 .. Len(frames) + 1 : EntryAt(j) \in Height
  <2>1. \A j \in 1 .. Len(frames) : EntryAt(j) \in Height
    BY <1>2, CallTypes
  <2>2. EntryAt(Len(frames) + 1) \in Height
    BY <1>3, Numbers
  <2> QED
    BY <1>1, <2>1, <2>2
<1> QED
  BY <1>2, <1>5, <1>6, <1>7

\* Heights grow from a call to the calls inside it: what a call pushed is below what
\* every later call found.
LEMMA HeightsGrow ==
  ASSUME TypeOK, OwnedNow, Balanced, NEW i \in 1 .. Len(frames), NEW j \in i + 1 .. Len(frames) + 1
  PROVE  Below(Inside(frames[i]), EntryAt(j))
<1> DEFINE U == {k \in i + 1 .. Len(frames) + 1 : ~ Below(Inside(frames[i]), EntryAt(k))}
<1> SUFFICES ASSUME U # {}
             PROVE  FALSE
  OBVIOUS
<1>1. Len(frames) \in Nat
  BY CallTypes
<1>2. PICK k \in U : \A m \in U : k <= m
  <2>1. U \in SUBSET Nat
    BY <1>1
  <2> HIDE DEF U
  <2> QED
    BY <2>1, Least
<1>3. CASE k = i + 1
  <2>1. EntryAt(k) = Inside(frames[i]) /\ Inside(frames[i]) \in Height
    BY <1>3, Chain, InsideTypes
  <2> QED
    BY <2>1 DEF Below, Height
<1>4. CASE k # i + 1
  <2>1. /\ k - 1 \in i + 1 .. Len(frames) + 1
        /\ k - 1 \in 1 .. Len(frames)
        /\ k - 1 + 1 = k
        /\ ~ (k <= k - 1)
    BY <1>1, <1>4
  <2>2. Below(Inside(frames[i]), EntryAt(k - 1))
    BY <1>2, <2>1
  <2>3. /\ EntryAt(k - 1) = frames[k - 1].entry
        /\ EntryAt(k) = Inside(frames[k - 1])
        /\ Below(frames[k - 1].entry, Inside(frames[k - 1]))
        /\ frames[k - 1].entry \in Height
        /\ Inside(frames[k - 1]) \in Height
        /\ Inside(frames[i]) \in Height
    BY <2>1, Chain, InsideTypes, CallTypes
  <2>4. Below(Inside(frames[i]), EntryAt(k))
    BY <2>2, <2>3, BelowTrans
  <2> QED
    BY <2>4
<1> QED
  BY <1>3, <1>4

\* While no loop was opened after call i, the loop stacks are as high as i left them.
LEMMA LoopsBetween ==
  ASSUME TypeOK, OwnedNow, Balanced, NEW i \in 1 .. Len(frames),
         \A k \in i + 1 .. Len(frames) : frames[k].kind # "for"
  PROVE  Len(contextLoopBreak) = Inside(frames[i]).loop
<1> DEFINE U == {k \in i + 1 .. Len(frames) + 1 : EntryAt(k).loop # Inside(frames[i]).loop}
<1>1. Len(frames) \in Nat /\ Len(frames) + 1 \in i + 1 .. Len(frames) + 1
  BY CallTypes
<1>2. U = {}
  <2> SUFFICES ASSUME U # {}
               PROVE  FALSE
    OBVIOUS
  <2>1. PICK k \in U : \A m \in U : k <= m
    <3>1. U \in SUBSET Nat
      BY <1>1
    <3> HIDE DEF U
    <3> QED
      BY <3>1, Least
  <2>2. CASE k = i + 1
    BY <2>1, <2>2, Chain
  <2>3. CASE k # i + 1
    <3>1. /\ k - 1 \in i + 1 .. Len(frames) /\ k - 1 \in i + 1 .. Len(frames) + 1
          /\ k - 1 \in 1 .. Len(frames)
          /\ k - 1 + 1 = k
          /\ ~ (k <= k - 1)
      BY <1>1, <2>3
    <3>2. EntryAt(k - 1).loop = Inside(frames[i]).loop
      BY <2>1, <3>1
    <3>3. EntryAt(k - 1) = frames[k - 1].entry /\ EntryAt(k) = Inside(frames[k - 1])
      BY <3>1, Chain
    <3>4. Inside(frames[k - 1]).loop = frames[k - 1].entry.loop
      BY <3>1, InsideTypes
    <3> QED
      BY <3>2, <3>3, <3>4, <2>1
  <2> QED
    BY <2>2, <2>3
<1>3. EntryAt(Len(frames) + 1).loop = Inside(frames[i]).loop
  BY <1>1, <1>2
<1> QED
  BY <1>3 DEF EntryAt, Heights

\* While no function was entered after call i, the return values are as many as i left.
LEMMA RetsBetween ==
  ASSUME TypeOK, OwnedNow, Balanced, NEW i \in 1 .. Len(frames),
         \A k \in i + 1 .. Len(frames) : frames[k].kind # "func"
  PROVE  Len(contextFuncRetVals) = Inside(frames[i]).rets
<1> DEFINE U == {k \in i + 1 .. Len(frames) + 1 : EntryAt(k).rets # Inside(frames[i]).rets}
<1>1. Len(frames) \in Nat /\ Len(frames) + 1 \in i + 1 .. Len(frames) + 1
  BY CallTypes
<1>2. U = {}
  <2> SUFFICES ASSUME U # {}
               PROVE  FALSE
    OBVIOUS
  <2>1. PICK k \in U : \A m \in U : k <= m
    <3>1. U \in SUBSET Nat
      BY <1>1
    <3> HIDE DEF U
    <3> QED
      BY <3>1, Least
  <2>2. CASE k = i + 1
    BY <2>1, <2>2, Chain
  <2>3. CASE k # i + 1
    <3>1. /\ k - 1 \in i + 1 .. Len(frames) /\ k - 1 \in i + 1 .. Len(frames) + 1
          /\ k - 1 \in 1 .. Len(frames)
          /\ k - 1 + 1 = k
          /\ ~ (k <= k - 1)
      BY <1>1, <2>3
    <3>2. EntryAt(k - 1).rets = Inside(frames[i]).rets
      BY <2>1, <3>1
    <3>3. EntryAt(k - 1) = frames[k - 1].entry /\ EntryAt(k) = Inside(frames[k - 1])
      BY <3>1, Chain
    <3>4. Inside(frames[k - 1]).rets = frames[k - 1].entry.rets
      BY <3>1, InsideTypes
    <3> QED
      BY <3>2, <3>3, <3>4, <2>1
  <2> QED
    BY <2>2, <2>3
<1>3. EntryAt(Len(frames) + 1).rets = Inside(frames[i]).rets
  BY <1>1, <1>2
<1> QED
  BY <1>3 DEF EntryAt, Heights

-----------------------------------------------------------------------------
(* Own entries                                                               *)

\* What OwnEntries says of call f, for any functions and stacks.
FrameEntries(f, fns, rets, vrs, brk, cont, cond) ==
  /\ f.kind = "for"  => brk[f.entry.loop + 1] = f.after /\ cont[f.entry.loop + 1] = f.post
  /\ f.kind = "if"   => cond[f.entry.cond + 1] = f.after /\ vrs[f.entry.vars + 1] = f.at
  /\ f.kind = "func" => /\ vrs[f.entry.vars + 1] = f.at
                        /\ fns[f.fn].results > 0 =>
                             rets[f.entry.rets + 1] = [fn |-> f.fn, n |-> fns[f.fn].results]

\* The entries of call f now.
Entries(f) == FrameEntries(f, funcs, contextFuncRetVals, contextBlockVariables,
                           contextLoopBreak, contextLoopContinue, contextCondAfter)

\* OwnEntries, call by call.
LEMMA OwnEntriesIs == OwnEntries <=> \A i \in DOMAIN frames : Entries(frames[i])
BY DEF OwnEntries, Entries, FrameEntries

\* No function changes its number of results.
ResultsKept == \A k \in 1 .. Len(funcs) : funcs'[k].results = funcs[k].results

\* The stacks keep their entries up to the heights h.
KeptTo(h) ==
  /\ SameTo(contextFuncRetVals, contextFuncRetVals', h.rets)
  /\ SameTo(contextBlockVariables, contextBlockVariables', h.vars)
  /\ SameTo(contextLoopBreak, contextLoopBreak', h.loop)
  /\ SameTo(contextLoopContinue, contextLoopContinue', h.loop)
  /\ SameTo(contextCondAfter, contextCondAfter', h.cond)

\* Inside, for any functions.
InsideOf(f, fns) ==
  [rets |-> f.entry.rets + (IF f.kind = "func" /\ fns[f.fn].results > 0 THEN 1 ELSE 0),
   vars |-> f.entry.vars + (IF f.kind \in {"if", "func"} THEN 1 ELSE 0),
   loop |-> f.entry.loop + (IF f.kind = "for" THEN 1 ELSE 0),
   cond |-> f.entry.cond + (IF f.kind = "if" THEN 1 ELSE 0)]

\* A call pushes the same when functions are added or completed.
LEMMA InsideStays ==
  ASSUME TypeOK, OwnedNow, ResultsKept, NEW i \in 1 .. Len(frames)
  PROVE  InsideOf(frames[i], funcs') = Inside(frames[i])
<1>1. CASE frames[i].kind = "func"
  <2>1. funcs'[frames[i].fn].results = funcs[frames[i].fn].results
    BY <1>1, CallTypes DEF ResultsKept
  <2> QED
    BY <2>1 DEF Inside, InsideOf
<1>2. CASE frames[i].kind # "func"
  BY <1>2 DEF Inside, InsideOf
<1> QED
  BY <1>1, <1>2

\* The entries of call f after a step.
EntriesNext(f) ==
  FrameEntries(f, funcs', contextFuncRetVals', contextBlockVariables',
               contextLoopBreak', contextLoopContinue', contextCondAfter')

\* The entry at a height that is kept.
LEMMA Keeps ==
  ASSUME NEW s, NEW t, NEW n, SameTo(s, t, n), NEW k \in 1 .. n
  PROVE  t[k] = s[k]
BY DEF SameTo

\* The entries of a call, one stack at a time.
LEMMA EntryOf ==
  ASSUME NEW f, Entries(f)
  PROVE  /\ f.kind = "for" => /\ contextLoopBreak[f.entry.loop + 1] = f.after
                              /\ contextLoopContinue[f.entry.loop + 1] = f.post
         /\ f.kind = "if" => contextCondAfter[f.entry.cond + 1] = f.after
         /\ f.kind \in {"if", "func"} => contextBlockVariables[f.entry.vars + 1] = f.at
         /\ f.kind = "func" /\ funcs[f.fn].results > 0 =>
              contextFuncRetVals[f.entry.rets + 1] = [fn |-> f.fn, n |-> funcs[f.fn].results]
BY DEF Entries, FrameEntries

\* A call keeps its entries in a step that keeps the stacks up to what it pushed.
LEMMA EntriesStay ==
  ASSUME TypeOK, OwnedNow, NEW i \in 1 .. Len(frames), Entries(frames[i]), ResultsKept,
         NEW h \in Height, Below(Inside(frames[i]), h), KeptTo(h)
  PROVE  EntriesNext(frames[i])
<1> DEFINE f == frames[i]
<1>1. /\ f.entry.rets \in Nat /\ f.entry.vars \in Nat /\ f.entry.loop \in Nat
      /\ f.entry.cond \in Nat
  BY CallTypes DEF Height
<1>2. /\ h.rets \in Nat /\ h.vars \in Nat /\ h.loop \in Nat /\ h.cond \in Nat
      /\ Inside(f).rets <= h.rets /\ Inside(f).vars <= h.vars
      /\ Inside(f).loop <= h.loop /\ Inside(f).cond <= h.cond
  BY DEF Height, Below
<1>0. /\ f.kind = "for" => Inside(f).loop = f.entry.loop + 1
      /\ f.kind = "if" => Inside(f).cond = f.entry.cond + 1
      /\ f.kind \in {"if", "func"} => Inside(f).vars = f.entry.vars + 1
      /\ f.kind = "func" /\ funcs[f.fn].results > 0 => Inside(f).rets = f.entry.rets + 1
  BY InsideTypes
<1>3. ASSUME f.kind = "for"
      PROVE  /\ contextLoopBreak'[f.entry.loop + 1] = f.after
             /\ contextLoopContinue'[f.entry.loop + 1] = f.post
  <2>1. f.entry.loop + 1 \in 1 .. h.loop
    BY <1>0, <1>1, <1>2, <1>3, SMTT(20)
  <2>2. /\ contextLoopBreak[f.entry.loop + 1] = f.after
        /\ contextLoopContinue[f.entry.loop + 1] = f.post
    BY <1>3, EntryOf
  <2> QED
    BY <2>1, <2>2, Keeps DEF KeptTo
<1>4. ASSUME f.kind = "if"
      PROVE  contextCondAfter'[f.entry.cond + 1] = f.after
  <2>1. f.entry.cond + 1 \in 1 .. h.cond
    BY <1>0, <1>1, <1>2, <1>4, SMTT(20)
  <2>2. contextCondAfter[f.entry.cond + 1] = f.after
    BY <1>4, EntryOf
  <2> QED
    BY <2>1, <2>2, Keeps DEF KeptTo
<1>5. ASSUME f.kind \in {"if", "func"}
      PROVE  contextBlockVariables'[f.entry.vars + 1] = f.at
  <2>1. f.entry.vars + 1 \in 1 .. h.vars
    BY <1>0, <1>1, <1>2, <1>5, SMTT(20)
  <2>2. contextBlockVariables[f.entry.vars + 1] = f.at
    BY <1>5, EntryOf
  <2> QED
    BY <2>1, <2>2, Keeps DEF KeptTo
<1>6. ASSUME f.kind = "func", funcs'[f.fn].results > 0
      PROVE  contextFuncRetVals'[f.entry.rets + 1] = [fn |-> f.fn, n |-> funcs'[f.fn].results]
  <2>1. funcs'[f.fn].results = funcs[f.fn].results
    BY <1>6, CallTypes DEF ResultsKept
  <2>2. f.entry.rets + 1 \in 1 .. h.rets
    BY <1>0, <1>1, <1>2, <1>6, <2>1, SMTT(20)
  <2>3. contextFuncRetVals[f.entry.rets + 1] = [fn |-> f.fn, n |-> funcs[f.fn].results]
    BY <1>6, <2>1, EntryOf
  <2> QED
    BY <2>1, <2>2, <2>3, Keeps DEF KeptTo
<1> QED
  BY <1>3, <1>4, <1>5, <1>6 DEF EntriesNext, FrameEntries

-----------------------------------------------------------------------------
(* Steps: what an action has to show, by what it does to the stacks          *)

\* The inductive invariant of this module.
StacksRight == Balanced /\ OwnEntries /\ funcs[Main].results = 0

\* main stays a function without results.
LEMMA MainStays ==
  ASSUME TypeOK, OwnedNow, StacksRight, ResultsKept
  PROVE  funcs'[Main].results = 0
<1>1. Main \in 1 .. Len(funcs)
  BY Numbers DEF Main
<1> QED
  BY <1>1 DEF ResultsKept, StacksRight

\* A call may be made if its entry is the heights now and it pushes what it says.
LEMMA PushRight ==
  ASSUME TypeOK, OwnedNow, StacksRight, ResultsKept,
         NEW f \in Frame, f.entry = Heights, frames' = Append(frames, f),
         KeptTo(Heights),
         Heights' = InsideOf(f, funcs'),
         Len(contextLoopContinue') = Len(contextLoopBreak'),
         EntriesNext(f)
  PROVE  StacksRight'
<1>1. /\ Len(frames) \in Nat /\ Len(frames') = Len(frames) + 1
      /\ \A i \in 1 .. Len(frames) : frames'[i] = frames[i]
      /\ frames'[Len(frames) + 1] = f
      /\ Last(frames') = f /\ frames' # << >>
      /\ DOMAIN frames' = 1 .. Len(frames) + 1
  <2>1. frames \in Seq(Frame) /\ frames' \in Seq(Frame) /\ Len(frames) \in Nat
    BY AppendType, CallTypes DEF TypeOK
  <2> QED
    BY <2>1, AppendType
<1>2. \A i \in 1 .. Len(frames) : InsideOf(frames'[i], funcs') = Inside(frames[i])
  BY <1>1, InsideStays
<1>3. ASSUME NEW i \in 1 .. Len(frames) + 1
      PROVE  frames'[i].entry = IF i = 1 THEN Base ELSE InsideOf(frames'[i - 1], funcs')
  <2>1. frames'[i].entry = EntryAt(i)
    <3>1. CASE i \in 1 .. Len(frames)
      BY <3>1, <1>1, Chain DEF StacksRight
    <3>2. CASE i = Len(frames) + 1
      BY <3>2, <1>1 DEF EntryAt
    <3> QED
      BY <3>1, <3>2, <1>1
  <2>2. CASE i = 1
    BY <2>1, <2>2, Chain DEF StacksRight
  <2>3. CASE i # 1
    <3>1. i - 1 \in 1 .. Len(frames) /\ i - 1 + 1 = i
      BY <1>1, <2>3
    <3> QED
      BY <2>1, <2>3, <3>1, <1>2, Chain DEF StacksRight
  <2> QED
    BY <2>2, <2>3
<1>4. Balanced'
  BY <1>1, <1>3, ZenonT(40) DEF Balanced, Base, Inside, InsideOf, Top
<1>5. ASSUME NEW i \in 1 .. Len(frames) + 1
      PROVE  EntriesNext(frames'[i])
  <2>1. CASE i \in 1 .. Len(frames)
    <3>1. Below(Inside(frames[i]), Heights)
      <4>1. Len(frames) + 1 \in i + 1 .. Len(frames) + 1
        BY <1>1, <2>1
      <4>2. Below(Inside(frames[i]), EntryAt(Len(frames) + 1))
        BY <2>1, <4>1, HeightsGrow DEF StacksRight
      <4> QED
        BY <4>2 DEF EntryAt
    <3>2. Entries(frames[i]) /\ Heights \in Height
      BY <2>1, OwnEntriesIs, Numbers, CallTypes DEF StacksRight
    <3> QED
      BY <1>1, <2>1, <3>1, <3>2, EntriesStay
  <2>2. CASE i = Len(frames) + 1
    BY <2>2, <1>1
  <2> QED
    BY <2>1, <2>2, <1>1
<1>6. OwnEntries'
  BY <1>1, <1>5 DEF OwnEntries, EntriesNext, FrameEntries
<1> QED
  BY <1>4, <1>6, MainStays DEF StacksRight

\* A call may return if it leaves the stacks as high as it found them.
LEMMA PopRight ==
  ASSUME TypeOK, OwnedNow, StacksRight, ResultsKept,
         frames # << >>, frames' = Front(frames),
         Heights' = Top.entry,
         KeptTo(Top.entry),
         Len(contextLoopContinue') = Len(contextLoopBreak')
  PROVE  StacksRight'
<1> DEFINE n == Len(frames)
<1>1. /\ n \in Nat \ {0} /\ Len(frames') = n - 1
      /\ \A i \in 1 .. n - 1 : frames'[i] = frames[i]
      /\ frames' \in Seq(Frame)
      /\ DOMAIN frames' = 1 .. n - 1
      /\ Top = frames[n]
  <2>1. frames \in Seq(Frame) /\ frames' \in Seq(Frame)
    BY FrontType DEF TypeOK
  <2>2. Len(frames') = n - 1 /\ DOMAIN frames' = 1 .. Len(frames')
    BY <2>1, FrontType, LenProperties
  <2> QED
    BY <2>1, <2>2, FrontType DEF Top
<1> HIDE DEF n
<1>2. \A i \in 1 .. n - 1 : InsideOf(frames'[i], funcs') = Inside(frames[i])
  BY <1>1, InsideStays DEF n
<1>3. ASSUME NEW i \in 1 .. n
      PROVE  EntryAt(i) = IF i = 1 THEN Base ELSE InsideOf(frames'[i - 1], funcs')
  <2>1. CASE i = 1
    BY <2>1, Chain DEF StacksRight
  <2>2. CASE i # 1
    <3>1. i - 1 \in 1 .. n - 1 /\ i - 1 \in 1 .. n /\ i - 1 + 1 = i
      BY <1>1, <2>2
    <3> QED
      BY <2>2, <3>1, <1>2, Chain DEF StacksRight, n
  <2> QED
    BY <2>1, <2>2
<1>4. \A i \in 1 .. n - 1 : frames'[i].entry = EntryAt(i)
  BY <1>1, Chain DEF StacksRight, n
<1>5. Heights' = EntryAt(n)
  BY <1>1, Chain DEF StacksRight, n
<1>6. Balanced'
  <2>1. \A i \in 1 .. n - 1 :
          frames'[i].entry = IF i = 1 THEN Base ELSE InsideOf(frames'[i - 1], funcs')
    BY <1>1, <1>3, <1>4
  <2>2. Heights' = IF frames' = << >> THEN Base ELSE InsideOf(Last(frames'), funcs')
    <3>1. CASE n = 1
      <4>1. frames' = << >>
        BY <1>1, <3>1, EmptySeq
      <4> QED
        BY <1>3, <1>5, <3>1, <4>1
    <3>2. CASE n # 1
      <4>1. frames' # << >>
        BY <1>1, <3>2, EmptySeq
      <4>2. Last(frames') = frames'[n - 1]
        BY <1>1, <4>1, FrontType
      <4>3. n \in 1 .. n
        BY <1>1
      <4> QED
        BY <1>3, <1>5, <3>2, <4>1, <4>2, <4>3
    <3> QED
      BY <3>1, <3>2
  <2> QED
    BY <1>1, <2>1, <2>2 DEF Balanced, Base, Inside, InsideOf, Top
<1>7. ASSUME NEW i \in 1 .. n - 1
      PROVE  EntriesNext(frames'[i])
  <2>1. i \in 1 .. n /\ n \in i + 1 .. n + 1 /\ n \in 1 .. n
    BY <1>1
  <2>2. Below(Inside(frames[i]), Top.entry) /\ Top.entry \in Height
    BY <2>1, <1>1, HeightsGrow, Chain, CallTypes DEF StacksRight, n
  <2>3. Entries(frames[i])
    BY <2>1, OwnEntriesIs, CallTypes DEF StacksRight, n
  <2> QED
    BY <1>1, <2>1, <2>2, <2>3, EntriesStay DEF n
<1>8. OwnEntries'
  BY <1>1, <1>7 DEF OwnEntries, EntriesNext, FrameEntries
<1> QED
  BY <1>6, <1>8, MainStays DEF StacksRight

\* f and g are the same call, but for local variables that are not on the stacks.
SameCall(f, g) ==
  /\ g.kind = f.kind /\ g.entry = f.entry /\ g.at = f.at
  /\ f.kind \in {"if", "for"} => g.after = f.after
  /\ f.kind = "for" => g.post = f.post
  /\ f.kind = "func" => g.fn = f.fn

\* A step that neither makes a call nor returns from one leaves the stacks alone.
LEMMA StayRight ==
  ASSUME TypeOK, OwnedNow, StacksRight, ResultsKept, UNCHANGED stacks,
         DOMAIN frames' = DOMAIN frames, frames' # << >> <=> frames # << >>,
         Len(frames') = Len(frames),
         \A i \in DOMAIN frames : SameCall(frames[i], frames'[i])
  PROVE  StacksRight'
<1> DEFINE n == Len(frames)
<1>1. n \in Nat /\ DOMAIN frames = 1 .. n /\ (frames = << >> <=> n = 0)
  BY CallTypes, EmptySeq DEF TypeOK
<1>2. ASSUME NEW i \in 1 .. n
      PROVE  InsideOf(frames'[i], funcs') = Inside(frames[i])
  <2>1. InsideOf(frames[i], funcs') = Inside(frames[i])
    BY InsideStays
  <2>2. SameCall(frames[i], frames'[i])
    BY <1>1
  <2> QED
    BY <2>1, <2>2 DEF InsideOf, SameCall
<1>3. UNCHANGED <<Heights, contextFuncRetVals, contextBlockVariables, contextLoopBreak,
                  contextLoopContinue, contextCondAfter>>
  BY DEF stacks, Heights
<1>4. Balanced'
  <2>1. ASSUME NEW i \in 1 .. n
        PROVE  frames'[i].entry = IF i = 1 THEN Base ELSE InsideOf(frames'[i - 1], funcs')
    <3>1. frames'[i].entry = frames[i].entry
      BY <1>1 DEF SameCall
    <3>2. i # 1 => i - 1 \in 1 .. n
      BY <1>1
    <3>3. frames[i].entry = IF i = 1 THEN Base ELSE Inside(frames[i - 1])
      BY <1>1 DEF StacksRight, Balanced, Base
    <3> QED
      BY <3>1, <3>2, <3>3, <1>2
  <2>2. Heights' = IF frames' = << >> THEN Base ELSE InsideOf(Last(frames'), funcs')
    <3>1. Heights = IF frames = << >> THEN Base ELSE Inside(Top)
      BY DEF StacksRight, Balanced, Base
    <3>2. frames # << >> => Top = frames[n] /\ Last(frames') = frames'[n] /\ n \in 1 .. n
      BY <1>1 DEF Top, Last
    <3> QED
      BY <3>1, <3>2, <1>2, <1>3
  <2>3. Len(contextLoopContinue') = Len(contextLoopBreak')
    BY <1>3 DEF StacksRight, Balanced
  <2> QED
    BY <1>1, <2>1, <2>2, <2>3 DEF Balanced, Base, Inside, InsideOf, Top
<1>5. ASSUME NEW i \in 1 .. n
      PROVE  EntriesNext(frames'[i])
  <2>1. SameCall(frames[i], frames'[i]) /\ Entries(frames[i])
    BY <1>1, OwnEntriesIs DEF StacksRight
  <2>2. frames[i].kind = "func" => funcs'[frames[i].fn].results = funcs[frames[i].fn].results
    BY CallTypes DEF ResultsKept
  <2> QED
    BY <1>3, <2>1, <2>2 DEF SameCall, EntriesNext, Entries, FrameEntries
<1>6. OwnEntries'
  BY <1>1, <1>5 DEF OwnEntries, EntriesNext, FrameEntries
<1> QED
  BY <1>4, <1>6, MainStays DEF StacksRight

\* A step within the innermost call that keeps the functions.
LEMMA StraightRight ==
  ASSUME TypeOK, OwnedNow, StacksRight, UNCHANGED <<funcs, stacks, frames>>
  PROVE  StacksRight'
BY StayRight DEF ResultsKept, SameCall

\* A step between two bodies of the innermost call.
LEMMA GoOnRight ==
  ASSUME TypeOK, OwnedNow, StacksRight, UNCHANGED <<funcs, stacks>>, frames # << >>,
         NEW g \in Frame, SameCall(Top, g), frames' = [frames EXCEPT ![Len(frames)] = g]
  PROVE  StacksRight'
<1>1. /\ frames \in Seq(Frame) /\ Len(frames) \in 1 .. Len(frames)
      /\ Top = frames[Len(frames)] /\ DOMAIN frames = 1 .. Len(frames)
  BY Context, CallTypes DEF TypeOK
<1>2. /\ frames' \in Seq(Frame) /\ Len(frames') = Len(frames)
      /\ DOMAIN frames' = DOMAIN frames
      /\ \A i \in DOMAIN frames : frames'[i] = IF i = Len(frames) THEN g ELSE frames[i]
  BY <1>1, ExceptSeq
<1>3. frames' # << >>
  BY <1>1, <1>2, EmptySeq
<1>4. \A i \in DOMAIN frames : SameCall(frames[i], frames'[i])
  BY <1>1, <1>2 DEF SameCall
<1>5. ResultsKept
  BY DEF ResultsKept
<1> QED
  BY <1>2, <1>3, <1>4, <1>5, StayRight

\* The stacks are kept to the heights now when they are not touched.
LEMMA KeptAll ==
  ASSUME TypeOK, UNCHANGED stacks
  PROVE  KeptTo(Heights) /\ Heights' = Heights
BY DEF KeptTo, SameTo, stacks, Heights

\* An append or a switch begins: no stack is touched.
LEMMA OpenRight ==
  ASSUME TypeOK, OwnedNow, StacksRight, UNCHANGED <<funcs, stacks>>,
         NEW f \in Frame, f.kind \in {"append", "switch"}, f.entry = Heights,
         frames' = Append(frames, f)
  PROVE  StacksRight'
<1>1. KeptTo(Heights) /\ Heights' = Heights
  BY KeptAll
<1>2. Heights' = InsideOf(f, funcs')
  <2>1. Heights = [rets |-> Heights.rets + 0, vars |-> Heights.vars + 0,
                   loop |-> Heights.loop + 0, cond |-> Heights.cond + 0]
    BY Numbers DEF Heights, Height
  <2> QED
    BY <1>1, <2>1 DEF InsideOf
<1>3. Len(contextLoopContinue') = Len(contextLoopBreak')
  BY DEF stacks, StacksRight, Balanced
<1>4. EntriesNext(f)
  BY DEF EntriesNext, FrameEntries
<1>5. ResultsKept
  BY DEF ResultsKept
<1> QED
  BY <1>1, <1>2, <1>3, <1>4, <1>5, PushRight

\* The heights now are what the innermost call pushed.
LEMMA TopHeights ==
  ASSUME TypeOK, OwnedNow, StacksRight, frames # << >>
  PROVE  /\ Len(frames) \in 1 .. Len(frames)
         /\ Top = frames[Len(frames)]
         /\ Heights = Inside(Top)
         /\ Top.entry \in Height
         /\ Top.entry = [rets |-> Top.entry.rets, vars |-> Top.entry.vars,
                         loop |-> Top.entry.loop, cond |-> Top.entry.cond]
<1>1. Len(frames) \in 1 .. Len(frames) /\ Top = frames[Len(frames)]
  BY Context
<1>2. Top.entry \in Height
  BY <1>1, CallTypes
<1> QED
  BY <1>1, <1>2 DEF StacksRight, Balanced, Height

\* An append or a switch ends: no stack is touched.
LEMMA CloseRight ==
  ASSUME TypeOK, OwnedNow, StacksRight, UNCHANGED <<funcs, stacks>>, frames # << >>,
         Top.kind \in {"append", "switch"}, frames' = Front(frames)
  PROVE  StacksRight'
<1>1. KeptTo(Heights) /\ Heights' = Heights
  BY KeptAll
<1>2. Heights = Top.entry
  <2>1. Heights = Inside(Top) /\ Top.entry \in Height
    BY TopHeights
  <2>2. Inside(Top) = [rets |-> Top.entry.rets + 0, vars |-> Top.entry.vars + 0,
                       loop |-> Top.entry.loop + 0, cond |-> Top.entry.cond + 0]
    BY DEF Inside
  <2> HIDE DEF Top
  <2> QED
    BY <2>1, <2>2 DEF Height
<1>3. Len(contextLoopContinue') = Len(contextLoopBreak')
  BY DEF stacks, StacksRight, Balanced
<1>4. ResultsKept
  BY DEF ResultsKept
<1> QED
  BY <1>1, <1>2, <1>3, <1>4, PopRight

-----------------------------------------------------------------------------
(* The actions                                                               *)

\* BeginIf pushes a scope and the after block (condition.go:160-181).
LEMMA BeginIfRight ==
  ASSUME TypeOK, OwnedNow, StacksRight, NEW hasElse \in BOOLEAN, BeginIf(hasElse)
  PROVE  StacksRight'
<1> DEFINE f == [kind |-> "if", at |-> Here, entry |-> Heights, hasElse |-> hasElse,
                 arm |-> "true", tru |-> Fresh(2),
                 fls |-> IF hasElse THEN Fresh(3) ELSE Fresh(1), after |-> Fresh(1)]
<1>1. /\ frames' = Append(frames, f)
      /\ contextCondAfter' = Append(contextCondAfter, Fresh(1))
      /\ contextBlockVariables' = Append(contextBlockVariables, Here)
      /\ UNCHANGED <<funcs, contextFuncRetVals, contextLoopBreak, contextLoopContinue>>
  BY DEF BeginIf
<1>2. /\ Here \in Nat /\ Heights \in Height
      /\ Fresh(1) \in Block /\ Fresh(2) \in Block /\ Fresh(3) \in Block
  BY Numbers
<1>3. f \in Frame /\ f.kind = "if" /\ f.entry = Heights /\ f.at = Here /\ f.after = Fresh(1)
  BY <1>2 DEF Frame, IfFrame
<1> HIDE DEF f
<1>4. /\ SameTo(contextCondAfter, contextCondAfter', Len(contextCondAfter))
      /\ Len(contextCondAfter') = Len(contextCondAfter) + 1
      /\ contextCondAfter'[Len(contextCondAfter) + 1] = Fresh(1)
  BY <1>1, <1>2, SameStacks DEF TypeOK
<1>5. /\ SameTo(contextBlockVariables, contextBlockVariables', Len(contextBlockVariables))
      /\ Len(contextBlockVariables') = Len(contextBlockVariables) + 1
      /\ contextBlockVariables'[Len(contextBlockVariables) + 1] = Here
  BY <1>1, <1>2, SameStacks DEF TypeOK
<1>6. KeptTo(Heights)
  BY <1>1, <1>4, <1>5 DEF KeptTo, Heights, SameTo
<1>7. Heights' = InsideOf(f, funcs')
  <2>1. Heights.rets \in Nat /\ Heights.loop \in Nat
    BY <1>2 DEF Height
  <2> QED
    BY <1>1, <1>3, <1>4, <1>5, <2>1 DEF Heights, InsideOf
<1>8. Len(contextLoopContinue') = Len(contextLoopBreak')
  BY <1>1 DEF StacksRight, Balanced
<1>9. EntriesNext(f)
  BY <1>3, <1>4, <1>5 DEF EntriesNext, FrameEntries, Heights
<1>10. ResultsKept
  BY <1>1 DEF ResultsKept
<1> QED
  BY <1>1, <1>3, <1>6, <1>7, <1>8, <1>9, <1>10, PushRight

\* EndIf pops both (condition.go:190-205).
LEMMA EndIfRight ==
  ASSUME TypeOK, OwnedNow, StacksRight, EndIf
  PROVE  StacksRight'
<1>1. /\ frames # << >> /\ Top.kind = "if" /\ frames' = Front(frames)
      /\ contextCondAfter' = Front(contextCondAfter)
      /\ contextBlockVariables' = Front(contextBlockVariables)
      /\ UNCHANGED <<funcs, contextFuncRetVals, contextLoopBreak, contextLoopContinue>>
  BY DEF EndIf, Open
<1>2. /\ Heights = [rets |-> Top.entry.rets + 0, vars |-> Top.entry.vars + 1,
                    loop |-> Top.entry.loop + 0, cond |-> Top.entry.cond + 1]
      /\ Top.entry \in Height
      /\ Top.entry = [rets |-> Top.entry.rets, vars |-> Top.entry.vars,
                      loop |-> Top.entry.loop, cond |-> Top.entry.cond]
  BY <1>1, TopHeights DEF Inside
<1> DEFINE e == Top.entry
<1>3. /\ e.rets \in Nat /\ e.vars \in Nat /\ e.loop \in Nat /\ e.cond \in Nat
      /\ Len(contextFuncRetVals) = e.rets /\ Len(contextBlockVariables) = e.vars + 1
      /\ Len(contextLoopBreak) = e.loop /\ Len(contextCondAfter) = e.cond + 1
  BY <1>2 DEF Height, Heights
<1>4. /\ SameTo(contextCondAfter, contextCondAfter', e.cond)
      /\ Len(contextCondAfter') = e.cond
  <2>1. contextCondAfter \in Seq(Block) /\ Len(contextCondAfter) # 0
    BY <1>3, StackTypes
  <2>2. Len(contextCondAfter) - 1 = e.cond
    BY <1>3
  <2> QED
    BY <1>1, <2>1, <2>2, SameStacks
<1>5. /\ SameTo(contextBlockVariables, contextBlockVariables', e.vars)
      /\ Len(contextBlockVariables') = e.vars
  <2>1. contextBlockVariables \in Seq(Nat) /\ Len(contextBlockVariables) # 0
    BY <1>3, StackTypes
  <2>2. Len(contextBlockVariables) - 1 = e.vars
    BY <1>3
  <2> QED
    BY <1>1, <2>1, <2>2, SameStacks
<1> HIDE DEF e
<1>6. Heights' = Top.entry
  BY <1>1, <1>2, <1>3, <1>4, <1>5 DEF Heights, e
<1>7. KeptTo(Top.entry)
  BY <1>1, <1>4, <1>5 DEF KeptTo, SameTo, e
<1>8. Len(contextLoopContinue') = Len(contextLoopBreak')
  BY <1>1 DEF StacksRight, Balanced
<1>9. ResultsKept
  BY <1>1 DEF ResultsKept
<1> QED
  BY <1>1, <1>6, <1>7, <1>8, <1>9, PopRight

\* BeginFor pushes what a break and a continue jump to (for.go:34-36).
LEMMA BeginForRight ==
  ASSUME TypeOK, OwnedNow, StacksRight, NEW form, BeginFor(form)
  PROVE  StacksRight'
<1> DEFINE f == [kind |-> "for", at |-> Here, entry |-> Heights,
                 cond |-> Fresh(1), post |-> Fresh(3), after |-> Fresh(4)]
<1>1. /\ frames' = Append(frames, f)
      /\ contextLoopBreak' = Append(contextLoopBreak, Fresh(4))
      /\ contextLoopContinue' = Append(contextLoopContinue, Fresh(3))
      /\ UNCHANGED <<funcs, contextFuncRetVals, contextBlockVariables, contextCondAfter>>
  BY DEF BeginFor, PushLoop
<1>2. /\ Here \in Nat /\ Heights \in Height
      /\ Fresh(1) \in Block /\ Fresh(3) \in Block /\ Fresh(4) \in Block
  BY Numbers, SMTT(20)
<1>3. f \in Frame /\ f.kind = "for" /\ f.entry = Heights /\ f.post = Fresh(3) /\ f.after = Fresh(4)
  BY <1>2 DEF Frame, ForFrame
<1> HIDE DEF f
<1>4. /\ SameTo(contextLoopBreak, contextLoopBreak', Len(contextLoopBreak))
      /\ Len(contextLoopBreak') = Len(contextLoopBreak) + 1
      /\ contextLoopBreak'[Len(contextLoopBreak) + 1] = Fresh(4)
  BY <1>1, <1>2, SameStacks DEF TypeOK
<1>5. /\ SameTo(contextLoopContinue, contextLoopContinue', Len(contextLoopContinue))
      /\ Len(contextLoopContinue') = Len(contextLoopContinue) + 1
      /\ contextLoopContinue'[Len(contextLoopContinue) + 1] = Fresh(3)
  BY <1>1, <1>2, SameStacks DEF TypeOK
<1>6. Len(contextLoopContinue) = Len(contextLoopBreak)
  BY DEF StacksRight, Balanced
<1>7. KeptTo(Heights)
  BY <1>1, <1>4, <1>5, <1>6 DEF KeptTo, Heights, SameTo
<1>8. Heights' = InsideOf(f, funcs')
  <2>1. Heights.rets \in Nat /\ Heights.vars \in Nat /\ Heights.cond \in Nat
    BY <1>2 DEF Height
  <2> QED
    BY <1>1, <1>3, <1>4, <2>1 DEF Heights, InsideOf
<1>9. EntriesNext(f)
  BY <1>3, <1>4, <1>5, <1>6 DEF EntriesNext, FrameEntries, Heights
<1>10. ResultsKept
  BY <1>1 DEF ResultsKept
<1> QED
  BY <1>1, <1>3, <1>4, <1>5, <1>6, <1>7, <1>8, <1>9, <1>10, PushRight

\* EndFor pops both (for.go:59-61).
LEMMA EndForRight ==
  ASSUME TypeOK, OwnedNow, StacksRight, EndFor
  PROVE  StacksRight'
<1>1. /\ frames # << >> /\ Top.kind = "for" /\ frames' = Front(frames)
      /\ contextLoopBreak' = Front(contextLoopBreak)
      /\ contextLoopContinue' = Front(contextLoopContinue)
      /\ UNCHANGED <<funcs, contextFuncRetVals, contextBlockVariables, contextCondAfter>>
  BY DEF EndFor, Open, PopLoop
<1>2. /\ Heights = [rets |-> Top.entry.rets + 0, vars |-> Top.entry.vars + 0,
                    loop |-> Top.entry.loop + 1, cond |-> Top.entry.cond + 0]
      /\ Top.entry \in Height
      /\ Top.entry = [rets |-> Top.entry.rets, vars |-> Top.entry.vars,
                      loop |-> Top.entry.loop, cond |-> Top.entry.cond]
  BY <1>1, TopHeights DEF Inside
<1> DEFINE e == Top.entry
<1>3. /\ e.rets \in Nat /\ e.vars \in Nat /\ e.loop \in Nat /\ e.cond \in Nat
      /\ Len(contextFuncRetVals) = e.rets /\ Len(contextBlockVariables) = e.vars
      /\ Len(contextLoopBreak) = e.loop + 1 /\ Len(contextCondAfter) = e.cond
  BY <1>2 DEF Height, Heights
<1>4. /\ SameTo(contextLoopBreak, contextLoopBreak', e.loop)
      /\ Len(contextLoopBreak') = e.loop
  <2>1. contextLoopBreak \in Seq(Block) /\ Len(contextLoopBreak) # 0
    BY <1>3, StackTypes
  <2>2. Len(contextLoopBreak) - 1 = e.loop
    BY <1>3
  <2> QED
    BY <1>1, <2>1, <2>2, SameStacks
<1>5. /\ SameTo(contextLoopContinue, contextLoopContinue', e.loop)
      /\ Len(contextLoopContinue') = e.loop
  <2>1. Len(contextLoopContinue) = Len(contextLoopBreak)
    BY DEF StacksRight, Balanced
  <2>2. contextLoopContinue \in Seq(Block) /\ Len(contextLoopContinue) # 0
    BY <1>3, <2>1, StackTypes
  <2>3. Len(contextLoopContinue) - 1 = e.loop
    BY <1>3, <2>1
  <2> QED
    BY <1>1, <2>2, <2>3, SameStacks
<1> HIDE DEF e
<1>6. Heights' = Top.entry
  BY <1>1, <1>2, <1>3, <1>4 DEF Heights, e
<1>7. KeptTo(Top.entry)
  BY <1>1, <1>4, <1>5 DEF KeptTo, SameTo, e
<1>8. ResultsKept
  BY <1>1 DEF ResultsKept
<1> QED
  BY <1>1, <1>4, <1>5, <1>6, <1>7, <1>8, PopRight

\* EnterFunc pushes a scope, and the return values of a function with results
\* (func.go:169-185, :228-238).
LEMMA EnterRight ==
  ASSUME TypeOK, OwnedNow, StacksRight, ResultsKept,
         NEW f \in Nat \ {0}, NEW entry, NEW results \in Nat, EnterFunc(f, entry, results),
         funcs'[f].results = results
  PROVE  StacksRight'
<1> DEFINE g == [kind |-> "func", at |-> Here, entry |-> Heights, fn |-> f,
                 prevFunc |-> contextFunc, prevBlock |-> contextBlock]
           r == [fn |-> f, n |-> results]
<1>1. /\ frames' = Append(frames, g)
      /\ contextBlockVariables' = Append(contextBlockVariables, Here)
      /\ contextFuncRetVals' = IF results > 0 THEN Append(contextFuncRetVals, r)
                                              ELSE contextFuncRetVals
      /\ UNCHANGED <<contextLoopBreak, contextLoopContinue, contextCondAfter>>
  BY DEF EnterFunc, PushRetVals
<1>2. Here \in Nat /\ Heights \in Height
  BY Numbers
<1>3. g \in Frame /\ g.kind = "func" /\ g.entry = Heights /\ g.at = Here /\ g.fn = f
  BY <1>2 DEF Frame, FuncFrame, TypeOK
<1>4. results > 0 => r \in RetVals
  BY DEF RetVals
<1> HIDE DEF g
<1>5. /\ SameTo(contextBlockVariables, contextBlockVariables', Len(contextBlockVariables))
      /\ Len(contextBlockVariables') = Len(contextBlockVariables) + 1
      /\ contextBlockVariables'[Len(contextBlockVariables) + 1] = Here
  BY <1>1, <1>2, SameStacks DEF TypeOK
<1>6. /\ SameTo(contextFuncRetVals, contextFuncRetVals', Len(contextFuncRetVals))
      /\ Len(contextFuncRetVals') = Len(contextFuncRetVals) + (IF results > 0 THEN 1 ELSE 0)
      /\ results > 0 => contextFuncRetVals'[Len(contextFuncRetVals) + 1] = r
  <2>1. contextFuncRetVals \in Seq(RetVals) /\ Len(contextFuncRetVals) \in Nat
    BY LenProperties DEF TypeOK
  <2>2. CASE results > 0
    <3> HIDE DEF r
    <3> QED
      BY <1>1, <1>4, <2>1, <2>2, SameStacks
  <2>3. CASE ~ (results > 0)
    BY <1>1, <2>1, <2>3 DEF SameTo
  <2> QED
    BY <2>2, <2>3
<1>7. KeptTo(Heights)
  BY <1>1, <1>5, <1>6 DEF KeptTo, Heights, SameTo
<1>8. Heights' = InsideOf(g, funcs')
  <2>1. Heights.loop \in Nat /\ Heights.cond \in Nat
    BY <1>2 DEF Height
  <2>2. Heights' = [rets |-> Heights.rets + (IF results > 0 THEN 1 ELSE 0),
                    vars |-> Heights.vars + 1,
                    loop |-> Heights.loop, cond |-> Heights.cond]
    BY <1>1, <1>5, <1>6 DEF Heights
  <2>3. InsideOf(g, funcs') = [rets |-> Heights.rets + (IF results > 0 THEN 1 ELSE 0),
                               vars |-> Heights.vars + 1,
                               loop |-> Heights.loop + 0, cond |-> Heights.cond + 0]
    BY <1>3 DEF InsideOf
  <2> QED
    BY <2>1, <2>2, <2>3
<1>9. Len(contextLoopContinue') = Len(contextLoopBreak')
  BY <1>1 DEF StacksRight, Balanced
<1>10. EntriesNext(g)
  BY <1>3, <1>5, <1>6 DEF EntriesNext, FrameEntries, Heights
<1> QED
  BY <1>1, <1>3, <1>7, <1>8, <1>9, <1>10, PushRight

\* BeginMain enters a function without results.
LEMMA BeginMainRight ==
  ASSUME TypeOK, OwnedNow, StacksRight, BeginMain
  PROVE  StacksRight'
<1>1. funcs' = [funcs EXCEPT ![Main].at = Here] /\ EnterFunc(Main, 2, 0)
  BY DEF BeginMain
<1>2. /\ Main \in 1 .. Len(funcs) /\ Main \in Nat \ {0} /\ 0 \in Nat
      /\ funcs \in Seq(Func)
  BY Numbers DEF Main, TypeOK
<1>3. \A k \in 1 .. Len(funcs) : funcs'[k].results = funcs[k].results
  <2> TAKE k \in 1 .. Len(funcs)
  <2>1. funcs[k] \in Func
    BY <1>2, ElementOfSeq
  <2>2. DOMAIN funcs = 1 .. Len(funcs)
    BY <1>2, LenProperties
  <2> QED
    BY <1>1, <2>1, <2>2 DEF Func
<1> QED
  BY <1>1, <1>2, <1>3, EnterRight DEF ResultsKept, StacksRight

\* BeginFunc enters a new function (func.go:78-170).
LEMMA BeginFuncRight ==
  ASSUME TypeOK, OwnedNow, StacksRight, NEW kind \in {"init", "named", "method", "literal"},
         NEW results \in 0 .. 2, BeginFunc(kind, results)
  PROVE  StacksRight'
<1> DEFINE f    == Len(funcs) + 1
           g    == NewFunc(kind, results, Fresh(1), FALSE)
           j    == NewFunc("jump", results, Fresh(2), TRUE)
           more == IF kind = "method" THEN <<j>> ELSE << >>
<1>1. EnterFunc(f, Fresh(1), results) /\ funcs' = Append(funcs, g) \o more
  BY DEF BeginFunc
<1>2. /\ funcs \in Seq(Func) /\ Len(funcs) \in Nat /\ results \in Nat
      /\ Fresh(1) \in Block /\ Fresh(2) \in Block
  BY Numbers DEF TypeOK
<1>3. g \in Func /\ j \in Func /\ g.results = results
  <2>1. kind \in {"globalinit", "main", "init", "named", "method", "jump", "literal"}
    OBVIOUS
  <2>2. Here \in Nat
    BY Numbers
  <2> QED
    BY <1>2, <2>1, <2>2 DEF NewFunc, Func
<1> HIDE DEF g, j
<1>4. more \in Seq(Func)
  BY <1>3
<1>5. /\ Append(funcs, g) \in Seq(Func)
      /\ Len(Append(funcs, g)) = f
      /\ \A i \in 1 .. Len(funcs) : Append(funcs, g)[i] = funcs[i]
      /\ Append(funcs, g)[f] = g
  BY <1>2, <1>3, AppendType
<1> HIDE DEF more
<1>6. \A i \in 1 .. f : funcs'[i] = Append(funcs, g)[i]
  <2>1. /\ Len(more) \in Nat /\ f \in Nat
        /\ \A i \in 1 .. f + Len(more) :
             funcs'[i] = IF i <= f THEN Append(funcs, g)[i] ELSE more[i - f]
    BY <1>1, <1>2, <1>4, <1>5, ConcatProperties, LenProperties
  <2> QED
    BY <2>1
<1>7. ResultsKept
  BY <1>2, <1>5, <1>6 DEF ResultsKept
<1>8. f \in Nat \ {0} /\ f \in 1 .. f
  BY <1>2
<1>9. funcs'[f].results = results
  BY <1>3, <1>5, <1>6, <1>8
<1> QED
  BY <1>1, <1>2, <1>7, <1>8, <1>9, EnterRight

\* EndFunc pops the scope, and the return values if there are any (func.go:240-262).
LEMMA EndFuncRight ==
  ASSUME TypeOK, OwnedNow, StacksRight, EndFunc
  PROVE  StacksRight'
<1> DEFINE e == Top.entry
           r == funcs[Top.fn].results
<1>1. /\ frames # << >> /\ Top.kind = "func" /\ frames' = Front(frames)
      /\ contextBlockVariables' = Front(contextBlockVariables)
      /\ contextFuncRetVals' = IF r = 0 THEN contextFuncRetVals ELSE Front(contextFuncRetVals)
      /\ funcs' = [funcs EXCEPT ![Top.fn].complete = TRUE]
      /\ UNCHANGED <<contextLoopBreak, contextLoopContinue, contextCondAfter>>
  BY DEF EndFunc, Open
<1>2. /\ Heights = [rets |-> e.rets + (IF r > 0 THEN 1 ELSE 0), vars |-> e.vars + 1,
                    loop |-> e.loop + 0, cond |-> e.cond + 0]
      /\ e \in Height
      /\ e = [rets |-> e.rets, vars |-> e.vars, loop |-> e.loop, cond |-> e.cond]
  BY <1>1, TopHeights DEF Inside
<1>3. r \in Nat /\ Top.fn \in 1 .. Len(funcs)
  BY <1>1, TopHeights, CallTypes
<1> HIDE DEF e, r
<1>4. /\ e.rets \in Nat /\ e.vars \in Nat /\ e.loop \in Nat /\ e.cond \in Nat
      /\ Len(contextFuncRetVals) = e.rets + (IF r > 0 THEN 1 ELSE 0)
      /\ Len(contextBlockVariables) = e.vars + 1
      /\ Len(contextLoopBreak) = e.loop /\ Len(contextCondAfter) = e.cond
  BY <1>2 DEF Height, Heights
<1>5. /\ SameTo(contextBlockVariables, contextBlockVariables', e.vars)
      /\ Len(contextBlockVariables') = e.vars
  <2>1. contextBlockVariables \in Seq(Nat) /\ Len(contextBlockVariables) # 0
    BY <1>4, StackTypes
  <2>2. Len(contextBlockVariables) - 1 = e.vars
    BY <1>4
  <2> QED
    BY <1>1, <2>1, <2>2, SameStacks
<1>6. /\ SameTo(contextFuncRetVals, contextFuncRetVals', e.rets)
      /\ Len(contextFuncRetVals') = e.rets
  <2>1. CASE r = 0
    BY <1>1, <1>4, <2>1 DEF SameTo
  <2>2. CASE r # 0
    <3>1. contextFuncRetVals \in Seq(RetVals) /\ Len(contextFuncRetVals) # 0
      BY <1>3, <1>4, <2>2, StackTypes
    <3>2. Len(contextFuncRetVals) - 1 = e.rets
      BY <1>3, <1>4, <2>2
    <3> QED
      BY <1>1, <2>2, <3>1, <3>2, SameStacks
  <2> QED
    BY <2>1, <2>2
<1>7. Heights' = Top.entry
  BY <1>1, <1>2, <1>4, <1>5, <1>6 DEF Heights, e
<1>8. KeptTo(Top.entry)
  BY <1>1, <1>5, <1>6 DEF KeptTo, SameTo, e
<1>9. Len(contextLoopContinue') = Len(contextLoopBreak')
  BY <1>1 DEF StacksRight, Balanced
<1>10. ResultsKept
  <2> SUFFICES ASSUME NEW k \in 1 .. Len(funcs)
               PROVE  funcs'[k].results = funcs[k].results
    BY DEF ResultsKept
  <2>1. funcs[k] \in Func /\ DOMAIN funcs = 1 .. Len(funcs)
    BY ElementOfSeq, LenProperties DEF TypeOK
  <2> QED
    BY <1>1, <1>3, <2>1 DEF Func
<1> QED
  BY <1>1, <1>7, <1>8, <1>9, <1>10, PopRight

-----------------------------------------------------------------------------
(* The theorems                                                              *)

\* The local variables that the steps between two bodies change are on no stack.
LEMMA BetweenRight ==
  ASSUME TypeOK, OwnedNow, StacksRight,
         BeginElse \/ EndDefault \/ BeginCase \/ \E fallthrough \in BOOLEAN : EndCase(fallthrough)
  PROVE  StacksRight'
<1>1. frames # << >> /\ Top = frames[Len(frames)] /\ Len(frames) \in 1 .. Len(frames)
  <2>1. frames # << >>
    BY DEF BeginElse, EndDefault, BeginCase, EndCase, Open
  <2> QED
    BY <2>1, Context
<1>2. frames \in Seq(Frame) /\ Top \in Frame /\ UNCHANGED <<funcs, stacks>>
  BY <1>1, Context DEF TypeOK, BeginElse, EndDefault, BeginCase, EndCase
<1> DEFINE n == Len(frames)
<1>3. CASE BeginElse
  <2> DEFINE g == [frames[n] EXCEPT !.arm = "false"]
  <2>1. frames[n] \in IfFrame
    BY <1>1, <1>2, <1>3, FrameKinds DEF BeginElse, Open
  <2>2. g \in Frame /\ SameCall(Top, g)
    BY <1>1, <2>1 DEF Frame, IfFrame, SameCall
  <2>3. frames' = [frames EXCEPT ![n] = g]
    BY <1>3 DEF BeginElse
  <2> QED
    BY <1>1, <1>2, <2>2, <2>3, GoOnRight
<1>4. CASE EndDefault
  <2> DEFINE g == [frames[n] EXCEPT !.open = "none"]
  <2>1. frames[n] \in SwitchFrame
    BY <1>1, <1>2, <1>4, FrameKinds DEF EndDefault, Open
  <2>2. g \in Frame /\ SameCall(Top, g)
    BY <1>1, <2>1 DEF Frame, SwitchFrame, SameCall
  <2>3. frames' = [frames EXCEPT ![n] = g]
    BY <1>4 DEF EndDefault
  <2> QED
    BY <1>1, <1>2, <2>2, <2>3, GoOnRight
<1>5. CASE BeginCase
  <2> DEFINE g == [frames[n] EXCEPT !.open = "case", !.cases = Append(@, Fresh(1))]
  <2>1. frames[n] \in SwitchFrame
    BY <1>1, <1>2, <1>5, FrameKinds DEF BeginCase, Open
  <2>2. Append(frames[n].cases, Fresh(1)) \in Seq(Block)
    BY <2>1, FreshBlocks, AppendType DEF SwitchFrame
  <2>3. g \in Frame /\ SameCall(Top, g)
    BY <1>1, <2>1, <2>2 DEF Frame, SwitchFrame, SameCall
  <2>4. frames' = [frames EXCEPT ![n] = g]
    <3>1. frames' = [frames EXCEPT ![n].open = "case", ![n].cases = Append(@, Fresh(1))]
      BY <1>5 DEF BeginCase
    <3>2. DOMAIN frames = 1 .. n
      BY CallTypes
    <3> QED
      BY <1>1, <3>1, <3>2
  <2> QED
    BY <1>1, <1>2, <2>3, <2>4, GoOnRight
<1>6. CASE \E fallthrough \in BOOLEAN : EndCase(fallthrough)
  <2>1. PICK fallthrough \in BOOLEAN : EndCase(fallthrough)
    BY <1>6
  <2> DEFINE g == [frames[n] EXCEPT !.open = "none", !.through = Append(@, fallthrough)]
  <2>2. frames[n] \in SwitchFrame
    BY <1>1, <1>2, <2>1, FrameKinds DEF EndCase, Open
  <2>3. Append(frames[n].through, fallthrough) \in Seq(BOOLEAN)
    BY <2>2, AppendType DEF SwitchFrame
  <2>4. g \in Frame /\ SameCall(Top, g)
    BY <1>1, <2>2, <2>3 DEF Frame, SwitchFrame, SameCall
  <2>5. frames' = [frames EXCEPT ![n] = g]
    <3>1. frames' = [frames EXCEPT ![n].open = "none", ![n].through = Append(@, fallthrough)]
      BY <2>1 DEF EndCase
    <3>2. DOMAIN frames = 1 .. n
      BY CallTypes
    <3> QED
      BY <1>1, <3>1, <3>2
  <2> QED
    BY <1>1, <1>2, <2>4, <2>5, GoOnRight
<1> QED
  BY <1>3, <1>4, <1>5, <1>6

\* Appends and switches leave the stacks alone.
LEMMA BlocksRight ==
  ASSUME TypeOK, OwnedNow, StacksRight,
         \/ \E self \in BOOLEAN : BeginAppend(self)
         \/ EndAppend
         \/ \E hasDefault \in BOOLEAN : BeginSwitch(hasDefault)
         \/ EndSwitch
  PROVE  StacksRight'
<1>1. /\ Here \in Nat /\ Heights \in Height /\ Fresh(1) \in Block /\ Fresh(2) \in Block
      /\ UNCHANGED <<funcs, stacks>>
  <2>1. UNCHANGED <<funcs, stacks>>
    BY DEF BeginAppend, EndAppend, BeginSwitch, EndSwitch
  <2> QED
    BY <2>1, Numbers
<1>2. CASE \E self \in BOOLEAN : BeginAppend(self)
  <2> DEFINE f == [kind |-> "append", at |-> Here, entry |-> Heights, add |-> Fresh(2)]
  <2>1. f \in Frame /\ f.kind = "append" /\ f.entry = Heights
    BY <1>1 DEF Frame, AppendFrame
  <2>2. frames' = Append(frames, f)
    BY <1>2 DEF BeginAppend
  <2> QED
    BY <1>1, <2>1, <2>2, OpenRight
<1>3. CASE EndAppend
  BY <1>1, <1>3, CloseRight DEF EndAppend, Open
<1>4. CASE \E hasDefault \in BOOLEAN : BeginSwitch(hasDefault)
  <2>1. PICK hasDefault \in BOOLEAN : BeginSwitch(hasDefault)
    BY <1>4
  <2> DEFINE f == [kind |-> "switch", at |-> Here, entry |-> Heights, hasDefault |-> hasDefault,
                   open |-> IF hasDefault THEN "default" ELSE "none", pre |-> contextBlock,
                   dflt |-> Fresh(2), after |-> Fresh(1), cases |-> << >>, through |-> << >>]
  <2>2. contextBlock \in Block
    <3>1. frames # << >>
      BY <2>1 DEF BeginSwitch, StatementAllowed, CanStand
    <3>2. contextBlock \in 1 .. Len(blocks) /\ Len(blocks) \in Nat
      BY <3>1, Context, Numbers
    <3> QED
      BY <3>2 DEF Block
  <2>3. f \in Frame /\ f.kind = "switch" /\ f.entry = Heights
    BY <1>1, <2>2 DEF Frame, SwitchFrame
  <2>4. frames' = Append(frames, f)
    BY <2>1 DEF BeginSwitch
  <2> QED
    BY <1>1, <2>3, <2>4, OpenRight
<1>5. CASE EndSwitch
  <2>1. frames # << >> /\ Top.kind = "switch" /\ (frames' = frames \/ frames' = Front(frames))
    BY <1>5 DEF EndSwitch, Open
  <2>2. CASE frames' = frames
    BY <1>1, <2>2, StraightRight
  <2>3. CASE frames' = Front(frames)
    BY <1>1, <2>1, <2>3, CloseRight
  <2> QED
    BY <2>1, <2>2, <2>3
<1> QED
  BY <1>2, <1>3, <1>4, <1>5

\* NewCompiler opens one scope and no call.
LEMMA InitRight == Init => StacksRight
<1> SUFFICES ASSUME Init
             PROVE  StacksRight
  OBVIOUS
<1>1. /\ frames = << >> /\ contextBlockVariables = <<0>>
      /\ contextFuncRetVals = << >> /\ contextLoopBreak = << >>
      /\ contextLoopContinue = << >> /\ contextCondAfter = << >>
  BY DEF Init
<1>2. Heights = Base
  BY <1>1 DEF Heights, Base
<1>3. DOMAIN frames = {}
  BY <1>1
<1>4. Len(contextLoopContinue) = Len(contextLoopBreak)
  BY <1>1
<1>5. funcs[Main].results = 0
  <2>1. funcs = <<NewFunc("globalinit", 0, 1, TRUE), NewFunc("main", 0, 2, FALSE)>>
    BY DEF Init
  <2>2. funcs[2] = NewFunc("main", 0, 2, FALSE)
    BY <2>1
  <2> QED
    BY <2>2 DEF Main, NewFunc
<1> QED
  BY <1>1, <1>2, <1>3, <1>4, <1>5 DEF StacksRight, Balanced, OwnEntries, Base

\* Every step of the compiler keeps the stacks right.
LEMMA NextRight ==
  ASSUME TypeOK, OwnedNow, StacksRight, [Next]_vars
  PROVE  StacksRight'
<1>1. CASE UNCHANGED vars
  BY <1>1, StraightRight DEF vars
<1>2. CASE Stmt \/ Index \/ Substring \/ TypeAssertion \/ NestedAppend
  BY <1>2, StraightRight DEF Stmt, Index, Substring, TypeAssertion, NestedAppend
<1>3. CASE Break \/ Continue \/ ReturnValues \/ NakedReturn \/ Finish
  BY <1>3, StraightRight DEF Break, Continue, ReturnValues, NakedReturn, Finish
<1>4. CASE \/ \E self \in BOOLEAN : BeginAppend(self)
           \/ EndAppend
           \/ \E hasDefault \in BOOLEAN : BeginSwitch(hasDefault)
           \/ EndSwitch
  BY <1>4, BlocksRight
<1>5. CASE BeginElse \/ EndDefault \/ BeginCase
             \/ \E fallthrough \in BOOLEAN : EndCase(fallthrough)
  BY <1>5, BetweenRight
<1>6. CASE (\E hasElse \in BOOLEAN : BeginIf(hasElse)) \/ EndIf
  BY <1>6, BeginIfRight, EndIfRight
<1>7. CASE (\E form \in {"plain", "checked", "range"} : BeginFor(form)) \/ EndFor
  BY <1>7, BeginForRight, EndForRight
<1>8. CASE BeginMain \/ EndFunc
  BY <1>8, BeginMainRight, EndFuncRight
<1>9. CASE \E kind \in {"init", "named", "method", "literal"}, results \in 0 .. 2 :
             BeginFunc(kind, results)
  BY <1>9, BeginFuncRight
<1> QED
  BY <1>1, <1>2, <1>3, <1>4, <1>5, <1>6, <1>7, <1>8, <1>9 DEF Next

\* The inductive invariant: the types, the ownership and the stacks.
LEMMA RightAlways == Spec => [](TypeOK /\ OwnedNow /\ StacksRight)
<1>1. Init => TypeOK /\ OwnedNow /\ StacksRight
  BY InitOwned, InitRight
<1>2. (TypeOK /\ OwnedNow /\ StacksRight) /\ [Next]_vars => (TypeOK /\ OwnedNow /\ StacksRight)'
  BY NextOwned, NextRight
<1> QED
  BY <1>1, <1>2, PTL DEF Spec

\* Every compileXxx method returns with the five context stacks as high as it found them,
\* for programs of any length and nesting and all forms (condition.go, for.go, func.go).
THEOREM StacksBalanced == Spec => []Balanced
<1>1. StacksRight => Balanced
  BY DEF StacksRight
<1> QED
  BY <1>1, RightAlways, PTL

\* Every open compileXxx method finds its own entries at its height of the stacks, whatever
\* the methods it called pushed and popped.
THEOREM EntriesOwned == Spec => []OwnEntries
<1>1. StacksRight => OwnEntries
  BY DEF StacksRight
<1> QED
  BY <1>1, RightAlways, PTL

\* The innermost loop of the function being compiled is on top of both loop stacks.
LEMMA InnermostRight ==
  ASSUME TypeOK, OwnedNow, StacksRight, LoopsOpen # {}
  PROVE  /\ contextLoopBreak # << >> /\ contextLoopContinue # << >>
         /\ Last(contextLoopBreak) = frames[InnermostOf(LoopsOpen)].after
         /\ Last(contextLoopContinue) = frames[InnermostOf(LoopsOpen)].post
<1> DEFINE i == InnermostOf(LoopsOpen)
<1>1. i \in 1 .. Len(frames) /\ i \in LoopsOpen /\ \A j \in LoopsOpen : j <= i
  <2>1. LoopsOpen \in SUBSET (DOMAIN frames)
    BY DEF LoopsOpen
  <2> QED
    BY <2>1, InnermostType, CallTypes
<1> HIDE DEF i
<1>2. frames[i].kind = "for" /\ Inner(i)
  BY <1>1 DEF LoopsOpen
<1>3. ASSUME NEW k \in i + 1 .. Len(frames), frames[k].kind = "for"
      PROVE  FALSE
  <2>1. k \in 1 .. Len(frames) /\ Len(frames) \in Nat /\ k > i
    BY <1>1, CallTypes
  <2>2. Inner(k)
    BY <1>1, <1>2, <2>1 DEF Inner
  <2>3. k \in LoopsOpen
    BY <1>3, <2>1, <2>2, CallTypes DEF LoopsOpen
  <2> QED
    BY <1>1, <2>1, <2>3
<1>4. Len(contextLoopBreak) = frames[i].entry.loop + 1
  BY <1>1, <1>2, <1>3, LoopsBetween, InsideTypes DEF StacksRight
<1>5. Len(contextLoopContinue) = frames[i].entry.loop + 1
  BY <1>4 DEF StacksRight, Balanced
<1>6. /\ contextLoopBreak[frames[i].entry.loop + 1] = frames[i].after
      /\ contextLoopContinue[frames[i].entry.loop + 1] = frames[i].post
  BY <1>1, <1>2, CallTypes DEF StacksRight, OwnEntries
<1>7. frames[i].entry.loop \in Nat
  BY <1>1, CallTypes DEF Height
<1>8. contextLoopBreak # << >> /\ contextLoopContinue # << >>
  BY <1>4, <1>5, <1>7, EmptySeq
<1> QED
  BY <1>4, <1>5, <1>6, <1>8 DEF Last, i

\* compiler.go:49 "What a break or continue should resolve to": a break or continue leaves or
\* continues the innermost loop of its own function, for programs of any length and
\* nesting and all forms, function literals inside loops included.
THEOREM JumpsInnermost == Spec => []InnermostLoop
<1>1. TypeOK /\ OwnedNow /\ StacksRight => InnermostLoop
  BY InnermostRight DEF InnermostLoop
<1> QED
  BY <1>1, RightAlways, PTL

=============================================================================
