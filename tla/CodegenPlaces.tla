---------------------------- MODULE CodegenPlaces ----------------------------
(***************************************************************************)
(* Points of a program, and what is known of them while it is compiled.    *)
(*                                                                         *)
(* Faithful compares the emitted blocks with the whole program, but a      *)
(* block is emitted, and its terminator written, when most of the program  *)
(* is still to come.  What can be said then is relative to the rest: this  *)
(* block goes where control goes after the if.  So every block gets a      *)
(* label, the place in the program whose code it holds, and facts about    *)
(* blocks are stated for every solution: every assignment of first items   *)
(* to places that agrees with the tokens read so far.  A longer program    *)
(* has fewer solutions, therefore what was true of a block stays true      *)
(* until the block is written again.                                       *)
(*                                                                         *)
(* The invariant, Traced, says that there is a label and a state for every *)
(* block with which every block is right: the blocks that the open calls   *)
(* will still write are new or wait for the place where they will be       *)
(* written, the block code goes to waits for the next token, and every     *)
(* other block has ended.  The last parts of the module say what a step    *)
(* that opens, closes or changes a call has to show to keep it.            *)
(***************************************************************************)
EXTENDS CodegenBlocks, CodegenFlow, FiniteSetTheorems

-----------------------------------------------------------------------------
(* Places and solutions                                                      *)

\* Place <<p, m>> belongs to token p.  "at" is where the token stands, "after" the end of
\* the construct that begins there; the others are parts of a construct.
Marks  == {"at", "after", "else", "cond", "body", "post", "safe", "panic", "end", "side",
           "copy", "bytes", "add", "dflt", "cases", "entry"}
Places == Nat \X Marks

\* A solution is a function A from places to the first items executed there, and a set T
\* of pairs of places: <<a, b>> if control at a has passed a token, or a part of one, when
\* it reaches b without having executed an item.
Passes(A, T, a, b) == A[a] = A[b] /\ <<a, b>> \in T
Same(A, T, a, b)   == A[a] = A[b] /\ \A z : <<b, z>> \in T => <<a, z>> \in T

\* What token t at position p says of a solution; s are the cases of the switch it ends.
Says(A, T, t, p, s) ==
  LET here == <<p, "at">>
      next == <<p + 1, "at">>
      done == <<t.of, "after">>
  IN
  /\ A[<<p, "panic">>] = {It(p, "panic")}
  /\ t.op = "stmt" => A[here] = {It(p, "stmt")}
  /\ t.op = "check" =>
       /\ Same(A, T, <<p, "safe">>, next)
       /\ t.form = "index"     => A[here] = {It(p, "index")}
       /\ t.form = "substring" => A[here] = {It(p, "start")} /\ A[<<p, "end">>] = {It(p, "end")}
       /\ t.form = "assertion" => /\ A[here] = {It(p, "assert")}
                                  /\ Passes(A, T, <<p, "side">>, <<p, "safe">>)
  /\ t.op = "append" =>
       /\ Passes(A, T, here, <<p, "copy">>)
       /\ Passes(A, T, <<p, "copy">>, <<p, "bytes">>) /\ Passes(A, T, <<p, "copy">>, <<p, "add">>)
       /\ Passes(A, T, <<p, "bytes">>, <<p, "add">>)
       /\ Same(A, T, <<p, "add">>, next)
  /\ t.op = "endappend" => A[here] = {It(t.of, "append")}
  /\ t.op = "if" =>
       /\ A[here] = {It(p, "if")}
       /\ t.form # "else" => Same(A, T, <<p, "else">>, <<p, "after">>)
  /\ t.op = "else" => Same(A, T, <<t.of, "else">>, next)
  /\ t.op = "for" =>
       /\ A[here] = {It(p, "init")} /\ A[<<p, "post">>] = {It(p, "post")}
       /\ A[<<p, "cond">>] = {It(p, IF t.form = "checked" THEN "index" ELSE "cond")}
       /\ IF t.form = "range" THEN /\ A[<<p, "body">>] = {It(p, "index")}
                                   /\ Same(A, T, <<p, "safe">>, next)
                              ELSE Same(A, T, <<p, "body">>, next)
       /\ t.form = "checked" => A[<<p, "safe">>] = {It(p, "cond")}
  /\ t.op \in {"endfor", "continue"} => Passes(A, T, here, <<t.of, "post">>)
  /\ t.op = "switch" =>
       /\ A[here] = {It(p, "switch")}
       /\ IF t.form = "default" THEN Same(A, T, <<p, "dflt">>, next)
                                ELSE Passes(A, T, <<p, "dflt">>, <<p, "after">>)
  /\ t.op = "fallthrough" => Passes(A, T, here, <<p + 2, "at">>)
  /\ t.op = "endswitch" => A[<<t.of, "cases">>] = [i \in DOMAIN s |-> A[<<s[i] + 1, "at">>]]
  /\ t.op = "func" =>
       /\ Same(A, T, here, <<p, "after">>)
       /\ Same(A, T, <<p, "entry">>, next)
       /\ t.form = "main" => Same(A, T, <<0, "entry">>, next)
  /\ t.op \in {"return", "endfunc"} => A[here] = {It(p, "ret")}
  /\ t.op \in {"else", "break", "endif", "enddefault", "endcase"} => Passes(A, T, here, done)
  /\ t.op \in Closers => Same(A, T, done, next)

\* The cases before position p of the switch that token p of sr ends.
CasesBefore(sr, p) == InOrder({q \in 1 .. p - 1 : sr[q].op = "case" /\ sr[q].of = sr[p].of})

Solves(A, T, sr) == \A p \in 1 .. Len(sr) : Says(A, T, sr[p], p, CasesBefore(sr, p))

\* Every solution of the longer program sr2 is one of sr1.
Extends(sr2, sr1) == \A A, T : Solves(A, T, sr2) => Solves(A, T, sr1)

\* Where control may go after item x, as SourceFlow, by a solution.
Flow(A, x) ==
  LET p == x.at
  IN  CASE x.tag \in {"stmt", "assert"} -> <<A[<<p + 1, "at">>]>>
        [] x.tag = "append" -> <<A[<<p, "after">>]>>
        [] x.tag = "start"  -> <<{It(p, "end")}, {It(p, "panic")}>>
        [] x.tag = "end"    -> <<A[<<p, "safe">>], {It(p, "panic")}>>
        [] x.tag = "index"  -> <<{It(p, "panic")}, A[<<p, "safe">>]>>
        [] x.tag = "if"     -> <<A[<<p + 1, "at">>], A[<<p, "else">>]>>
        [] x.tag \in {"init", "post"} -> <<A[<<p, "cond">>]>>
        [] x.tag = "cond"   -> <<A[<<p, "body">>], A[<<p, "after">>]>>
        [] x.tag = "switch" -> <<A[<<p, "dflt">>]>> \o A[<<p, "cases">>]
        [] OTHER            -> << >>

\* Flow, item by item.
LEMMA FlowOf ==
  ASSUME NEW A, NEW p
  PROVE  /\ Flow(A, It(p, "stmt"))   = <<A[<<p + 1, "at">>]>>
         /\ Flow(A, It(p, "assert")) = <<A[<<p + 1, "at">>]>>
         /\ Flow(A, It(p, "append")) = <<A[<<p, "after">>]>>
         /\ Flow(A, It(p, "panic"))  = << >>
         /\ Flow(A, It(p, "ret"))    = << >>
         /\ Flow(A, It(p, "start"))  = <<{It(p, "end")}, {It(p, "panic")}>>
         /\ Flow(A, It(p, "end"))    = <<A[<<p, "safe">>], {It(p, "panic")}>>
         /\ Flow(A, It(p, "index"))  = <<{It(p, "panic")}, A[<<p, "safe">>]>>
         /\ Flow(A, It(p, "if"))     = <<A[<<p + 1, "at">>], A[<<p, "else">>]>>
         /\ Flow(A, It(p, "init"))   = <<A[<<p, "cond">>]>>
         /\ Flow(A, It(p, "post"))   = <<A[<<p, "cond">>]>>
         /\ Flow(A, It(p, "cond"))   = <<A[<<p, "body">>], A[<<p, "after">>]>>
         /\ Flow(A, It(p, "switch")) = <<A[<<p, "dflt">>]>> \o A[<<p, "cases">>]
BY DEF Flow, It

\* The last token of a program speaks, and so do all before it.
LEMMA SolvesPut ==
  ASSUME NEW sr \in Seq(Token), NEW t \in Token
  PROVE  /\ Extends(Append(sr, t), sr)
         /\ \A A, T : Solves(A, T, Append(sr, t)) =>
              Says(A, T, t, Len(sr) + 1, CasesBefore(Append(sr, t), Len(sr) + 1))
<1> DEFINE sr2 == Append(sr, t)
<1>1. /\ Len(sr) \in Nat /\ Len(sr2) = Len(sr) + 1 /\ sr2[Len(sr) + 1] = t
      /\ \A p \in 1 .. Len(sr) : sr2[p] = sr[p]
  BY LenProperties, AppendType
<1> HIDE DEF sr2
<1>2. \A p \in 1 .. Len(sr) : CasesBefore(sr2, p) = CasesBefore(sr, p)
  <2> TAKE p \in 1 .. Len(sr)
  <2>1. \A q \in 1 .. p - 1 : q \in 1 .. Len(sr)
    BY <1>1
  <2>2. {q \in 1 .. p - 1 : sr2[q].op = "case" /\ sr2[q].of = sr2[p].of}
          = {q \in 1 .. p - 1 : sr[q].op = "case" /\ sr[q].of = sr[p].of}
    BY <1>1, <2>1
  <2> QED
    BY <2>2, Zenon DEF CasesBefore
<1>3. \A p \in 1 .. Len(sr) : p \in 1 .. Len(sr2)
  BY <1>1
<1>4. Len(sr) + 1 \in 1 .. Len(sr2)
  BY <1>1
<1>5. ASSUME NEW A, NEW T, Solves(A, T, sr2)
      PROVE  /\ Solves(A, T, sr)
             /\ Says(A, T, t, Len(sr) + 1, CasesBefore(sr2, Len(sr) + 1))
  <2>1. \A p \in 1 .. Len(sr2) : Says(A, T, sr2[p], p, CasesBefore(sr2, p))
    BY <1>5, Zenon DEF Solves
  <2>2. \A p \in 1 .. Len(sr) : Says(A, T, sr[p], p, CasesBefore(sr, p))
    BY <1>1, <1>2, <1>3, <2>1, Zenon
  <2>3. Says(A, T, sr2[Len(sr) + 1], Len(sr) + 1, CasesBefore(sr2, Len(sr) + 1))
    BY <1>4, <2>1, Zenon
  <2> QED
    BY <1>1, <2>2, <2>3, Zenon DEF Solves
<1> QED
  BY <1>5 DEF Extends, sr2

-----------------------------------------------------------------------------
(* What is right about a block                                               *)

\* The label of a block that compiles no statement.
Nowhere == <<0, "none">>

\* The states of a block: made and not begun; waiting for what stands at place pl; holding
\* the item of switch p, whose cases are being compiled; ended.
New        == <<"new", Nowhere>>
OpenAt(pl) == <<"open", pl>>
Choosing(p) == <<"switch", <<p, "dflt">>>>
Ended      == <<"ended", Nowhere>>

\* Block k, with label lab, starts with what stands there and has no gap inside.
Starts(A, k, lab) == k.code # << >> => A[lab] = {Head(k.code)}
Within(A, k)      == \A n \in 1 .. Len(k.code) - 1 : Flow(A, k.code[n]) = <<{k.code[n + 1]}>>

\* From what it holds, block k goes on to place pl.
Waits(A, T, k, lab, pl) ==
  IF k.code = << >> THEN Same(A, T, lab, pl) ELSE Flow(A, Last(k.code)) = <<A[pl]>>

\* Block k ends as the source does; L are the labels of the blocks.
Ends(A, T, L, k, lab) ==
  LET to == k.term.to
      x  == Last(k.code)
  IN  IF k.code = << >> THEN /\ \A i \in DOMAIN to : A[L[to[i]]] = A[lab]
                             /\ \E i \in DOMAIN to : <<lab, L[to[i]]>> \in T
      ELSE IF to = << >> THEN Flow(A, x) = << >>
      ELSE IF x.tag \in Decisions THEN Flow(A, x) = [i \in DOMAIN to |-> A[L[to[i]]]]
      ELSE \A i \in DOMAIN to : Flow(A, x) = <<A[L[to[i]]]>>

\* The part that does not depend on a solution.
Shaped(L, k, st) ==
  /\ st[1] \in {"new", "open", "switch", "ended"}
  /\ st[1] = "new"    => st = New /\ k.code = << >> /\ k.term = NoTerm
  /\ st[1] = "open" /\ k.code # << >> => Last(k.code).tag \notin Decisions
  /\ st[1] = "switch" => k.code # << >> /\ Last(k.code) = It(st[2][1], "switch")
  /\ st[1] = "ended"  => /\ st = Ended
                         /\ k.term.kind # "none"
                         /\ \A i \in DOMAIN k.term.to : k.term.to[i] \in DOMAIN L

Right(A, T, L, k, lab, st) ==
  /\ Starts(A, k, lab) /\ Within(A, k)
  /\ st[1] = "open"  => Waits(A, T, k, lab, st[2])
  /\ st[1] = "ended" => Ends(A, T, L, k, lab)

\* Block k with label lab is in state st, after the program sr.
Good(L, sr, k, lab, st) ==
  lab # Nowhere => /\ Shaped(L, k, st)
                   /\ \A A, T : Solves(A, T, sr) => Right(A, T, L, k, lab, st)

\* Block k holds an item, x last.
Holds(sr, k, lab, x) ==
  lab # Nowhere => /\ k.code # << >> /\ Last(k.code) = x
                   /\ \A A, T : Solves(A, T, sr) => Starts(A, k, lab) /\ Within(A, k)

\* M are the labels L, and those of later blocks.
Labels(M, L) == DOMAIN L \subseteq DOMAIN M /\ \A b \in DOMAIN L : M[b] = L[b]

\* What is right of a block stays so while it is not written.
LEMMA GoodStays ==
  ASSUME NEW sr, NEW sr2, Extends(sr2, sr), NEW L, NEW M, Labels(M, L),
         NEW k, NEW lab, NEW st, Good(L, sr, k, lab, st)
  PROVE  Good(M, sr2, k, lab, st)
<1> SUFFICES ASSUME lab # Nowhere PROVE Good(M, sr2, k, lab, st)
  BY DEF Good
<1>1. Shaped(L, k, st) /\ \A A, T : Solves(A, T, sr2) => Right(A, T, L, k, lab, st)
  BY DEF Good, Extends
<1>2. Shaped(M, k, st)
  BY <1>1 DEF Shaped, Labels
<1>3. ASSUME NEW A, NEW T, Solves(A, T, sr2)
      PROVE  Right(A, T, M, k, lab, st)
  <2>1. Right(A, T, L, k, lab, st)
    BY <1>1, <1>3
  <2>2. CASE st[1] # "ended"
    BY <2>1, <2>2 DEF Right
  <2>3. CASE st[1] = "ended"
    <3> DEFINE to == k.term.to
    <3>1. \A i \in DOMAIN to : M[to[i]] = L[to[i]]
      BY <1>1, <2>3 DEF Shaped, Labels
    <3>2. Ends(A, T, L, k, lab)
      BY <2>1, <2>3 DEF Right
    <3>3. [i \in DOMAIN to |-> A[L[to[i]]]] = [i \in DOMAIN to |-> A[M[to[i]]]]
      BY <3>1
    <3>4. Ends(A, T, M, k, lab)
      BY <3>1, <3>2, <3>3, Zenon DEF Ends
    <3> QED
      BY <2>1, <2>3, <3>4 DEF Right
  <2> QED
    BY <2>2, <2>3
<1> QED
  BY <1>2, <1>3 DEF Good

\* An item is added to a block that waits for the place of the item.
LEMMA EmitHolds ==
  ASSUME NEW sr, NEW sr2, Extends(sr2, sr), NEW L, NEW k, k.code \in Seq(Item), NEW lab, NEW pl,
         Good(L, sr, k, lab, OpenAt(pl)), NEW x \in Item,
         \A A, T : Solves(A, T, sr2) => A[pl] = {x},
         NEW k2, k2.code = Append(k.code, x)
  PROVE  Holds(sr2, k2, lab, x)
<1> SUFFICES ASSUME lab # Nowhere PROVE Holds(sr2, k2, lab, x)
  BY DEF Holds
<1> DEFINE c == k.code
           d == k2.code
<1>1. /\ d # << >> /\ Last(d) = x /\ Len(c) \in Nat /\ Len(d) = Len(c) + 1
      /\ \A i \in 1 .. Len(c) : d[i] = c[i]
      /\ d[Len(c) + 1] = x
      /\ c # << >> => Len(c) # 0 /\ Last(c) = c[Len(c)] /\ Head(d) = Head(c)
      /\ c = << >> => Len(c) = 0 /\ Head(d) = x
  <2>1. d # << >> /\ Last(d) = x /\ Len(c) \in Nat /\ Len(d) = Len(c) + 1
    BY AppendType, LenProperties
  <2>2. (\A i \in 1 .. Len(c) : d[i] = c[i]) /\ d[Len(c) + 1] = x
    BY AppendType
  <2>3. c # << >> => Len(c) # 0 /\ Last(c) = c[Len(c)]
    BY FrontType, EmptySeq
  <2>4. (c # << >> => Head(d) = Head(c)) /\ (c = << >> => Len(c) = 0 /\ Head(d) = x)
    <3>1. \A s \in Seq(Item) : s # << >> => Head(s) = s[1]
      OBVIOUS
    <3>2. d \in Seq(Item) /\ Head(d) = d[1]
      BY <2>1, <3>1, AppendType
    <3>3. c # << >> => 1 \in 1 .. Len(c)
      BY <2>1, <2>3
    <3>4. c = << >> => Len(c) = 0
      OBVIOUS
    <3> QED
      BY <2>1, <2>2, <3>1, <3>2, <3>3, <3>4
  <2> QED
    BY <2>1, <2>2, <2>3, <2>4
<1> HIDE DEF c, d
<1>2. ASSUME NEW A, NEW T, Solves(A, T, sr2)
      PROVE  Starts(A, k2, lab) /\ Within(A, k2)
  <2>1. A[pl] = {x} /\ Right(A, T, L, k, lab, OpenAt(pl))
    BY <1>2 DEF Good, Extends
  <2>2. Starts(A, k, lab) /\ Within(A, k) /\ Waits(A, T, k, lab, pl)
    BY <2>1 DEF Right, OpenAt
  <2>3. CASE c = << >>
    <3>1. A[lab] = {Head(d)}
      BY <1>1, <2>1, <2>2, <2>3 DEF c, Waits, Same
    <3>2. Len(d) = 1
      BY <1>1, <2>3
    <3>3. Within(A, k2)
      BY <3>2 DEF d, Within
    <3> QED
      BY <3>1, <3>3 DEF d, Starts
  <2>4. CASE c # << >>
    <3>1. A[lab] = {Head(d)}
      BY <1>1, <2>2, <2>4 DEF c, Starts
    <3>2. ASSUME NEW n \in 1 .. Len(d) - 1
          PROVE  Flow(A, d[n]) = <<{d[n + 1]}>>
      <4>1. CASE n = Len(c)
        <5>1. Flow(A, d[n]) = <<A[pl]>>
          BY <1>1, <2>2, <2>4, <3>2, <4>1 DEF c, Waits
        <5>2. d[n + 1] = x
          BY <1>1, <4>1
        <5> QED
          BY <2>1, <5>1, <5>2
      <4>2. CASE n # Len(c)
        <5>1. n \in 1 .. Len(c) - 1 /\ n \in 1 .. Len(c) /\ n + 1 \in 1 .. Len(c)
          BY <1>1, <3>2, <4>2
        <5>2. Flow(A, c[n]) = <<{c[n + 1]}>>
          BY <2>2, <5>1 DEF c, Within
        <5> QED
          BY <1>1, <5>1, <5>2
      <4> QED
        BY <4>1, <4>2
    <3> QED
      BY <3>1, <3>2 DEF d, Starts, Within
  <2> QED
    BY <2>3, <2>4
<1> QED
  BY <1>1, <1>2 DEF d, Holds

\* A block is made with one item, which stands at its label.
LEMMA MadeHolds ==
  ASSUME NEW sr, NEW k, NEW lab, NEW x, k.code = <<x>>,
         \A A, T : Solves(A, T, sr) => A[lab] = {x}
  PROVE  Holds(sr, k, lab, x)
BY DEF Holds, Starts, Within, Last

\* After its last item a block waits for the next one.
LEMMA HoldsOpen ==
  ASSUME NEW sr, NEW L, NEW k, NEW lab, NEW x, x.tag \notin Decisions, Holds(sr, k, lab, x), NEW pl,
         \A A, T : Solves(A, T, sr) => Flow(A, x) = <<A[pl]>>
  PROVE  Good(L, sr, k, lab, OpenAt(pl))
BY Zenon DEF Holds, Good, Shaped, Right, Waits, OpenAt

\* After its last item a block ends.
LEMMA HoldsEnded ==
  ASSUME NEW sr, NEW L, NEW k, NEW lab, NEW x, Holds(sr, k, lab, x),
         k.term.kind # "none",
         \A i \in DOMAIN k.term.to : k.term.to[i] \in DOMAIN L,
         \A A, T : Solves(A, T, sr) =>
           IF k.term.to = << >> THEN Flow(A, x) = << >>
           ELSE IF x.tag \in Decisions THEN Flow(A, x) = [i \in DOMAIN k.term.to |-> A[L[k.term.to[i]]]]
           ELSE \A i \in DOMAIN k.term.to : Flow(A, x) = <<A[L[k.term.to[i]]]>>
  PROVE  Good(L, sr, k, lab, Ended)
<1> SUFFICES ASSUME lab # Nowhere PROVE Good(L, sr, k, lab, Ended)
  BY DEF Good
<1>1. Ended[1] = "ended"
  BY DEF Ended
<1>2. Shaped(L, k, Ended)
  BY <1>1 DEF Shaped
<1>3. k.code # << >> /\ Last(k.code) = x
  BY DEF Holds
<1>4. ASSUME NEW A, NEW T, Solves(A, T, sr)
      PROVE  Right(A, T, L, k, lab, Ended)
  <2>1. Ends(A, T, L, k, lab)
    BY <1>3, <1>4, Zenon DEF Ends
  <2> QED
    BY <1>1, <1>4, <2>1 DEF Right, Holds
<1> QED
  BY <1>2, <1>4 DEF Good

\* A block is made, for later.
LEMMA MadeNew ==
  ASSUME NEW sr, NEW L, NEW k, NEW lab, k.code = << >>, k.term = NoTerm
  PROVE  Good(L, sr, k, lab, New)
<1>1. New = <<"new", Nowhere>> /\ New[1] = "new"
  BY DEF New
<1>2. Shaped(L, k, New)
  BY <1>1 DEF Shaped
<1>3. \A A, T : Right(A, T, L, k, lab, New)
  BY <1>1 DEF Right, Starts, Within
<1> QED
  BY <1>2, <1>3 DEF Good

\* A block without items is begun, or gone back to.
LEMMA EmptyOpen ==
  ASSUME NEW sr, NEW L, NEW k, NEW lab, k.code = << >>, NEW pl,
         \A A, T : Solves(A, T, sr) => Same(A, T, lab, pl)
  PROVE  Good(L, sr, k, lab, OpenAt(pl))
<1>1. OpenAt(pl)[1] = "open" /\ OpenAt(pl)[2] = pl
  BY DEF OpenAt
<1>2. Shaped(L, k, OpenAt(pl))
  BY <1>1 DEF Shaped
<1>3. \A A, T : Solves(A, T, sr) => Right(A, T, L, k, lab, OpenAt(pl))
  BY <1>1 DEF Right, Starts, Within, Waits
<1> QED
  BY <1>2, <1>3 DEF Good

\* A block without items is left for blocks that stand for the same place.
LEMMA EmptyEnded ==
  ASSUME NEW sr, NEW L, NEW k, NEW lab, k.code = << >>,
         k.term.kind # "none",
         \A i \in DOMAIN k.term.to : k.term.to[i] \in DOMAIN L,
         \A A, T : Solves(A, T, sr) =>
           /\ \A i \in DOMAIN k.term.to : A[L[k.term.to[i]]] = A[lab]
           /\ \E i \in DOMAIN k.term.to : <<lab, L[k.term.to[i]]>> \in T
  PROVE  Good(L, sr, k, lab, Ended)
<1>1. Ended[1] = "ended"
  BY DEF Ended
<1>2. Shaped(L, k, Ended)
  BY <1>1 DEF Shaped
<1>3. \A A, T : Solves(A, T, sr) => Right(A, T, L, k, lab, Ended)
  BY <1>1 DEF Right, Starts, Within, Ends
<1> QED
  BY <1>2, <1>3 DEF Good

\* The place a block waits for becomes known as another one.
LEMMA GoodMoves ==
  ASSUME NEW sr, NEW sr2, Extends(sr2, sr), NEW L, NEW M, NEW k, NEW k2, k2.code = k.code, NEW lab,
         NEW pl, NEW pl2, Good(L, sr, k, lab, OpenAt(pl)),
         \A A, T : Solves(A, T, sr2) => Same(A, T, pl, pl2)
  PROVE  Good(M, sr2, k2, lab, OpenAt(pl2))
<1> SUFFICES ASSUME lab # Nowhere PROVE Good(M, sr2, k2, lab, OpenAt(pl2))
  BY DEF Good
<1>1. /\ OpenAt(pl)[1] = "open" /\ OpenAt(pl)[2] = pl
      /\ OpenAt(pl2)[1] = "open" /\ OpenAt(pl2)[2] = pl2
  BY DEF OpenAt
<1>2. Shaped(L, k, OpenAt(pl)) /\ \A A, T : Solves(A, T, sr2) => Right(A, T, L, k, lab, OpenAt(pl))
  BY DEF Good, Extends
<1>3. Shaped(M, k2, OpenAt(pl2))
  BY <1>1, <1>2 DEF Shaped
<1>4. ASSUME NEW A, NEW T, Solves(A, T, sr2)
      PROVE  Right(A, T, M, k2, lab, OpenAt(pl2))
  <2>1. Right(A, T, L, k, lab, OpenAt(pl)) /\ Same(A, T, pl, pl2)
    BY <1>2, <1>4
  <2>2. Starts(A, k2, lab) /\ Within(A, k2) /\ Waits(A, T, k, lab, pl)
    BY <1>1, <2>1 DEF Right, Starts, Within
  <2>3. Waits(A, T, k2, lab, pl2)
    BY <2>1, <2>2 DEF Waits, Same
  <2> QED
    BY <1>1, <2>2, <2>3 DEF Right
<1> QED
  BY <1>3, <1>4 DEF Good

\* A block is left for blocks that come after what it waits for.
LEMMA GoodEnds ==
  ASSUME NEW sr, NEW sr2, Extends(sr2, sr), NEW L, NEW M, NEW k, NEW k2, k2.code = k.code, NEW lab,
         NEW pl, Good(L, sr, k, lab, OpenAt(pl)),
         k2.term.kind # "none", k2.term.to # << >>, DOMAIN k2.term.to # {},
         \A i \in DOMAIN k2.term.to : k2.term.to[i] \in DOMAIN M,
         \A A, T : Solves(A, T, sr2) => \A i \in DOMAIN k2.term.to : Passes(A, T, pl, M[k2.term.to[i]])
  PROVE  Good(M, sr2, k2, lab, Ended)
<1> SUFFICES ASSUME lab # Nowhere PROVE Good(M, sr2, k2, lab, Ended)
  BY DEF Good
<1>1. /\ OpenAt(pl)[1] = "open" /\ OpenAt(pl)[2] = pl /\ Ended[1] = "ended"
  BY DEF OpenAt, Ended
<1>2. Shaped(L, k, OpenAt(pl)) /\ \A A, T : Solves(A, T, sr2) => Right(A, T, L, k, lab, OpenAt(pl))
  BY DEF Good, Extends
<1>3. Shaped(M, k2, Ended)
  BY <1>1 DEF Shaped
<1>4. ASSUME NEW A, NEW T, Solves(A, T, sr2)
      PROVE  Right(A, T, M, k2, lab, Ended)
  <2> DEFINE to == k2.term.to
  <2>1. Right(A, T, L, k, lab, OpenAt(pl)) /\ \A i \in DOMAIN to : Passes(A, T, pl, M[to[i]])
    BY <1>2, <1>4
  <2>2. Starts(A, k2, lab) /\ Within(A, k2) /\ Waits(A, T, k2, lab, pl)
    BY <1>1, <2>1 DEF Right, Starts, Within, Waits
  <2>3. CASE k2.code = << >>
    <3>1. \A i \in DOMAIN to : A[M[to[i]]] = A[lab] /\ <<lab, M[to[i]]>> \in T
      BY <2>1, <2>2, <2>3 DEF Waits, Same, Passes
    <3>2. Ends(A, T, M, k2, lab)
      BY <2>3, <3>1 DEF Ends
    <3> QED
      BY <1>1, <2>2, <3>2 DEF Right
  <2>4. CASE k2.code # << >>
    <3>1. Flow(A, Last(k2.code)) = <<A[pl]>> /\ Last(k2.code).tag \notin Decisions
      BY <1>1, <1>2, <2>2, <2>4 DEF Waits, Shaped
    <3>2. Ends(A, T, M, k2, lab)
      BY <2>1, <2>4, <3>1 DEF Ends, Passes
    <3> QED
      BY <1>1, <2>2, <3>2 DEF Right
  <2> QED
    BY <2>3, <2>4
<1> QED
  BY <1>3, <1>4 DEF Good

-----------------------------------------------------------------------------
(* Positions in increasing order                                             *)

\* s lists the n positions of S in increasing order.
Orders(s, n, S) ==
  /\ s \in [1 .. n -> S]
  /\ \A i, j \in 1 .. n : i < j => s[i] < s[j]
  /\ \A x \in S : \E i \in 1 .. n : s[i] = x

\* Every set of positions has a list.
LEMMA OrderExists ==
  ASSUME NEW N \in Nat, NEW S \in SUBSET (1 .. N)
  PROVE  \E n \in Nat : \E s : Orders(s, n, S)
<1> DEFINE Q(m) == \E n \in Nat : \E s : Orders(s, n, S \cap 1 .. m)
           R    == {m \in 0 .. N : ~ Q(m)}
<1>1. Q(0)
  <2>1. S \cap 1 .. 0 = {} /\ 1 .. 0 = {}
    OBVIOUS
  <2> DEFINE s == [i \in {} |-> 0]
  <2>2. s \in [1 .. 0 -> S \cap 1 .. 0]
    BY <2>1
  <2>3. Orders(s, 0, S \cap 1 .. 0)
    BY <2>1, <2>2 DEF Orders
  <2> QED
    BY <2>3
<1>2. ASSUME NEW m \in 1 .. N, Q(m - 1)
      PROVE  Q(m)
  <2> DEFINE U == S \cap 1 .. m - 1
             V == S \cap 1 .. m
  <2>1. PICK n \in Nat : \E s : Orders(s, n, U)
    BY <1>2
  <2>2. PICK s : Orders(s, n, U)
    BY <2>1
  <2>3. \A x \in U : x \in Nat /\ x < m
    OBVIOUS
  <2>4. CASE m \notin S
    <3>1. V = U
      BY <2>4
    <3> QED
      BY <2>2, <3>1
  <2>5. CASE m \in S
    <3>1. V = U \cup {m}
      BY <2>5
    <3> HIDE DEF U, V
    <3> DEFINE t == [i \in 1 .. n + 1 |-> IF i = n + 1 THEN m ELSE s[i]]
    <3>2. \A i \in 1 .. n + 1 : i = n + 1 \/ i \in 1 .. n
      OBVIOUS
    <3>3. \A i \in 1 .. n : i \in 1 .. n + 1 /\ i # n + 1 /\ s[i] \in U
      BY <2>2 DEF Orders
    <3>4. t \in [1 .. n + 1 -> V]
      BY <3>1, <3>2, <3>3
    <3>5. ASSUME NEW i \in 1 .. n + 1, NEW j \in 1 .. n + 1, i < j
          PROVE  t[i] < t[j]
      <4>1. i \in 1 .. n /\ t[i] = s[i]
        BY <3>2, <3>3, <3>5
      <4>2. CASE j = n + 1
        BY <2>3, <3>3, <4>1, <4>2
      <4>3. CASE j # n + 1
        <5>1. j \in 1 .. n /\ t[j] = s[j]
          BY <3>2, <4>3
        <5> QED
          BY <2>2, <3>5, <4>1, <5>1 DEF Orders
      <4> QED
        BY <4>2, <4>3
    <3>6. ASSUME NEW x \in V
          PROVE  \E i \in 1 .. n + 1 : t[i] = x
      <4>1. CASE x = m
        <5>1. n + 1 \in 1 .. n + 1
          OBVIOUS
        <5> QED
          BY <4>1, <5>1
      <4>2. CASE x # m
        <5>1. PICK i \in 1 .. n : s[i] = x
          BY <2>2, <3>1, <4>2 DEF Orders
        <5> QED
          BY <3>3, <5>1
      <4> QED
        BY <4>1, <4>2
    <3> HIDE DEF t
    <3>7. Orders(t, n + 1, V)
      BY <3>4, <3>5, <3>6 DEF Orders
    <3>8. n + 1 \in Nat
      OBVIOUS
    <3> QED
      BY <3>7, <3>8 DEF V
  <2> QED
    BY <2>4, <2>5
<1>3. R = {}
  <2> SUFFICES ASSUME R # {} PROVE FALSE
    OBVIOUS
  <2>1. PICK m \in R : \A k \in R : m <= k
    <3>1. R \in SUBSET Nat
      OBVIOUS
    <3> HIDE DEF R
    <3> QED
      BY <3>1, Least
  <2>2. m \in 0 .. N /\ ~ Q(m)
    BY <2>1
  <2>3. m # 0
    BY <1>1, <2>2
  <2>4. m \in 1 .. N /\ m - 1 \in 0 .. N /\ ~ (m <= m - 1)
    BY <2>2, <2>3
  <2>5. Q(m - 1)
    BY <2>1, <2>4
  <2> HIDE DEF Q
  <2> QED
    BY <1>2, <2>2, <2>4, <2>5
<1>4. Q(N)
  <2>1. N \in 0 .. N
    OBVIOUS
  <2> HIDE DEF Q
  <2> QED
    BY <1>3, <2>1
<1>5. S \cap 1 .. N = S
  OBVIOUS
<1> QED
  BY <1>4, <1>5

\* The length of a list is the number of positions.
LEMMA OrderLength ==
  ASSUME NEW S, NEW n \in Nat, NEW s, Orders(s, n, S), S \in SUBSET Nat
  PROVE  Cardinality(S) = n
<1>1. s \in Injection(1 .. n, S)
  <2>1. ASSUME NEW i \in 1 .. n, NEW j \in 1 .. n, s[i] = s[j]
        PROVE  i = j
    <3>1. s[i] \in Nat /\ s[j] \in Nat
      BY DEF Orders
    <3>2. ~ (i < j) /\ ~ (j < i)
      BY <2>1, <3>1 DEF Orders
    <3> QED
      BY <3>2
  <2> QED
    BY <2>1 DEF Orders, Injection, IsInjective
<1>2. s \in Surjection(1 .. n, S)
  BY DEF Orders, Surjection
<1>3. ExistsBijection(1 .. n, S)
  BY <1>1, <1>2 DEF ExistsBijection, Bijection
<1> QED
  BY <1>3, FS_CountingElements

\* There is only one list.
LEMMA OrderUnique ==
  ASSUME NEW S \in SUBSET Nat, NEW n \in Nat, NEW s, Orders(s, n, S), NEW u, Orders(u, n, S)
  PROVE  s = u
<1> DEFINE D == {k \in 1 .. n : s[k] # u[k]}
<1>1. \A k \in 1 .. n : s[k] \in S /\ u[k] \in S /\ s[k] \in Nat /\ u[k] \in Nat
  BY DEF Orders
<1>2. D = {}
  <2> SUFFICES ASSUME D # {} PROVE FALSE
    OBVIOUS
  <2>1. PICK k \in D : \A j \in D : k <= j
    <3>1. D \in SUBSET Nat
      OBVIOUS
    <3> HIDE DEF D
    <3> QED
      BY <3>1, Least
  <2>2. k \in 1 .. n /\ s[k] # u[k]
    BY <2>1
  <2>3. \A j \in 1 .. n : j < k => s[j] = u[j]
    <3> TAKE j \in 1 .. n
    <3>1. CASE j \in D
      BY <2>1, <3>1
    <3>2. CASE j \notin D
      BY <3>2
    <3> QED
      BY <3>1, <3>2
  <2>4. PICK i \in 1 .. n : u[i] = s[k]
    BY <1>1, <2>2 DEF Orders
  <2>5. PICK j \in 1 .. n : s[j] = u[k]
    BY <1>1, <2>2 DEF Orders
  <2>6. ~ (i < k)
    <3> SUFFICES ASSUME i < k PROVE FALSE
      OBVIOUS
    <3>1. s[i] < s[k] /\ s[i] = s[k]
      BY <2>2, <2>3, <2>4 DEF Orders
    <3> QED
      BY <1>1, <2>2, <3>1
  <2>7. ~ (j < k)
    <3> SUFFICES ASSUME j < k PROVE FALSE
      OBVIOUS
    <3>1. u[j] < u[k] /\ u[j] = u[k]
      BY <2>2, <2>3, <2>5 DEF Orders
    <3> QED
      BY <1>1, <2>2, <3>1
  <2>8. k < i /\ k < j
    BY <2>2, <2>4, <2>5, <2>6, <2>7
  <2>9. u[k] < u[i] /\ s[k] < s[j]
    BY <2>2, <2>8 DEF Orders
  <2> QED
    BY <1>1, <2>2, <2>4, <2>5, <2>9
<1>3. \A k \in 1 .. n : s[k] = u[k]
  BY <1>2
<1> QED
  BY <1>3 DEF Orders

\* InOrder is that list.
LEMMA InOrderIs ==
  ASSUME NEW S \in SUBSET Nat, NEW n \in Nat, NEW s, Orders(s, n, S)
  PROVE  InOrder(S) = s
<1>1. Cardinality(S) = n
  BY OrderLength
<1>2. /\ s \in [1 .. Cardinality(S) -> S]
      /\ \A i, j \in 1 .. Cardinality(S) : i < j => s[i] < s[j]
      /\ \A x \in S : \E i \in 1 .. Cardinality(S) : s[i] = x
  BY <1>1 DEF Orders
<1>3. /\ InOrder(S) \in [1 .. Cardinality(S) -> S]
      /\ \A i, j \in 1 .. Cardinality(S) : i < j => InOrder(S)[i] < InOrder(S)[j]
      /\ \A x \in S : \E i \in 1 .. Cardinality(S) : InOrder(S)[i] = x
  BY <1>2, Zenon DEF InOrder
<1>4. Orders(InOrder(S), n, S)
  BY <1>1, <1>3 DEF Orders
<1> QED
  BY <1>4, OrderUnique

\* InOrder lists positions.
LEMMA InOrderPositions ==
  ASSUME NEW N \in Nat, NEW S \in SUBSET (1 .. N)
  PROVE  \A i \in DOMAIN InOrder(S) : InOrder(S)[i] \in 1 .. N
<1>1. PICK n \in Nat : \E s : Orders(s, n, S)
  BY OrderExists
<1>2. PICK s : Orders(s, n, S)
  BY <1>1
<1>3. S \in SUBSET Nat
  OBVIOUS
<1>4. InOrder(S) = s
  BY <1>2, <1>3, InOrderIs
<1> QED
  BY <1>2, <1>4 DEF Orders

-----------------------------------------------------------------------------
(* The program itself gives a solution                                       *)

\* A function that refers to itself at greater arguments exists.
FollowsTo(F, N, g, v) == F = [p \in 1 .. N |-> IF g[p] > p THEN F[g[p]] ELSE v[p]]

LEMMA Backwards ==
  ASSUME NEW N \in Nat, NEW g \in [1 .. N -> 0 .. N], NEW v
  PROVE  \E F : FollowsTo(F, N, g, v)
<1> DEFINE Q(m) == \E F : F = [p \in N + 1 - m .. N |-> IF g[p] > p THEN F[g[p]] ELSE v[p]]
           S    == {m \in 0 .. N : ~ Q(m)}
<1>1. ASSUME NEW m \in 0 .. N, m # 0, Q(m - 1)
      PROVE  Q(m)
  <2> DEFINE k == N + 1 - m
  <2>1. k \in 1 .. N /\ N + 1 - (m - 1) = k + 1
    BY <1>1
  <2>2. PICK F : F = [p \in k + 1 .. N |-> IF g[p] > p THEN F[g[p]] ELSE v[p]]
    BY <1>1, <2>1
  <2> HIDE DEF k
  <2> DEFINE e == IF g[k] > k THEN F[g[k]] ELSE v[k]
             G == [p \in k .. N |-> IF p = k THEN e ELSE F[p]]
  <2>3. \A p \in k .. N : p = k \/ p \in k + 1 .. N
    BY <2>1
  <2>4. \A p \in k .. N : g[p] > p => g[p] \in k + 1 .. N /\ g[p] \in k .. N /\ g[p] # k
    BY <2>1
  <2>5. \A p \in k + 1 .. N : p # k /\ p \in k .. N
    BY <2>1
  <2>6. \A p \in k .. N : g[p] > p => G[g[p]] = F[g[p]]
    BY <2>4
  <2>7. \A p \in k .. N : (IF p = k THEN e ELSE F[p]) = IF g[p] > p THEN G[g[p]] ELSE v[p]
    <3> TAKE p \in k .. N
    <3>1. CASE p = k
      BY <2>6, <3>1
    <3>2. CASE p # k
      <4>1. F[p] = IF g[p] > p THEN F[g[p]] ELSE v[p]
        BY <2>2, <2>3, <3>2
      <4> HIDE DEF G, e
      <4> QED
        BY <2>6, <3>2, <4>1
    <3> QED
      BY <3>1, <3>2
  <2>8. G = [p \in k .. N |-> IF g[p] > p THEN G[g[p]] ELSE v[p]]
    <3>1. G = [p \in k .. N |-> IF p = k THEN e ELSE F[p]]
      OBVIOUS
    <3> HIDE DEF G, e
    <3> QED
      BY <2>7, <3>1
  <2> HIDE DEF G
  <2> QED
    BY <2>8 DEF k
<1>2. Q(0)
  <2>1. N + 1 - 0 .. N = {}
    OBVIOUS
  <2> DEFINE F == [p \in {} |-> 0]
  <2>2. F = [p \in N + 1 - 0 .. N |-> IF g[p] > p THEN F[g[p]] ELSE v[p]]
    BY <2>1
  <2> QED
    BY <2>2
<1>3. S = {}
  <2> SUFFICES ASSUME S # {} PROVE FALSE
    OBVIOUS
  <2>1. PICK m \in S : \A k \in S : m <= k
    <3>1. S \in SUBSET Nat
      OBVIOUS
    <3> HIDE DEF S
    <3> QED
      BY <3>1, Least
  <2>2. m \in 0 .. N /\ ~ Q(m)
    BY <2>1
  <2>3. m # 0
    BY <1>2, <2>2
  <2>4. m - 1 \in 0 .. N /\ ~ (m <= m - 1)
    BY <2>2, <2>3
  <2>5. Q(m - 1)
    BY <2>1, <2>4
  <2> HIDE DEF Q
  <2> QED
    BY <1>1, <2>2, <2>3, <2>5
<1>4. Q(N)
  <2>1. N \in 0 .. N
    OBVIOUS
  <2> HIDE DEF Q
  <2> QED
    BY <1>3, <2>1
<1>5. N + 1 - N = 1
  OBVIOUS
<1> QED
  BY <1>4, <1>5 DEF FollowsTo

\* What is known of the tokens of a program, finished or not: `of' links back to a token of
\* the construct around it, a construct is closed once and after all that belongs to it, and
\* main is compiled once.
TokensRight ==
  /\ funcs[Main].at \in Nat \ {0}
  /\ \A q \in 1 .. Len(src) :
       /\ src[q].of < q
       /\ src[q].op \in Closers \cup {"else"} => src[q].of # 0
       /\ src[q].op = "else" => src[src[q].of].form = "else"
       /\ src[q].op = "check" => src[q].form \in {"index", "substring", "assertion"}
       /\ src[q].op = "func" /\ src[q].form = "main" => q = funcs[Main].at
  /\ \A q, r \in 1 .. Len(src) : src[r].of = src[q].of =>
       /\ src[r].op \in Closers => q <= r
       /\ src[q].op = "else" /\ src[r].op = "else" => q = r

\* The first items executed at place pl, by the program.
ElseOf(p)  == CHOOSE q \in DOMAIN src : src[q].op = "else" /\ src[q].of = p
FirstAt(pl) ==
  LET p == pl[1]
      m == pl[2]
  IN  CASE m = "after" -> After(p)
        [] m = "else"  -> Else(p)
        [] m = "cond"  -> CondItem(p)
        [] m = "body"  -> BodyItem(p)
        [] m \in {"safe", "side"} -> SafeItem(p)
        [] m \in {"panic", "post", "end"} -> {It(p, m)}
        [] m = "dflt"  -> DefaultItem(p)
        [] m = "cases" -> [i \in DOMAIN CaseStarts(p) |-> Arrive[CaseStarts(p)[i] + 1]]
        [] m = "at"    -> Arrive[p]
        [] m = "entry" /\ p = 0 -> Arrive[funcs[Main].at + 1]
        [] OTHER -> Arrive[p + 1]
First == [pl \in Places |-> FirstAt(pl)]

\* How many places control passes at most, from place pl on, before it executes an item.
DepthOf(p) == IF p \in 1 .. Len(src) + 2 THEN 3 * (Len(src) + 2 - p) ELSE 0
DepthAt(pl) ==
  LET p == pl[1]
      m == pl[2]
  IN  CASE m = "at"    -> DepthOf(p)
        [] m = "after" -> DepthOf(EndOf(p) + 1)
        [] m = "else"  -> DepthOf(IF src[p].form = "else" THEN ElseOf(p) + 1 ELSE EndOf(p) + 1)
        [] m = "dflt"  -> IF src[p].form = "default" THEN DepthOf(p + 1)
                                                     ELSE DepthOf(EndOf(p) + 1) + 1
        [] m \in {"side", "copy"} -> DepthOf(p + 1) + 2
        [] m = "bytes" -> DepthOf(p + 1) + 1
        [] m \in {"body", "safe", "add"} -> DepthOf(p + 1)
        [] m = "entry" -> DepthOf((IF p = 0 THEN funcs[Main].at ELSE p) + 1)
        [] OTHER       -> 0
Depth == [pl \in Places |-> DepthAt(pl)]
Ahead == {ab \in Places \X Places : Depth[ab[2]] < Depth[ab[1]]}

\* Depths are bounded.
LEMMA DepthTypes ==
  ASSUME Len(src) \in Nat
  PROVE  /\ \A x : DepthOf(x) \in Nat /\ DepthOf(x) <= 3 * Len(src) + 3
         /\ \A pl \in Places : Depth[pl] \in Nat /\ Depth[pl] <= 3 * Len(src) + 5
<1>1. \A x : DepthOf(x) \in Nat /\ DepthOf(x) <= 3 * Len(src) + 3
  <2> TAKE x
  <2>1. CASE x \in 1 .. Len(src) + 2
    BY <2>1 DEF DepthOf
  <2>2. CASE x \notin 1 .. Len(src) + 2
    BY <2>2 DEF DepthOf
  <2> QED
    BY <2>1, <2>2
<1>2. ASSUME NEW pl \in Places
      PROVE  Depth[pl] \in Nat /\ Depth[pl] <= 3 * Len(src) + 5
  <2>1. \E x : DepthAt(pl) \in {0, DepthOf(x), DepthOf(x) + 1, DepthOf(x) + 2}
    BY Zenon DEF DepthAt
  <2>2. PICK x : DepthAt(pl) \in {0, DepthOf(x), DepthOf(x) + 1, DepthOf(x) + 2}
    BY <2>1
  <2>3. DepthOf(x) \in Nat /\ DepthOf(x) <= 3 * Len(src) + 3
    BY <1>1
  <2>4. DepthAt(pl) \in Nat /\ DepthAt(pl) <= 3 * Len(src) + 5
    BY <2>2, <2>3
  <2> QED
    BY <2>4 DEF Depth
<1> QED
  BY <1>1, <1>2

\* One place passes control to another, or is the same.
LEMMA AheadOf ==
  ASSUME NEW a \in Places, NEW b \in Places, Len(src) \in Nat, FirstAt(a) = FirstAt(b)
  PROVE  /\ DepthAt(b) < DepthAt(a)  => Passes(First, Ahead, a, b)
         /\ DepthAt(b) <= DepthAt(a) => Same(First, Ahead, a, b)
<1>1. First[a] = First[b] /\ Depth[a] = DepthAt(a) /\ Depth[b] = DepthAt(b)
  BY DEF First, Depth
<1>2. \A pl \in Places : Depth[pl] \in Nat
  BY DepthTypes
<1>3. \A x, y : <<x, y>> \in Ahead <=> x \in Places /\ y \in Places /\ Depth[y] < Depth[x]
  BY DEF Ahead
<1>4. ASSUME DepthAt(b) < DepthAt(a) PROVE Passes(First, Ahead, a, b)
  BY <1>1, <1>3, <1>4 DEF Passes
<1>5. ASSUME DepthAt(b) <= DepthAt(a) PROVE Same(First, Ahead, a, b)
  <2>1. ASSUME NEW z, <<b, z>> \in Ahead
        PROVE  <<a, z>> \in Ahead
    <3>1. z \in Places /\ Depth[z] < Depth[b]
      BY <1>3, <2>1
    <3>2. Depth[z] < Depth[a]
      BY <1>1, <1>2, <1>5, <3>1
    <3> QED
      BY <1>3, <3>1, <3>2
  <2> QED
    BY <1>1, <2>1 DEF Same
<1> QED
  BY <1>4, <1>5

\* The end of a construct, by TokensRight.
LEMMA EndOfIs ==
  ASSUME src \in Seq(Token), TokensRight
  PROVE  /\ \A p : EndOf(p) \in 1 .. Len(src) + 1
         /\ \A p \in 1 .. Len(src) : p < EndOf(p)
         /\ \A q \in 1 .. Len(src) : q <= EndOf(src[q].of)
         /\ \A q \in 1 .. Len(src) : src[q].op \in Closers => EndOf(src[q].of) = q
<1>1. Len(src) \in Nat /\ DOMAIN src = 1 .. Len(src)
  BY LenProperties
<1>2. ASSUME NEW p
      PROVE  \/ EndOf(p) = Len(src) + 1 /\ \A q \in 1 .. Len(src) : ~ Closes(q, p)
             \/ EndOf(p) \in 1 .. Len(src) /\ Closes(EndOf(p), p)
  BY <1>1, Zenon DEF EndOf
<1>3. \A p : EndOf(p) \in 1 .. Len(src) + 1
  BY <1>1, <1>2
<1>4. ASSUME NEW p \in 1 .. Len(src)
      PROVE  p < EndOf(p)
  <2>1. CASE EndOf(p) = Len(src) + 1
    BY <1>1, <2>1
  <2>2. CASE EndOf(p) \in 1 .. Len(src) /\ Closes(EndOf(p), p)
    BY <2>2 DEF Closes, TokensRight
  <2> QED
    BY <1>2, <2>1, <2>2
<1>5. ASSUME NEW q \in 1 .. Len(src)
      PROVE  q <= EndOf(src[q].of)
  <2>1. CASE EndOf(src[q].of) = Len(src) + 1
    BY <1>1, <2>1
  <2>2. CASE EndOf(src[q].of) \in 1 .. Len(src) /\ Closes(EndOf(src[q].of), src[q].of)
    BY <2>2 DEF Closes, TokensRight
  <2> QED
    BY <1>2, <2>1, <2>2
<1>6. ASSUME NEW q \in 1 .. Len(src), src[q].op \in Closers
      PROVE  EndOf(src[q].of) = q
  <2>1. Closes(q, src[q].of)
    BY <1>6 DEF Closes
  <2>2. EndOf(src[q].of) \in 1 .. Len(src) /\ Closes(EndOf(src[q].of), src[q].of)
    BY <1>2, <2>1
  <2>3. EndOf(src[q].of) <= q
    BY <1>6, <2>2 DEF Closes, TokensRight
  <2> QED
    BY <1>5, <2>2, <2>3
<1> QED
  BY <1>3, <1>4, <1>5, <1>6

\* Arrive, token by token.
LEMMA ArriveIs ==
  ASSUME src \in Seq(Token), TokensRight
  PROVE  \A p \in 1 .. Len(src) :
           Arrive[p] = IF PassesTo(p) > p THEN Arrive[PassesTo(p)] ELSE ItemsAt(p)
<1> DEFINE N == Len(src) + 2
           g == [p \in 1 .. N |-> IF p <= Len(src) /\ PassesTo(p) > p THEN PassesTo(p) ELSE 0]
           v == [p \in 1 .. N |-> IF p > Len(src) THEN {} ELSE ItemsAt(p)]
<1>1. N \in Nat /\ Len(src) \in Nat
  BY LenProperties
<1>2. ASSUME NEW p \in 1 .. Len(src)
      PROVE  PassesTo(p) \in 0 .. N
  <2>1. EndOf(src[p].of) \in 1 .. Len(src) + 1 /\ EndOf(p) \in 1 .. Len(src) + 1
    BY EndOfIs
  <2>2. PassesTo(p) \in {p + 1, EndOf(src[p].of) + 1, p + 2, EndOf(p) + 1, 0}
    BY Zenon DEF PassesTo
  <2> QED
    BY <1>1, <2>1, <2>2
<1>3. g \in [1 .. N -> 0 .. N]
  <2> SUFFICES ASSUME NEW p \in 1 .. N
               PROVE  (IF p <= Len(src) /\ PassesTo(p) > p THEN PassesTo(p) ELSE 0) \in 0 .. N
    OBVIOUS
  <2>1. CASE p <= Len(src)
    <3>1. p \in 1 .. Len(src)
      BY <1>1, <2>1
    <3>2. PassesTo(p) \in 0 .. N
      BY <1>2, <3>1
    <3> QED
      BY <1>1, <3>2
  <2>2. CASE ~ (p <= Len(src))
    BY <1>1, <2>2
  <2> QED
    BY <2>1, <2>2
<1>4. \E F : FollowsTo(F, N, g, v)
  <2> HIDE DEF N, g, v
  <2> QED
    BY <1>1, <1>3, Backwards
<1>5. PICK F : F = [p \in 1 .. N |-> IF g[p] > p THEN F[g[p]] ELSE v[p]]
  BY <1>4 DEF FollowsTo
<1>6. \A p \in 1 .. N : (IF g[p] > p THEN F[g[p]] ELSE v[p])
         = IF p > Len(src) THEN {} ELSE IF PassesTo(p) > p THEN F[PassesTo(p)] ELSE ItemsAt(p)
  <2> TAKE p \in 1 .. N
  <2>1. CASE p > Len(src)
    <3>1. g[p] = 0 /\ v[p] = {} /\ ~ (g[p] > p)
      BY <1>1, <2>1
    <3> QED
      BY <2>1, <3>1
  <2>2. CASE ~ (p > Len(src)) /\ PassesTo(p) > p
    <3>1. p <= Len(src)
      BY <1>1, <2>2
    <3>2. g[p] = PassesTo(p)
      BY <2>2, <3>1
    <3> QED
      BY <2>2, <3>2
  <2>3. CASE ~ (p > Len(src)) /\ ~ (PassesTo(p) > p)
    <3>1. g[p] = 0 /\ ~ (g[p] > p) /\ v[p] = ItemsAt(p)
      BY <1>1, <2>3
    <3> QED
      BY <2>3, <3>1
  <2> QED
    BY <2>1, <2>2, <2>3
<1>7. F = [p \in 1 .. N |-> IF p > Len(src) THEN {}
                            ELSE IF PassesTo(p) > p THEN F[PassesTo(p)] ELSE ItemsAt(p)]
  <2> HIDE DEF g, v, N
  <2> QED
    BY <1>5, <1>6
<1>8. Arrive = [p \in 1 .. N |-> IF p > Len(src) THEN {}
                                 ELSE IF PassesTo(p) > p THEN Arrive[PassesTo(p)] ELSE ItemsAt(p)]
  <2> QED
    BY <1>7, Zenon DEF Arrive
<1>9. \A p \in 1 .. Len(src) : p \in 1 .. N /\ ~ (p > Len(src))
  BY <1>1
<1> HIDE DEF N
<1> QED
  BY <1>8, <1>9

\* First and Depth, mark by mark.
LEMMA FirstOf ==
  ASSUME NEW p \in Nat
  PROVE  /\ \A m \in Marks : <<p, m>> \in Places /\ First[<<p, m>>] = FirstAt(<<p, m>>)
         /\ FirstAt(<<p, "at">>)    = Arrive[p]
         /\ FirstAt(<<p, "after">>) = After(p)
         /\ FirstAt(<<p, "else">>)  = Else(p)
         /\ FirstAt(<<p, "cond">>)  = CondItem(p)
         /\ FirstAt(<<p, "body">>)  = BodyItem(p)
         /\ FirstAt(<<p, "safe">>)  = SafeItem(p)
         /\ FirstAt(<<p, "side">>)  = SafeItem(p)
         /\ FirstAt(<<p, "panic">>) = {It(p, "panic")}
         /\ FirstAt(<<p, "post">>)  = {It(p, "post")}
         /\ FirstAt(<<p, "end">>)   = {It(p, "end")}
         /\ FirstAt(<<p, "dflt">>)  = DefaultItem(p)
         /\ FirstAt(<<p, "cases">>) = [i \in DOMAIN CaseStarts(p) |-> Arrive[CaseStarts(p)[i] + 1]]
         /\ FirstAt(<<p, "copy">>)  = Arrive[p + 1]
         /\ FirstAt(<<p, "bytes">>) = Arrive[p + 1]
         /\ FirstAt(<<p, "add">>)   = Arrive[p + 1]
         /\ p = 0 => FirstAt(<<p, "entry">>) = Arrive[funcs[Main].at + 1]
         /\ p # 0 => FirstAt(<<p, "entry">>) = Arrive[p + 1]
<1>1. \A m \in Marks : <<p, m>> \in Places /\ First[<<p, m>>] = FirstAt(<<p, m>>)
  BY DEF Places, First
<1> QED
  BY <1>1 DEF FirstAt

LEMMA DepthAtOf ==
  ASSUME NEW p
  PROVE  /\ DepthAt(<<p, "at">>)    = DepthOf(p)
         /\ DepthAt(<<p, "after">>) = DepthOf(EndOf(p) + 1)
         /\ DepthAt(<<p, "else">>)  = DepthOf(IF src[p].form = "else" THEN ElseOf(p) + 1 ELSE EndOf(p) + 1)
         /\ DepthAt(<<p, "body">>)  = DepthOf(p + 1)
         /\ DepthAt(<<p, "safe">>)  = DepthOf(p + 1)
         /\ DepthAt(<<p, "side">>)  = DepthOf(p + 1) + 2
         /\ DepthAt(<<p, "post">>)  = 0
         /\ DepthAt(<<p, "dflt">>)  = IF src[p].form = "default" THEN DepthOf(p + 1)
                                                                 ELSE DepthOf(EndOf(p) + 1) + 1
         /\ DepthAt(<<p, "copy">>)  = DepthOf(p + 1) + 2
         /\ DepthAt(<<p, "bytes">>) = DepthOf(p + 1) + 1
         /\ DepthAt(<<p, "add">>)   = DepthOf(p + 1)
         /\ DepthAt(<<p, "entry">>) = DepthOf((IF p = 0 THEN funcs[Main].at ELSE p) + 1)
BY DEF DepthAt

\* First is a solution of the program.
LEMMA FirstSolves ==
  ASSUME src \in Seq(Token), TokensRight
  PROVE  Solves(First, Ahead, src)
<1> SUFFICES ASSUME NEW p \in 1 .. Len(src)
             PROVE  Says(First, Ahead, src[p], p, CasesBefore(src, p))
  BY DEF Solves
<1> DEFINE t == src[p]
           A == First
           T == Ahead
<1>1. /\ Len(src) \in Nat /\ p \in Nat /\ p + 1 \in Nat /\ p + 2 \in Nat /\ p # 0
      /\ t \in Token /\ t.of \in Nat /\ t.of < p
      /\ DOMAIN src = 1 .. Len(src)
  <2>1. Len(src) \in Nat /\ DOMAIN src = 1 .. Len(src) /\ t \in Token
    BY LenProperties
  <2>2. t.of \in Nat
    BY <2>1 DEF Token
  <2>3. t.of < p
    BY DEF TokensRight
  <2>4. p \in Nat /\ p + 1 \in Nat /\ p + 2 \in Nat /\ p # 0
    BY <2>1
  <2> QED
    BY <2>1, <2>2, <2>3, <2>4
<1>2. \A m \in Marks : /\ <<p, m>> \in Places /\ A[<<p, m>>] = FirstAt(<<p, m>>)
                       /\ <<p + 1, m>> \in Places /\ A[<<p + 1, m>>] = FirstAt(<<p + 1, m>>)
                       /\ <<p + 2, m>> \in Places /\ A[<<p + 2, m>>] = FirstAt(<<p + 2, m>>)
                       /\ <<t.of, m>> \in Places /\ A[<<t.of, m>>] = FirstAt(<<t.of, m>>)
  BY <1>1, FirstOf, Zenon
<1>3. /\ EndOf(p) \in 1 .. Len(src) + 1 /\ EndOf(t.of) \in 1 .. Len(src) + 1
      /\ p < EndOf(p) /\ p <= EndOf(t.of)
      /\ t.op \in Closers => EndOf(t.of) = p
  BY EndOfIs
<1>4. Arrive[p] = IF PassesTo(p) > p THEN Arrive[PassesTo(p)] ELSE ItemsAt(p)
  BY ArriveIs
<1>5. /\ DepthOf(p) \in Nat /\ DepthOf(p + 1) \in Nat /\ DepthOf(EndOf(p) + 1) \in Nat
      /\ DepthOf(EndOf(t.of) + 1) \in Nat
      /\ DepthOf(p) = DepthOf(p + 1) + 3
      /\ DepthOf(p + 2) < DepthOf(p)
      /\ DepthOf(EndOf(p) + 1) < DepthOf(p)
      /\ DepthOf(EndOf(t.of) + 1) < DepthOf(p)
  <2>1. \A x \in 1 .. Len(src) + 2 : DepthOf(x) = 3 * (Len(src) + 2 - x)
    BY DEF DepthOf
  <2> HIDE DEF t
  <2>2. /\ p \in 1 .. Len(src) + 2 /\ p + 1 \in 1 .. Len(src) + 2 /\ p + 2 \in 1 .. Len(src) + 2
        /\ EndOf(p) + 1 \in 1 .. Len(src) + 2 /\ EndOf(t.of) + 1 \in 1 .. Len(src) + 2
    BY <1>1, <1>3
  <2>3. /\ DepthOf(p) = 3 * (Len(src) + 2 - p) /\ DepthOf(p + 1) = 3 * (Len(src) + 2 - (p + 1))
        /\ DepthOf(p + 2) = 3 * (Len(src) + 2 - (p + 2))
        /\ DepthOf(EndOf(p) + 1) = 3 * (Len(src) + 2 - (EndOf(p) + 1))
        /\ DepthOf(EndOf(t.of) + 1) = 3 * (Len(src) + 2 - (EndOf(t.of) + 1))
    BY <2>1, <2>2
  <2> DEFINE e == EndOf(p)
             d == EndOf(t.of)
             n == Len(src)
  <2>4. n \in Nat /\ e \in 1 .. n + 1 /\ d \in 1 .. n + 1 /\ p < e /\ p <= d /\ p \in 1 .. n
    BY <1>1, <1>3
  <2>5. /\ DepthOf(p) = 3 * (n + 2 - p) /\ DepthOf(p + 1) = 3 * (n + 2 - (p + 1))
        /\ DepthOf(p + 2) = 3 * (n + 2 - (p + 2)) /\ DepthOf(e + 1) = 3 * (n + 2 - (e + 1))
        /\ DepthOf(d + 1) = 3 * (n + 2 - (d + 1))
    BY <2>3
  <2> HIDE DEF e, d, n
  <2>6. /\ DepthOf(p) \in Nat /\ DepthOf(p + 1) \in Nat /\ DepthOf(e + 1) \in Nat
        /\ DepthOf(d + 1) \in Nat /\ DepthOf(p) = DepthOf(p + 1) + 3
        /\ DepthOf(p + 2) < DepthOf(p) /\ DepthOf(e + 1) < DepthOf(p) /\ DepthOf(d + 1) < DepthOf(p)
    BY <2>4, <2>5
  <2> QED
    BY <2>6 DEF e, d
<1>6. A[<<p, "panic">>] = {It(p, "panic")}
  BY <1>1, <1>2, FirstOf DEF Marks
<1>7. \A a \in Places, b \in Places : FirstAt(a) = FirstAt(b) =>
        /\ DepthAt(b) < DepthAt(a)  => Passes(A, T, a, b)
        /\ DepthAt(b) <= DepthAt(a) => Same(A, T, a, b)
  BY <1>1, AheadOf
<1> HIDE DEF A, T, t
<1>25. /\ FirstAt(<<p, "at">>) = Arrive[p] /\ FirstAt(<<p + 1, "at">>) = Arrive[p + 1]
       /\ FirstAt(<<p + 2, "at">>) = Arrive[p + 2]
       /\ FirstAt(<<p, "after">>) = After(p) /\ FirstAt(<<t.of, "after">>) = After(t.of)
       /\ FirstAt(<<t.of, "post">>) = {It(t.of, "post")}
       /\ FirstAt(<<t.of, "else">>) = Else(t.of)
  BY <1>1, FirstOf, Zenon
<1>26. /\ DepthAt(<<p, "at">>) = DepthOf(p) /\ DepthAt(<<p + 1, "at">>) = DepthOf(p + 1)
       /\ DepthAt(<<p + 2, "at">>) = DepthOf(p + 2)
       /\ DepthAt(<<p, "after">>) = DepthOf(EndOf(p) + 1)
       /\ DepthAt(<<t.of, "after">>) = DepthOf(EndOf(t.of) + 1)
       /\ DepthAt(<<t.of, "post">>) = 0
       /\ DepthAt(<<p, "safe">>) = DepthOf(p + 1) /\ DepthAt(<<p, "body">>) = DepthOf(p + 1)
       /\ DepthAt(<<p, "side">>) = DepthOf(p + 1) + 2
       /\ DepthAt(<<p, "entry">>) = DepthOf(p + 1)
       /\ DepthAt(<<0, "entry">>) = DepthOf(funcs[Main].at + 1)
  BY <1>1, DepthAtOf, Zenon
<1>27. /\ \A m \in {"at", "after", "else", "body", "safe", "side", "copy", "bytes", "add", "dflt", "entry"} :
              <<p, m>> \in Places
       /\ <<p + 1, "at">> \in Places /\ <<p + 2, "at">> \in Places
       /\ <<t.of, "after">> \in Places /\ <<t.of, "else">> \in Places /\ <<t.of, "post">> \in Places
  BY <1>2 DEF Marks
<1>28. A[<<p, "at">>] = Arrive[p]
  BY <1>2, <1>25 DEF Marks
<1>29. PassesTo(p) = 0 => Arrive[p] = ItemsAt(p)
  BY <1>1, <1>4
<1>8. t.op = "stmt" => A[<<p, "at">>] = {It(p, "stmt")}
  BY <1>28, <1>29, Zenon DEF t, PassesTo, ItemsAt
<1>9. ASSUME t.op = "check"
      PROVE  /\ Same(A, T, <<p, "safe">>, <<p + 1, "at">>)
             /\ t.form = "index"     => A[<<p, "at">>] = {It(p, "index")}
             /\ t.form = "substring" => A[<<p, "at">>] = {It(p, "start")} /\ A[<<p, "end">>] = {It(p, "end")}
             /\ t.form = "assertion" => /\ A[<<p, "at">>] = {It(p, "assert")}
                                        /\ Passes(A, T, <<p, "side">>, <<p, "safe">>)
  <2>1. t.form \in {"index", "substring", "assertion"}
    BY <1>9 DEF t, TokensRight
  <2>2. SafeItem(p) = Arrive[p + 1]
    BY <2>1 DEF t, SafeItem
  <2>8. FirstAt(<<p, "safe">>) = SafeItem(p) /\ FirstAt(<<p, "side">>) = SafeItem(p)
    BY <1>1, FirstOf, Zenon
  <2>3. Same(A, T, <<p, "safe">>, <<p + 1, "at">>)
    BY <1>5, <1>7, <1>25, <1>26, <1>27, <2>2, <2>8
  <2>4. Passes(A, T, <<p, "side">>, <<p, "safe">>)
    BY <1>5, <1>7, <1>26, <1>27, <2>8
  <2>5. PassesTo(p) = 0 /\ Arrive[p] = ItemsAt(p)
    <3>1. PassesTo(p) = 0
      BY <1>9 DEF t, PassesTo
    <3> QED
      BY <1>1, <1>4, <3>1
  <2>6. ItemsAt(p) = {It(p, CASE t.form = "index"     -> "index"
                              [] t.form = "substring" -> "start"
                              [] t.form = "assertion" -> "assert")}
    BY <1>9 DEF t, ItemsAt
  <2>7. A[<<p, "at">>] = Arrive[p] /\ A[<<p, "end">>] = {It(p, "end")}
    BY <1>1, <1>2, FirstOf DEF Marks
  <2> QED
    BY <2>3, <2>4, <2>5, <2>6, <2>7
<1>10. ASSUME t.op = "append"
       PROVE  /\ Passes(A, T, <<p, "at">>, <<p, "copy">>)
              /\ Passes(A, T, <<p, "copy">>, <<p, "bytes">>) /\ Passes(A, T, <<p, "copy">>, <<p, "add">>)
              /\ Passes(A, T, <<p, "bytes">>, <<p, "add">>)
              /\ Same(A, T, <<p, "add">>, <<p + 1, "at">>)
  <2>1. PassesTo(p) = p + 1
    BY <1>10 DEF t, PassesTo
  <2>2. Arrive[p] = Arrive[p + 1]
    BY <1>1, <1>4, <2>1
  <2>3. /\ DepthAt(<<p, "at">>) = DepthOf(p + 1) + 3 /\ DepthAt(<<p, "copy">>) = DepthOf(p + 1) + 2
        /\ DepthAt(<<p, "bytes">>) = DepthOf(p + 1) + 1 /\ DepthAt(<<p, "add">>) = DepthOf(p + 1)
        /\ DepthAt(<<p + 1, "at">>) = DepthOf(p + 1)
    BY <1>5, DepthAtOf
  <2>4. /\ FirstAt(<<p, "at">>) = Arrive[p + 1] /\ FirstAt(<<p, "copy">>) = Arrive[p + 1]
        /\ FirstAt(<<p, "bytes">>) = Arrive[p + 1] /\ FirstAt(<<p, "add">>) = Arrive[p + 1]
        /\ FirstAt(<<p + 1, "at">>) = Arrive[p + 1]
    BY <1>1, <2>2, FirstOf
  <2>5. /\ DepthAt(<<p, "copy">>) < DepthAt(<<p, "at">>) /\ DepthAt(<<p, "bytes">>) < DepthAt(<<p, "copy">>)
        /\ DepthAt(<<p, "add">>) < DepthAt(<<p, "copy">>) /\ DepthAt(<<p, "add">>) < DepthAt(<<p, "bytes">>)
        /\ DepthAt(<<p + 1, "at">>) <= DepthAt(<<p, "add">>)
    BY <1>5, <2>3
  <2>6. /\ <<p, "at">> \in Places /\ <<p, "copy">> \in Places /\ <<p, "bytes">> \in Places
        /\ <<p, "add">> \in Places /\ <<p + 1, "at">> \in Places
    BY <1>2 DEF Marks
  <2> QED
    BY <1>7, <2>4, <2>5, <2>6
<1>11. t.op = "endappend" => A[<<p, "at">>] = {It(t.of, "append")}
  BY <1>28, <1>29, Zenon DEF t, PassesTo, ItemsAt
<1>12. ASSUME t.op = "if"
       PROVE  /\ A[<<p, "at">>] = {It(p, "if")}
              /\ t.form # "else" => Same(A, T, <<p, "else">>, <<p, "after">>)
  <2>1. A[<<p, "at">>] = {It(p, "if")}
    BY <1>12, <1>28, <1>29, Zenon DEF t, PassesTo, ItemsAt
  <2>2. ASSUME t.form # "else"
        PROVE  Same(A, T, <<p, "else">>, <<p, "after">>)
    <3>1. FirstAt(<<p, "else">>) = FirstAt(<<p, "after">>)
      BY <1>1, <2>2, FirstOf, Zenon DEF t, Else
    <3>2. DepthAt(<<p, "else">>) = DepthAt(<<p, "after">>) /\ DepthAt(<<p, "after">>) \in Nat
      <4>1. DepthAt(<<p, "else">>) = DepthOf(EndOf(p) + 1)
        BY <2>2, DepthAtOf, Zenon DEF t
      <4> QED
        BY <1>5, <1>26, <4>1
    <3>3. <<p, "else">> \in Places /\ <<p, "after">> \in Places
      BY <1>2 DEF Marks
    <3> QED
      BY <1>7, <3>1, <3>2, <3>3
  <2> QED
    BY <2>1, <2>2
<1>13. ASSUME t.op = "else"
       PROVE  Same(A, T, <<t.of, "else">>, <<p + 1, "at">>)
  <2>1. /\ src[t.of].form = "else"
        /\ \A q \in 1 .. Len(src) : src[q].op = "else" /\ src[q].of = t.of => q = p
    BY <1>13 DEF t, TokensRight
  <2>2. ElseOf(t.of) = p
    BY <1>1, <1>13, <2>1 DEF t, ElseOf
  <2>3. FirstAt(<<t.of, "else">>) = FirstAt(<<p + 1, "at">>)
    <3>1. Else(t.of) = Arrive[p + 1]
      BY <2>1, <2>2, Zenon DEF Else, ElseOf
    <3> QED
      BY <1>25, <3>1
  <2>4. DepthAt(<<t.of, "else">>) = DepthAt(<<p + 1, "at">>) /\ DepthAt(<<p + 1, "at">>) \in Nat
    <3>1. DepthAt(<<t.of, "else">>) = DepthOf(p + 1)
      BY <2>1, <2>2, DepthAtOf, Zenon
    <3> QED
      BY <1>5, <1>26, <3>1
  <2>5. <<t.of, "else">> \in Places /\ <<p + 1, "at">> \in Places
    BY <1>2 DEF Marks
  <2> QED
    BY <1>7, <2>3, <2>4, <2>5
<1>14. ASSUME t.op = "for"
       PROVE  /\ A[<<p, "at">>] = {It(p, "init")} /\ A[<<p, "post">>] = {It(p, "post")}
              /\ A[<<p, "cond">>] = {It(p, IF t.form = "checked" THEN "index" ELSE "cond")}
              /\ IF t.form = "range" THEN /\ A[<<p, "body">>] = {It(p, "index")}
                                          /\ Same(A, T, <<p, "safe">>, <<p + 1, "at">>)
                                     ELSE Same(A, T, <<p, "body">>, <<p + 1, "at">>)
              /\ t.form = "checked" => A[<<p, "safe">>] = {It(p, "cond")}
  <2>1. A[<<p, "at">>] = {It(p, "init")} /\ A[<<p, "post">>] = {It(p, "post")}
    <3>1. A[<<p, "at">>] = {It(p, "init")}
      BY <1>14, <1>28, <1>29, Zenon DEF t, PassesTo, ItemsAt
    <3> QED
      BY <1>1, <1>2, <3>1, FirstOf DEF Marks
  <2>2. A[<<p, "cond">>] = {It(p, IF t.form = "checked" THEN "index" ELSE "cond")}
    BY <1>1, <1>2, FirstOf DEF t, CondItem, Marks
  <2>3. t.form = "checked" => A[<<p, "safe">>] = {It(p, "cond")}
    BY <1>1, <1>2, FirstOf DEF t, SafeItem, Marks
  <2>4. /\ <<p, "body">> \in Places /\ <<p, "safe">> \in Places /\ <<p + 1, "at">> \in Places
        /\ DepthAt(<<p + 1, "at">>) <= DepthAt(<<p, "body">>)
        /\ DepthAt(<<p + 1, "at">>) <= DepthAt(<<p, "safe">>)
    BY <1>5, <1>26, <1>27
  <2>5. t.form = "range" => /\ A[<<p, "body">>] = {It(p, "index")}
                            /\ FirstAt(<<p, "safe">>) = FirstAt(<<p + 1, "at">>)
    <3>1. /\ A[<<p, "body">>] = FirstAt(<<p, "body">>)
          /\ FirstAt(<<p, "body">>) = BodyItem(p) /\ FirstAt(<<p, "safe">>) = SafeItem(p)
      BY <1>1, <1>2, FirstOf DEF Marks
    <3>2. t.form = "range" => BodyItem(p) = {It(p, "index")} /\ SafeItem(p) = Arrive[p + 1]
      BY DEF t, BodyItem, SafeItem
    <3> QED
      BY <1>25, <3>1, <3>2
  <2>6. t.form # "range" => FirstAt(<<p, "body">>) = FirstAt(<<p + 1, "at">>)
    BY <1>1, FirstOf DEF t, BodyItem
  <2> QED
    BY <1>7, <2>1, <2>2, <2>3, <2>4, <2>5, <2>6
<1>15. ASSUME t.op \in {"endfor", "continue"}
       PROVE  Passes(A, T, <<p, "at">>, <<t.of, "post">>)
  <2>1. FirstAt(<<p, "at">>) = FirstAt(<<t.of, "post">>)
    <3>1. Arrive[p] = {It(t.of, "post")}
      BY <1>15, <1>29, Zenon DEF t, PassesTo, ItemsAt
    <3> QED
      BY <1>25, <3>1
  <2>2. DepthAt(<<t.of, "post">>) < DepthAt(<<p, "at">>)
    BY <1>5, <1>26
  <2>3. <<p, "at">> \in Places /\ <<t.of, "post">> \in Places
    BY <1>2 DEF Marks
  <2> QED
    BY <1>7, <2>1, <2>2, <2>3
<1>16. ASSUME t.op = "switch"
       PROVE  /\ A[<<p, "at">>] = {It(p, "switch")}
              /\ IF t.form = "default" THEN Same(A, T, <<p, "dflt">>, <<p + 1, "at">>)
                                       ELSE Passes(A, T, <<p, "dflt">>, <<p, "after">>)
  <2>1. A[<<p, "at">>] = {It(p, "switch")}
    BY <1>16, <1>28, <1>29, Zenon DEF t, PassesTo, ItemsAt
  <2>2. <<p, "dflt">> \in Places /\ <<p + 1, "at">> \in Places /\ <<p, "after">> \in Places
    BY <1>2 DEF Marks
  <2>3. CASE t.form = "default"
    <3>1. FirstAt(<<p, "dflt">>) = FirstAt(<<p + 1, "at">>)
      BY <1>1, <2>3, FirstOf DEF t, DefaultItem
    <3>2. DepthAt(<<p + 1, "at">>) <= DepthAt(<<p, "dflt">>)
      <4>1. DepthAt(<<p, "dflt">>) = DepthOf(p + 1)
        BY <2>3, DepthAtOf, Zenon DEF t
      <4> QED
        BY <1>5, <1>26, <4>1
    <3> QED
      BY <1>7, <2>1, <2>2, <2>3, <3>1, <3>2
  <2>4. CASE t.form # "default"
    <3>1. FirstAt(<<p, "dflt">>) = FirstAt(<<p, "after">>)
      <4>1. FirstAt(<<p, "dflt">>) = DefaultItem(p)
        BY <1>1, FirstOf, Zenon
      <4> QED
        BY <1>25, <2>4, <4>1 DEF t, DefaultItem
    <3>2. DepthAt(<<p, "after">>) < DepthAt(<<p, "dflt">>)
      <4>1. DepthAt(<<p, "dflt">>) = DepthOf(EndOf(p) + 1) + 1
        BY <2>4, DepthAtOf, Zenon DEF t
      <4> QED
        BY <1>5, <1>26, <4>1
    <3> QED
      BY <1>7, <2>1, <2>2, <2>4, <3>1, <3>2
  <2> QED
    BY <2>3, <2>4
<1>17. ASSUME t.op = "fallthrough"
       PROVE  Passes(A, T, <<p, "at">>, <<p + 2, "at">>)
  <2>1. PassesTo(p) = p + 2
    BY <1>17 DEF t, PassesTo
  <2>2. FirstAt(<<p, "at">>) = FirstAt(<<p + 2, "at">>)
    BY <1>1, <1>4, <1>25, <2>1
  <2>3. DepthAt(<<p + 2, "at">>) < DepthAt(<<p, "at">>)
    BY <1>5, <1>26
  <2>4. <<p, "at">> \in Places /\ <<p + 2, "at">> \in Places
    BY <1>2 DEF Marks
  <2> QED
    BY <1>7, <2>2, <2>3, <2>4
<1>18. ASSUME t.op = "endswitch", NEW s, s = CasesBefore(src, p)
       PROVE  A[<<t.of, "cases">>] = [i \in DOMAIN s |-> A[<<s[i] + 1, "at">>]]
  <2>1. {q \in 1 .. p - 1 : src[q].op = "case" /\ src[q].of = src[p].of}
          = {q \in DOMAIN src : src[q].op = "case" /\ src[q].of = t.of}
    <3>1. ASSUME NEW q \in 1 .. Len(src), src[q].op = "case", src[q].of = t.of
          PROVE  q \in 1 .. p - 1
      <4>1. q <= p
        BY <1>18, <3>1 DEF t, TokensRight, Closers
      <4>2. q # p
        BY <1>18, <3>1 DEF t
      <4> QED
        BY <1>1, <4>1, <4>2
    <3> QED
      BY <1>1, <3>1 DEF t
  <2>2. s = CaseStarts(t.of)
    BY <1>18, <2>1, Zenon DEF CasesBefore, CaseStarts, t
  <2>3. \A i \in DOMAIN s : s[i] \in 1 .. Len(src)
    <3> DEFINE S == {q \in DOMAIN src : src[q].op = "case" /\ src[q].of = t.of}
    <3>1. S \in SUBSET (1 .. Len(src))
      BY <1>1
    <3>2. s = InOrder(S)
      BY <2>2 DEF CaseStarts
    <3> HIDE DEF S
    <3> QED
      BY <1>1, <3>1, <3>2, InOrderPositions
  <2>4. \A i \in DOMAIN s : A[<<s[i] + 1, "at">>] = Arrive[s[i] + 1]
    <3> TAKE i \in DOMAIN s
    <3>1. s[i] + 1 \in Nat /\ "at" \in Marks
      BY <2>3 DEF Marks
    <3> QED
      BY <3>1, FirstOf DEF A
  <2>5. A[<<t.of, "cases">>] = [i \in DOMAIN CaseStarts(t.of) |-> Arrive[CaseStarts(t.of)[i] + 1]]
    BY <1>1, <1>2, FirstOf DEF Marks
  <2>6. A[<<t.of, "cases">>] = [i \in DOMAIN s |-> Arrive[s[i] + 1]]
    BY <2>2, <2>5, Zenon
  <2> QED
    BY <2>4, <2>6
<1>19. ASSUME t.op = "func"
       PROVE  /\ Same(A, T, <<p, "at">>, <<p, "after">>)
              /\ Same(A, T, <<p, "entry">>, <<p + 1, "at">>)
              /\ t.form = "main" => Same(A, T, <<0, "entry">>, <<p + 1, "at">>)
  <2>1. PassesTo(p) = EndOf(p) + 1 /\ EndOf(p) + 1 > p
    BY <1>1, <1>3, <1>19 DEF t, PassesTo
  <2>2. FirstAt(<<p, "at">>) = FirstAt(<<p, "after">>)
    BY <1>4, <1>25, <2>1 DEF After
  <2>3. DepthAt(<<p, "after">>) <= DepthAt(<<p, "at">>)
    BY <1>5, <1>26
  <2>4. /\ <<p, "at">> \in Places /\ <<p, "after">> \in Places
        /\ <<p, "entry">> \in Places /\ <<p + 1, "at">> \in Places
    BY <1>2 DEF Marks
  <2>5. FirstAt(<<p, "entry">>) = FirstAt(<<p + 1, "at">>)
    BY <1>1, FirstOf
  <2>6. DepthAt(<<p + 1, "at">>) <= DepthAt(<<p, "entry">>)
    BY <1>5, <1>26
  <2>7. ASSUME t.form = "main"
        PROVE  Same(A, T, <<0, "entry">>, <<p + 1, "at">>)
    <3>1. funcs[Main].at = p
      BY <1>19, <2>7 DEF t, TokensRight
    <3>2. 0 \in Nat /\ "entry" \in Marks
      BY DEF Marks
    <3>3. <<0, "entry">> \in Places /\ FirstAt(<<0, "entry">>) = Arrive[p + 1]
      BY <3>1, <3>2, FirstOf
    <3>4. FirstAt(<<0, "entry">>) = FirstAt(<<p + 1, "at">>)
      BY <1>1, <3>3, FirstOf
    <3>5. DepthAt(<<p + 1, "at">>) <= DepthAt(<<0, "entry">>)
      BY <1>5, <1>26, <3>1
    <3> QED
      BY <1>7, <2>4, <3>3, <3>4, <3>5
  <2> QED
    BY <1>7, <2>2, <2>3, <2>4, <2>5, <2>6, <2>7
<1>20. t.op \in {"return", "endfunc"} => A[<<p, "at">>] = {It(p, "ret")}
  BY <1>28, <1>29, Zenon DEF t, PassesTo, ItemsAt
<1>21. ASSUME t.op \in {"else", "break", "endif", "enddefault", "endcase"}
       PROVE  Passes(A, T, <<p, "at">>, <<t.of, "after">>)
  <2>1. PassesTo(p) = EndOf(t.of) + 1
    BY <1>3, <1>21 DEF t, PassesTo, Closers
  <2>2. EndOf(t.of) + 1 > p
    BY <1>1, <1>3
  <2>3. FirstAt(<<p, "at">>) = FirstAt(<<t.of, "after">>)
    BY <1>4, <1>25, <2>1, <2>2 DEF After
  <2>4. DepthAt(<<t.of, "after">>) < DepthAt(<<p, "at">>)
    BY <1>5, <1>26
  <2>5. <<p, "at">> \in Places /\ <<t.of, "after">> \in Places
    BY <1>2 DEF Marks
  <2> QED
    BY <1>7, <2>3, <2>4, <2>5
<1>22. ASSUME t.op \in Closers
       PROVE  Same(A, T, <<t.of, "after">>, <<p + 1, "at">>)
  <2>1. FirstAt(<<t.of, "after">>) = FirstAt(<<p + 1, "at">>)
    BY <1>3, <1>22, <1>25 DEF After
  <2>2. DepthAt(<<p + 1, "at">>) <= DepthAt(<<t.of, "after">>)
    BY <1>3, <1>5, <1>22, <1>26
  <2>3. <<p + 1, "at">> \in Places /\ <<t.of, "after">> \in Places
    BY <1>2 DEF Marks
  <2> QED
    BY <1>7, <2>1, <2>2, <2>3
<1> DEFINE s == CasesBefore(src, p)
<1>23. t.op = "endswitch" => A[<<t.of, "cases">>] = [i \in DOMAIN s |-> A[<<s[i] + 1, "at">>]]
  BY <1>18
<1> HIDE DEF s
<1>24. Says(A, T, t, p, s)
  BY <1>6, <1>8, <1>9, <1>10, <1>11, <1>12, <1>13, <1>14, <1>15, <1>16, <1>17, <1>19, <1>20, <1>21,
     <1>22, <1>23, Zenon DEF Says
<1> QED
  BY <1>24 DEF A, T, t, s

\* SourceFlow, by the program's own solution.
LEMMA FlowIs ==
  ASSUME NEW x \in Item
  PROVE  SourceFlow(x) = Flow(First, x)
<1> DEFINE p == x.at
<1>1. p \in Nat /\ p + 1 \in Nat
  BY DEF Item
<1>2. /\ First[<<p + 1, "at">>] = Arrive[p + 1]
      /\ First[<<p, "after">>] = After(p)
      /\ First[<<p, "safe">>] = SafeItem(p)
      /\ First[<<p, "else">>] = Else(p)
      /\ First[<<p, "cond">>] = CondItem(p)
      /\ First[<<p, "body">>] = BodyItem(p)
      /\ First[<<p, "dflt">>] = DefaultItem(p)
      /\ First[<<p, "cases">>] = [i \in DOMAIN CaseStarts(p) |-> Arrive[CaseStarts(p)[i] + 1]]
  <2>1. \A m \in Marks : First[<<p, m>>] = FirstAt(<<p, m>>) /\ First[<<p + 1, m>>] = FirstAt(<<p + 1, m>>)
    BY <1>1, FirstOf, Zenon
  <2>2. /\ FirstAt(<<p + 1, "at">>) = Arrive[p + 1]
        /\ FirstAt(<<p, "after">>) = After(p)
        /\ FirstAt(<<p, "safe">>) = SafeItem(p)
        /\ FirstAt(<<p, "else">>) = Else(p)
        /\ FirstAt(<<p, "cond">>) = CondItem(p)
        /\ FirstAt(<<p, "body">>) = BodyItem(p)
        /\ FirstAt(<<p, "dflt">>) = DefaultItem(p)
        /\ FirstAt(<<p, "cases">>) = [i \in DOMAIN CaseStarts(p) |-> Arrive[CaseStarts(p)[i] + 1]]
    BY <1>1, FirstOf, Zenon
  <2>3. {"at", "after", "safe", "else", "cond", "body", "dflt", "cases"} \subseteq Marks
    BY DEF Marks
  <2> HIDE DEF p
  <2> QED
    BY <2>1, <2>2, <2>3
<1> QED
  BY <1>2, Zenon DEF SourceFlow, Flow

-----------------------------------------------------------------------------
(* Ended blocks run as the program says                                      *)

\* The first items from block c on along at most n blocks without items, by those along
\* n - 1, and from every block.
Reach(prev, n, c) ==
  IF blocks[c].code # << >> THEN {Head(blocks[c].code)}
  ELSE IF n = 0 THEN {}
  ELSE UNION {prev[d] : d \in Exits(c)}
Reached(prev, n) == [c \in DOMAIN blocks |-> Reach(prev, n, c)]

\* FirstFrom is defined by a function that exists.
LEMMA FirstFromIs ==
  ASSUME Len(src) \in Nat
  PROVE  \E F : /\ \A b : FirstFrom(b) = F[Steps][b]
                /\ \A n \in 0 .. Steps, c \in DOMAIN blocks : F[n][c] = Reach(F[n - 1], n, c)
<1> DEFINE K    == Steps
           Q(m) == \E F : F = [n \in 0 .. m |-> Reached(F[n - 1], n)]
           S    == {m \in 0 .. K : ~ Q(m)}
<1>1. K \in Nat
  BY DEF Steps
<1>2. Q(0)
  <2>1. \A n \in 0 .. 0 : n = 0
    OBVIOUS
  <2>2. \A f, g : Reached(f, 0) = Reached(g, 0)
    BY DEF Reached, Reach
  <2> DEFINE F == [n \in 0 .. 0 |-> Reached(0, 0)]
  <2>3. \A n \in 0 .. 0 : Reached(0, 0) = Reached(F[n - 1], n)
    BY <2>1, <2>2, Zenon
  <2>4. F = [n \in 0 .. 0 |-> Reached(F[n - 1], n)]
    BY <2>3, Zenon
  <2> QED
    BY <2>4
<1>3. ASSUME NEW m \in 1 .. K, Q(m - 1)
      PROVE  Q(m)
  <2>1. PICK F : F = [n \in 0 .. m - 1 |-> Reached(F[n - 1], n)]
    BY <1>3
  <2> DEFINE e == Reached(F[m - 1], m)
             G == [n \in 0 .. m |-> IF n = m THEN e ELSE F[n]]
  <2>2. \A n \in 0 .. m : n = m \/ n \in 0 .. m - 1
    BY <1>1
  <2>3. \A n \in 0 .. m : n # 0 => n - 1 \in 0 .. m /\ n - 1 # m
    BY <1>1
  <2>4. \A n \in 0 .. m : n # 0 => G[n - 1] = F[n - 1]
    BY <2>3
  <2>5. \A f, g : Reached(f, 0) = Reached(g, 0)
    BY DEF Reached, Reach
  <2>6. \A n \in 0 .. m - 1 : F[n] = Reached(F[n - 1], n)
    BY <2>1, Zenon
  <2>7. \A n \in 0 .. m : Reached(F[n - 1], n) = Reached(G[n - 1], n)
    BY <2>4, <2>5, Zenon
  <2>8. \A n \in 0 .. m : (IF n = m THEN e ELSE F[n]) = Reached(F[n - 1], n)
    BY <2>2, <2>6, Zenon
  <2>9. \A n \in 0 .. m : (IF n = m THEN e ELSE F[n]) = Reached(G[n - 1], n)
    BY <2>7, <2>8, Zenon
  <2>10. G = [n \in 0 .. m |-> Reached(G[n - 1], n)]
    BY <2>9, Zenon
  <2> HIDE DEF G
  <2> QED
    BY <2>10
<1>4. S = {}
  <2> SUFFICES ASSUME S # {} PROVE FALSE
    OBVIOUS
  <2>1. PICK m \in S : \A k \in S : m <= k
    <3>1. S \in SUBSET Nat
      OBVIOUS
    <3> HIDE DEF S
    <3> QED
      BY <3>1, Least
  <2>2. m \in 0 .. K /\ ~ Q(m)
    BY <2>1
  <2>3. m # 0
    BY <1>2, <2>2
  <2>4. m \in 1 .. K /\ m - 1 \in 0 .. K /\ ~ (m <= m - 1)
    BY <1>1, <2>2, <2>3
  <2>5. Q(m - 1)
    BY <2>1, <2>4
  <2> HIDE DEF Q
  <2> QED
    BY <1>3, <2>2, <2>4, <2>5
<1>5. Q(K)
  <2>1. K \in 0 .. K
    BY <1>1
  <2> HIDE DEF Q
  <2> QED
    BY <1>4, <2>1
<1>6. PICK F : F = [n \in 0 .. Steps |-> Reached(F[n - 1], n)]
  BY <1>5
<1> DEFINE first == CHOOSE F2 : F2 = [n \in 0 .. Steps |-> Reached(F2[n - 1], n)]
<1>7. first = [n \in 0 .. Steps |-> Reached(first[n - 1], n)]
  BY <1>6, Zenon
<1>8. \A b : FirstFrom(b) = first[Steps][b]
  BY Zenon DEF FirstFrom, Reached, Reach
<1> HIDE DEF first
<1>9. \A n \in 0 .. Steps, c \in DOMAIN blocks : first[n][c] = Reach(first[n - 1], n, c)
  <2> TAKE n \in 0 .. Steps, c \in DOMAIN blocks
  <2>1. first[n] = Reached(first[n - 1], n)
    <3>1. [k \in 0 .. Steps |-> Reached(first[k - 1], k)][n] = Reached(first[n - 1], n)
      OBVIOUS
    <3> QED
      BY <1>7, <3>1, Zenon
  <2> HIDE DEF first
  <2>2. Reached(first[n - 1], n)[c] = Reach(first[n - 1], n, c)
    BY DEF Reached
  <2> QED
    BY <2>1, <2>2
<1> QED
  BY <1>8, <1>9

\* B is a set of ended blocks, and no block outside it is an exit of one of them.
Finished(L, B) ==
  \A b \in B : /\ b \in DOMAIN blocks /\ L[b] \in Places /\ L[b] # Nowhere
               /\ Good(L, src, blocks[b], L[b], Ended)
               /\ \A i \in DOMAIN blocks[b].term.to : blocks[b].term.to[i] \in B

\* An ended block without items leads nearer to the item that comes next.
LEMMA FinishedIs ==
  ASSUME src \in Seq(Token), TokensRight, NEW L, NEW B, Finished(L, B), NEW b \in B
  PROVE  /\ Starts(First, blocks[b], L[b]) /\ Within(First, blocks[b])
         /\ Ends(First, Ahead, L, blocks[b], L[b])
         /\ \A c \in Exits(b) : c \in B
         /\ blocks[b].code = << >> =>
              /\ \A c \in Exits(b) : First[L[c]] = First[L[b]]
              /\ \E c \in Exits(b) : Depth[L[c]] < Depth[L[b]]
<1>1. Good(L, src, blocks[b], L[b], Ended) /\ L[b] # Nowhere
  BY DEF Finished
<1>2. Right(First, Ahead, L, blocks[b], L[b], Ended)
  BY <1>1, FirstSolves DEF Good
<1>3. /\ Starts(First, blocks[b], L[b]) /\ Within(First, blocks[b])
      /\ Ends(First, Ahead, L, blocks[b], L[b])
  BY <1>2 DEF Right, Ended
<1>4. \A c \in Exits(b) : c \in B
  BY DEF Exits, Finished
<1>5. ASSUME blocks[b].code = << >>
      PROVE  /\ \A c \in Exits(b) : First[L[c]] = First[L[b]]
             /\ \E c \in Exits(b) : Depth[L[c]] < Depth[L[b]]
  <2> DEFINE to == blocks[b].term.to
  <2>1. /\ \A i \in DOMAIN to : First[L[to[i]]] = First[L[b]]
        /\ \E i \in DOMAIN to : <<L[b], L[to[i]]>> \in Ahead
    BY <1>3, <1>5 DEF Ends
  <2>2. \A x, y : <<x, y>> \in Ahead => Depth[y] < Depth[x]
    BY DEF Ahead
  <2> QED
    BY <2>1, <2>2 DEF Exits
<1> QED
  BY <1>3, <1>4, <1>5

\* From the start of a finished block control goes where its label says.
LEMMA FirstRight ==
  ASSUME src \in Seq(Token), src # << >>, TokensRight, NEW L, NEW B, Finished(L, B)
  PROVE  \A b \in B : FirstFrom(b) = First[L[b]]
<1>1. Len(src) \in Nat \ {0}
  BY LenProperties, EmptySeq
<1>2. PICK F : /\ \A b : FirstFrom(b) = F[Steps][b]
               /\ \A n \in 0 .. Steps, c \in DOMAIN blocks : F[n][c] = Reach(F[n - 1], n, c)
  BY <1>1, FirstFromIs
<1>3. Steps \in Nat /\ 3 * Len(src) + 5 <= Steps
  BY <1>1 DEF Steps
<1>4. \A b \in B : b \in DOMAIN blocks /\ Depth[L[b]] \in Nat /\ Depth[L[b]] <= Steps
  <2> TAKE b \in B
  <2>1. b \in DOMAIN blocks /\ L[b] \in Places
    BY DEF Finished
  <2>2. Depth[L[b]] \in Nat /\ Depth[L[b]] <= 3 * Len(src) + 5
    BY <1>1, <2>1, DepthTypes
  <2> QED
    BY <1>1, <1>3, <2>1, <2>2
<1> DEFINE Q(n) == \A b \in B : /\ F[n][b] \subseteq First[L[b]]
                                /\ Depth[L[b]] <= n => F[n][b] = First[L[b]]
           S    == {n \in 0 .. Steps : ~ Q(n)}
<1>5. ASSUME NEW n \in 0 .. Steps, n # 0 => Q(n - 1)
      PROVE  Q(n)
  <2> TAKE b \in B
  <2>1. F[n][b] = Reach(F[n - 1], n, b)
    BY <1>2, <1>4
  <2>2. CASE blocks[b].code # << >>
    <3>1. First[L[b]] = {Head(blocks[b].code)}
      BY <2>2, FinishedIs DEF Starts
    <3> QED
      BY <2>1, <2>2, <3>1 DEF Reach
  <2>3. CASE blocks[b].code = << >>
    <3>1. /\ \A c \in Exits(b) : c \in B /\ First[L[c]] = First[L[b]]
          /\ \E c \in Exits(b) : Depth[L[c]] < Depth[L[b]]
      BY <2>3, FinishedIs
    <3>2. PICK d \in Exits(b) : Depth[L[d]] < Depth[L[b]]
      BY <3>1
    <3>3. CASE n = 0
      <4>1. F[n][b] = {}
        BY <2>1, <2>3, <3>3, Zenon DEF Reach
      <4>2. ~ (Depth[L[b]] <= n)
        BY <1>4, <3>1, <3>2, <3>3
      <4> QED
        BY <4>1, <4>2
    <3>4. CASE n # 0
      <4>1. F[n][b] = UNION {F[n - 1][c] : c \in Exits(b)}
        BY <2>1, <2>3, <3>4, Zenon DEF Reach
      <4>2. \A c \in Exits(b) : /\ F[n - 1][c] \subseteq First[L[b]]
                                /\ Depth[L[c]] <= n - 1 => F[n - 1][c] = First[L[b]]
        BY <1>5, <3>1, <3>4
      <4>3. Depth[L[b]] <= n => F[n - 1][d] = First[L[b]]
        <5>1. Depth[L[b]] <= n => Depth[L[d]] <= n - 1
          BY <1>4, <3>1, <3>2
        <5> QED
          BY <4>2, <5>1
      <4> QED
        BY <4>1, <4>2, <4>3
    <3> QED
      BY <3>3, <3>4
  <2> QED
    BY <2>2, <2>3
<1>6. S = {}
  <2> SUFFICES ASSUME S # {} PROVE FALSE
    OBVIOUS
  <2>1. PICK m \in S : \A k \in S : m <= k
    <3>1. S \in SUBSET Nat
      OBVIOUS
    <3> HIDE DEF S
    <3> QED
      BY <3>1, Least
  <2>2. m \in 0 .. Steps /\ ~ Q(m)
    BY <2>1
  <2>3. m # 0 => m - 1 \in 0 .. Steps /\ ~ (m <= m - 1)
    BY <1>3, <2>2
  <2>4. m # 0 => Q(m - 1)
    BY <2>1, <2>3
  <2> HIDE DEF Q
  <2> QED
    BY <1>5, <2>2, <2>4
<1>7. Q(Steps)
  <2>1. Steps \in 0 .. Steps
    BY <1>3
  <2> HIDE DEF Q
  <2> QED
    BY <1>6, <2>1
<1> QED
  BY <1>2, <1>4, <1>7

\* After every item of a finished block control goes on as in the source.
LEMMA FlowRight ==
  ASSUME src \in Seq(Token), src # << >>, blocks \in Seq(BasicBlock), TokensRight,
         NEW L, NEW B, Finished(L, B), NEW b \in B, NEW k \in DOMAIN blocks[b].code
  PROVE  BlockFlow(b, k) = SourceFlow(blocks[b].code[k])
<1> DEFINE code == blocks[b].code
           to   == blocks[b].term.to
<1>1. /\ code \in Seq(Item) /\ to \in Seq(Block)
      /\ Len(code) \in Nat /\ DOMAIN code = 1 .. Len(code)
      /\ to # << >> => 1 \in DOMAIN to
  <2>1. blocks[b] \in BasicBlock
    BY DEF Finished
  <2>2. code \in Seq(Item) /\ to \in Seq(Block)
    BY <2>1 DEF BasicBlock, Term
  <2> HIDE DEF code, to
  <2>3. Len(code) \in Nat /\ DOMAIN code = 1 .. Len(code)
    BY <2>2, LenProperties
  <2>4. to # << >> => 1 \in DOMAIN to
    <3>1. Len(to) \in Nat /\ DOMAIN to = 1 .. Len(to) /\ (to # << >> => Len(to) # 0)
      BY <2>2, LenProperties, EmptySeq
    <3> QED
      BY <3>1
  <2> QED
    BY <2>2, <2>3, <2>4
<1>2. /\ Within(First, blocks[b])
      /\ Ends(First, Ahead, L, blocks[b], L[b])
      /\ \A c \in Exits(b) : c \in B
  BY FinishedIs
<1>3. \A c \in Exits(b) : FirstFrom(c) = First[L[c]]
  BY <1>2, FirstRight
<1>4. \A i \in DOMAIN to : to[i] \in Exits(b)
  BY DEF Exits
<1>5. SourceFlow(code[k]) = Flow(First, code[k])
  <2>1. code[k] \in Item
    BY <1>1
  <2> QED
    BY <2>1, FlowIs
<1>6. BlockFlow(b, k) = Flow(First, code[k])
  <2>1. CASE k < Len(code)
    <3>1. k \in 1 .. Len(code) - 1
      BY <1>1, <2>1
    <3>2. Flow(First, code[k]) = <<{code[k + 1]}>>
      BY <1>2, <3>1 DEF Within
    <3> QED
      BY <2>1, <3>2 DEF BlockFlow
  <2>2. CASE ~ (k < Len(code))
    <3>1. k = Len(code) /\ Last(code) = code[k] /\ code # << >>
      <4>1. k = Len(code)
        BY <1>1, <2>2
      <4>2. code # << >>
        BY <1>1
      <4> QED
        BY <4>1, <4>2 DEF Last
    <3>2. CASE to = << >>
      <4>1. Flow(First, Last(code)) = << >>
        BY <1>2, <3>1, <3>2, SMTT(30) DEF Ends
      <4> QED
        BY <2>2, <3>1, <3>2, <4>1 DEF BlockFlow
    <3>3. CASE to # << >> /\ code[k].tag \in Decisions
      <4>1. Flow(First, Last(code)) = [i \in DOMAIN to |-> First[L[to[i]]]]
        BY <1>2, <3>1, <3>3 DEF Ends
      <4>2. [i \in DOMAIN to |-> First[L[to[i]]]] = [i \in DOMAIN to |-> FirstFrom(to[i])]
        BY <1>3, <1>4
      <4>3. BlockFlow(b, k) = [i \in DOMAIN to |-> FirstFrom(to[i])]
        BY <2>2, <3>3, Zenon DEF BlockFlow
      <4> QED
        BY <3>1, <4>1, <4>2, <4>3, Zenon
    <3>4. CASE to # << >> /\ code[k].tag \notin Decisions
      <4>1. \A i \in DOMAIN to : Flow(First, Last(code)) = <<First[L[to[i]]]>>
        BY <1>2, <3>1, <3>4 DEF Ends
      <4>2. 1 \in DOMAIN to
        BY <1>1, <3>4
      <4> DEFINE s == First[L[to[1]]]
      <4>3. \A i \in DOMAIN to : First[L[to[i]]] = s
        BY <4>1, <4>2
      <4>4. \A c \in Exits(b) : FirstFrom(c) = s
        BY <1>3, <4>3 DEF Exits
      <4>5. to[1] \in Exits(b)
        BY <1>4, <4>2
      <4> HIDE DEF s
      <4>6. UNION {FirstFrom(c) : c \in Exits(b)} = s
        BY <4>4, <4>5
      <4>7. BlockFlow(b, k) = <<UNION {FirstFrom(c) : c \in Exits(b)}>>
        BY <2>2, <3>4, Zenon DEF BlockFlow
      <4> QED
        BY <3>1, <4>1, <4>2, <4>6, <4>7 DEF s
    <3> QED
      BY <3>2, <3>3, <3>4
  <2> QED
    BY <2>1, <2>2
<1> QED
  BY <1>5, <1>6

-----------------------------------------------------------------------------
(* What is known of the tokens                                               *)

\* The calls stand in the program in the order they were opened in, and none is closed.
Placed(fs, sr) ==
  /\ \A i \in 1 .. Len(fs) :
       /\ fs[i].at \in 1 .. Len(sr)
       /\ \A q \in 1 .. Len(sr) : sr[q].op \in Closers => sr[q].of # fs[i].at
  /\ \A i, j \in 1 .. Len(fs) : i < j => fs[i].at < fs[j].at

\* The token of call f.
TokenKnown(f, sr) ==
  /\ f.kind = "for" => sr[f.at].op = "for"
  /\ f.kind = "if" /\ f.hasElse =>
       /\ sr[f.at].form = "else"
       /\ f.arm = "true" => \A q \in 1 .. Len(sr) : sr[q].op = "else" => sr[q].of # f.at

IsMain(t) == t.op = "func" /\ t.form = "main"
TokensKnown ==
  /\ TokensRight
  /\ Placed(frames, src)
  /\ \A i \in 1 .. Len(frames) : TokenKnown(frames[i], src)
  /\ MainWaits(frames, funcs) => \A q \in 1 .. Len(src) : ~ IsMain(src[q])

\* Token t may come next.
MayFollow(t) ==
  /\ t \in Token /\ t.of <= Len(src)
  /\ t.op \in Closers \cup {"else"} => t.of # 0
  /\ t.op = "else" => /\ src[t.of].form = "else"
                      /\ \A q \in 1 .. Len(src) : src[q].op = "else" => src[q].of # t.of
  /\ t.op = "check" => t.form \in {"index", "substring", "assertion"}
  /\ \A q \in 1 .. Len(src) : src[q].op \in Closers => src[q].of # t.of
  /\ IF IsMain(t) THEN funcs'[Main].at = Here /\ \A q \in 1 .. Len(src) : ~ IsMain(src[q])
                  ELSE funcs'[Main].at = funcs[Main].at

\* The elements of a longer program.
LEMMA PutIs ==
  ASSUME src \in Seq(Token), NEW t \in Token, src' = Append(src, t)
  PROVE  /\ Len(src) \in Nat /\ Len(src') = Len(src) + 1 /\ Here \in 1 .. Len(src')
         /\ \A q \in 1 .. Len(src) : src'[q] = src[q] /\ q \in 1 .. Len(src') /\ q < Here
         /\ src'[Here] = t /\ Last(src') = t /\ src' # << >> /\ src' \in Seq(Token)
         /\ \A q \in 1 .. Len(src') : q \in 1 .. Len(src) \/ q = Here
         /\ Here' = Here + 1
<1>1. Len(src) \in Nat
  BY LenProperties
<1>2. /\ src' \in Seq(Token) /\ Len(src') = Len(src) + 1 /\ src' # << >> /\ Last(src') = t
      /\ src'[Len(src) + 1] = t
      /\ \A q \in 1 .. Len(src) : src'[q] = src[q]
  BY AppendType
<1>3. Here = Len(src) + 1 /\ Here' = Len(src') + 1
  BY DEF Here
<1> QED
  BY <1>1, <1>2, <1>3

\* The tokens stay right.
LEMMA TokensPut ==
  ASSUME src \in Seq(Token), TokensRight, NEW t, src' = Append(src, t), MayFollow(t)
  PROVE  TokensRight'
<1> DEFINE n == Len(src)
           s2 == src'
<1>1. /\ t \in Token /\ t.of <= n /\ t.of \in Nat
  BY DEF MayFollow, Token
<1>2. /\ n \in Nat /\ Here = n + 1 /\ Len(s2) = n + 1
      /\ \A q \in 1 .. n : s2[q] = src[q] /\ q \in Nat /\ q < Here
      /\ s2[Here] = t
      /\ \A q \in 1 .. Len(s2) : q \in 1 .. n \/ q = Here
  BY <1>1, PutIs DEF Here
<1>3. funcs'[Main].at \in Nat \ {0} /\ (~ IsMain(t) => funcs'[Main].at = funcs[Main].at)
  <2>1. funcs[Main].at \in Nat \ {0}
    BY DEF TokensRight
  <2> QED
    BY <1>2, <2>1 DEF MayFollow
<1>4. ASSUME NEW q \in 1 .. Len(s2)
      PROVE  /\ s2[q].of < q
             /\ s2[q].op \in Closers \cup {"else"} => s2[q].of # 0
             /\ s2[q].op = "else" => s2[s2[q].of].form = "else"
             /\ s2[q].op = "check" => s2[q].form \in {"index", "substring", "assertion"}
             /\ s2[q].op = "func" /\ s2[q].form = "main" => q = funcs'[Main].at
  <2>1. CASE q \in 1 .. n
    <3>1. /\ src[q].of < q
          /\ src[q].op \in Closers \cup {"else"} => src[q].of # 0
          /\ src[q].op = "else" => src[src[q].of].form = "else"
          /\ src[q].op = "check" => src[q].form \in {"index", "substring", "assertion"}
          /\ src[q].op = "func" /\ src[q].form = "main" => q = funcs[Main].at
      BY <2>1 DEF TokensRight
    <3>2. s2[q] = src[q] /\ src[q] \in Token
      BY <1>2, <2>1
    <3>3. src[q].of \in Nat /\ q \in Nat
      BY <2>1, <3>2 DEF Token
    <3>4. src[q].op = "else" => s2[src[q].of] = src[src[q].of]
      <4>1. src[q].of # 0 => src[q].of \in 1 .. n
        BY <1>2, <2>1, <3>1, <3>3
      <4> QED
        BY <1>2, <3>1, <4>1
    <3>5. src[q].op = "func" /\ src[q].form = "main" => ~ IsMain(t)
      BY <2>1 DEF MayFollow, IsMain
    <3> QED
      BY <1>3, <3>1, <3>2, <3>4, <3>5
  <2>2. CASE q = Here
    <3>1. s2[q] = t /\ t.of < q
      BY <1>1, <1>2, <2>2
    <3>2. t.op = "else" => s2[t.of] = src[t.of]
      <4>1. t.op = "else" => t.of \in 1 .. n
        BY <1>1, <1>2 DEF MayFollow
      <4> QED
        BY <1>2, <4>1
    <3> QED
      BY <2>2, <3>1, <3>2 DEF MayFollow, IsMain
  <2> QED
    BY <1>2, <2>1, <2>2
<1>5. ASSUME NEW q \in 1 .. Len(s2), NEW r \in 1 .. Len(s2), s2[r].of = s2[q].of
      PROVE  /\ s2[r].op \in Closers => q <= r
             /\ s2[q].op = "else" /\ s2[r].op = "else" => q = r
  <2>1. CASE q \in 1 .. n /\ r \in 1 .. n
    BY <1>2, <1>5, <2>1 DEF TokensRight
  <2>2. CASE q = Here /\ r \in 1 .. n
    BY <1>2, <1>5, <2>2 DEF MayFollow
  <2>3. CASE r = Here
    <3>1. q <= r
      BY <1>2, <2>3
    <3>2. CASE q \in 1 .. n
      BY <1>2, <1>5, <2>3, <3>1, <3>2 DEF MayFollow
    <3> QED
      BY <1>2, <2>3, <3>1, <3>2
  <2> QED
    BY <1>2, <2>1, <2>2, <2>3
<1> QED
  BY <1>3, <1>4, <1>5 DEF TokensRight

\* What the token of a call says stays known.
LEMMA TokenStays ==
  ASSUME src \in Seq(Token), NEW t \in Token, src' = Append(src, t),
         NEW f, f.at \in 1 .. Len(src), TokenKnown(f, src), t.op = "else" => t.of # f.at
  PROVE  TokenKnown(f, src')
<1>1. /\ src'[f.at] = src[f.at] /\ src'[Here] = t
      /\ \A q \in 1 .. Len(src) : src'[q] = src[q]
      /\ \A q \in 1 .. Len(src') : q \in 1 .. Len(src) \/ q = Here
  BY PutIs
<1>2. ASSUME \A q \in 1 .. Len(src) : src[q].op = "else" => src[q].of # f.at,
             NEW q \in 1 .. Len(src'), src'[q].op = "else"
      PROVE  src'[q].of # f.at
  BY <1>1, <1>2
<1> QED
  BY <1>1, <1>2, Zenon DEF TokenKnown

\* A token is put, and the open calls gs are those before, one more, or one less.
LEMMA TokensGrow ==
  ASSUME src \in Seq(Token), TokensKnown, NEW t, src' = Append(src, t), MayFollow(t),
         Len(frames) \in Nat, Len(frames') \in Nat,
         \A i \in 1 .. Len(frames') :
           \/ /\ i \in 1 .. Len(frames) /\ frames'[i].at = frames[i].at
              /\ \/ frames'[i] = frames[i] /\ (t.op = "else" => t.of # frames[i].at)
                 \/ TokenKnown(frames'[i], src')
           \/ i = Len(frames) + 1 /\ frames'[i].at = Here /\ TokenKnown(frames'[i], src'),
         t.op \in Closers => \A i \in 1 .. Len(frames') : frames'[i].at # t.of,
         MainWaits(frames', funcs') => MainWaits(frames, funcs) /\ ~ IsMain(t)
  PROVE  TokensKnown'
<1>1. t \in Token /\ t.of \in Nat /\ t.of <= Len(src)
  BY DEF MayFollow, Token
<1>2. /\ Len(src) \in Nat /\ Here = Len(src) + 1 /\ Len(src') = Len(src) + 1
      /\ Here \in 1 .. Len(src')
      /\ \A q \in 1 .. Len(src) : src'[q] = src[q] /\ q \in 1 .. Len(src') /\ q < Here
      /\ src'[Here] = t
      /\ \A q \in 1 .. Len(src') : q \in 1 .. Len(src) \/ q = Here
  BY <1>1, PutIs DEF Here
<1>3. TokensRight'
  BY TokensPut DEF TokensKnown
<1>4. Placed(frames', src')
  <2>1. ASSUME NEW i \in 1 .. Len(frames')
        PROVE  /\ frames'[i].at \in 1 .. Len(src')
               /\ \A q \in 1 .. Len(src') : src'[q].op \in Closers => src'[q].of # frames'[i].at
    <3> DEFINE a == frames'[i].at
    <3>1. a \in 1 .. Len(src')
      BY <1>2 DEF TokensKnown, Placed
    <3>2. ASSUME NEW q \in 1 .. Len(src), src[q].op \in Closers
          PROVE  src[q].of # a
      <4>1. CASE i \in 1 .. Len(frames) /\ a = frames[i].at
        BY <3>2, <4>1 DEF TokensKnown, Placed
      <4>2. CASE a = Here
        <5>1. src[q].of < q
          BY DEF TokensKnown, TokensRight
        <5>2. q \in Nat /\ src[q].of \in Nat /\ q < Here
          <6>1. src[q] \in Token
            BY <1>2
          <6> QED
            BY <1>2, <6>1 DEF Token
        <5> QED
          BY <1>2, <4>2, <5>1, <5>2
      <4> QED
        BY <4>1, <4>2
    <3>3. t.op \in Closers => t.of # a
      OBVIOUS
    <3> QED
      BY <1>2, <3>1, <3>2, <3>3
  <2>2. ASSUME NEW i \in 1 .. Len(frames'), NEW j \in 1 .. Len(frames'), i < j
        PROVE  frames'[i].at < frames'[j].at
    <3>1. i \in 1 .. Len(frames) /\ frames'[i].at = frames[i].at
      BY <2>2
    <3>2. CASE j \in 1 .. Len(frames) /\ frames'[j].at = frames[j].at
      BY <2>2, <3>1, <3>2 DEF TokensKnown, Placed
    <3>3. CASE frames'[j].at = Here
      <4>1. frames[i].at \in 1 .. Len(src)
        BY <3>1 DEF TokensKnown, Placed
      <4> QED
        BY <1>2, <3>1, <3>3, <4>1
    <3> QED
      BY <3>2, <3>3
  <2> QED
    BY <2>1, <2>2 DEF Placed
<1>5. ASSUME NEW i \in 1 .. Len(frames')
      PROVE  TokenKnown(frames'[i], src')
  <2>1. CASE i \in 1 .. Len(frames) /\ frames'[i] = frames[i] /\ (t.op = "else" => t.of # frames[i].at)
    <3>1. TokenKnown(frames[i], src) /\ frames[i].at \in 1 .. Len(src)
      BY <2>1 DEF TokensKnown, Placed
    <3> QED
      BY <1>1, <2>1, <3>1, TokenStays
  <2> QED
    BY <2>1
<1>6. ASSUME MainWaits(frames', funcs'), NEW q \in 1 .. Len(src')
      PROVE  ~ IsMain(src'[q])
  BY <1>2, <1>6 DEF TokensKnown
<1> QED
  BY <1>3, <1>4, <1>5, <1>6 DEF TokensKnown

\* Tokens that refer to nothing, and tokens that refer to an open call.
LEMMA PlainFollows ==
  ASSUME src \in Seq(Token), TokensKnown, NEW t \in Token, t.of = 0,
         t.op \notin Closers \cup {"else"}, ~ IsMain(t),
         t.op = "check" => t.form \in {"index", "substring", "assertion"},
         funcs'[Main].at = funcs[Main].at
  PROVE  MayFollow(t)
<1>1. Len(src) \in Nat /\ 0 <= Len(src)
  BY LenProperties
<1>2. \A q \in 1 .. Len(src) : src[q].op \in Closers => src[q].of # 0
  BY DEF TokensKnown, TokensRight
<1> QED
  BY <1>1, <1>2 DEF MayFollow

LEMMA RefersFollows ==
  ASSUME src \in Seq(Token), TokensKnown, NEW t \in Token, NEW i \in 1 .. Len(frames),
         t.of = frames[i].at, t.op # "check", ~ IsMain(t),
         t.op = "else" => /\ src[t.of].form = "else"
                          /\ \A q \in 1 .. Len(src) : src[q].op = "else" => src[q].of # t.of,
         funcs'[Main].at = funcs[Main].at
  PROVE  MayFollow(t)
<1>1. /\ frames[i].at \in 1 .. Len(src)
      /\ \A q \in 1 .. Len(src) : src[q].op \in Closers => src[q].of # frames[i].at
  BY DEF TokensKnown, Placed
<1>2. t.of # 0 /\ t.of <= Len(src)
  <2>1. Len(src) \in Nat
    BY LenProperties
  <2> QED
    BY <1>1, <2>1
<1> QED
  BY <1>1, <1>2 DEF MayFollow

\* The four ways a step changes the open calls.
LEMMA StraightTokens ==
  ASSUME TypeOK, TokensKnown, NEW t, src' = Append(src, t), MayFollow(t),
         t.op \notin Closers \cup {"else"}, ~ IsMain(t), frames' = frames, funcs' = funcs
  PROVE  TokensKnown'
<1>1. src \in Seq(Token) /\ frames \in Seq(Frame)
  BY DEF TypeOK
<1>2. Len(frames) \in Nat
  BY <1>1, LenProperties
<1> QED
  BY <1>1, <1>2, TokensGrow

LEMMA PushTokens ==
  ASSUME TypeOK, TokensKnown, NEW t, src' = Append(src, t), MayFollow(t),
         t.op \notin Closers \cup {"else"},
         NEW f \in Frame, frames' = Append(frames, f), f.at = Here, TokenKnown(f, src'),
         IF IsMain(t) THEN f.kind = "func" /\ f.fn = Main
                      ELSE funcs'[Main].complete = funcs[Main].complete
  PROVE  TokensKnown'
<1>1. src \in Seq(Token) /\ frames \in Seq(Frame)
  BY DEF TypeOK
<1>2. /\ Len(frames) \in Nat /\ Len(frames') = Len(frames) + 1
      /\ \A i \in 1 .. Len(frames) : frames'[i] = frames[i] /\ i \in 1 .. Len(frames')
      /\ frames'[Len(frames) + 1] = f /\ Len(frames) + 1 \in 1 .. Len(frames')
      /\ \A i \in 1 .. Len(frames') : i \in 1 .. Len(frames) \/ i = Len(frames) + 1
  <2>1. Len(frames) \in Nat
    BY <1>1, LenProperties
  <2>2. /\ Len(frames') = Len(frames) + 1 /\ frames'[Len(frames) + 1] = f
        /\ \A i \in 1 .. Len(frames) : frames'[i] = frames[i]
    BY <1>1, AppendType
  <2> QED
    BY <2>1, <2>2
<1>3. MainWaits(frames', funcs') => MainWaits(frames, funcs) /\ ~ IsMain(t)
  BY <1>2 DEF MainWaits
<1> QED
  BY <1>1, <1>2, <1>3, TokensGrow

LEMMA PopTokens ==
  ASSUME TypeOK, TokensKnown, frames # << >>, frames' = Front(frames),
         NEW t, src' = Append(src, t), MayFollow(t), t.op # "else", ~ IsMain(t), t.of = Top.at,
         Top.kind = "func" /\ Top.fn = Main => funcs'[Main].complete,
         funcs[Main].complete => funcs'[Main].complete
  PROVE  TokensKnown'
<1>1. src \in Seq(Token) /\ frames \in Seq(Frame)
  BY DEF TypeOK
<1> DEFINE n == Len(frames)
<1>2. /\ n \in Nat /\ n # 0 /\ Len(frames') = n - 1 /\ Top = frames[n] /\ Len(frames') \in Nat
      /\ \A i \in 1 .. n - 1 : frames'[i] = frames[i] /\ i \in 1 .. n /\ i < n
      /\ n \in 1 .. n
      /\ \A i \in 1 .. n : i \in 1 .. n - 1 \/ i = n
  <2>1. /\ n \in Nat \ {0} /\ Len(frames') = n - 1 /\ Top = frames[n]
        /\ \A i \in 1 .. n - 1 : frames'[i] = frames[i]
    BY <1>1, FrontType DEF Top
  <2> HIDE DEF n
  <2> QED
    BY <2>1
<1>3. \A i \in 1 .. Len(frames') : frames'[i].at # t.of
  <2> TAKE i \in 1 .. Len(frames')
  <2>1. frames[i].at < frames[n].at
    BY <1>2 DEF TokensKnown, Placed
  <2>2. frames[i].at \in 1 .. Len(src) /\ frames[n].at \in 1 .. Len(src)
    BY <1>2 DEF TokensKnown, Placed
  <2> QED
    BY <1>2, <2>1, <2>2
<1>4. MainWaits(frames', funcs') => MainWaits(frames, funcs)
  <2> SUFFICES ASSUME MainWaits(frames', funcs') PROVE MainWaits(frames, funcs)
    OBVIOUS
  <2>1. \A i \in 1 .. n - 1 : frames[i].kind = "func" => frames[i].fn # Main
    BY <1>2 DEF MainWaits
  <2>2. ~ funcs'[Main].complete
    BY DEF MainWaits
  <2> QED
    BY <1>2, <2>1, <2>2 DEF MainWaits
<1> HIDE DEF n
<1>5. \A i \in 1 .. Len(frames') : i \in 1 .. Len(frames) /\ frames'[i] = frames[i]
  BY <1>2 DEF n
<1> QED
  BY <1>1, <1>2, <1>3, <1>4, <1>5, TokensGrow DEF n

LEMMA TopTokens ==
  ASSUME TypeOK, TokensKnown, frames # << >>, NEW g, frames' = [frames EXCEPT ![Len(frames)] = g],
         NEW t, src' = Append(src, t), MayFollow(t), t.op \notin Closers, ~ IsMain(t),
         t.of = Top.at, funcs' = funcs, Top.kind # "func",
         g.at = Top.at, TokenKnown(g, src')
  PROVE  TokensKnown'
<1>1. src \in Seq(Token) /\ frames \in Seq(Frame)
  BY DEF TypeOK
<1> DEFINE n == Len(frames)
<1>2. n \in Nat /\ n # 0 /\ Top = frames[n]
  BY <1>1, FrontType DEF Top
<1>3. /\ Len(frames') = n /\ frames'[n] = g
      /\ \A i \in 1 .. n : i # n => frames'[i] = frames[i] /\ i < n
      /\ n \in 1 .. n
  BY <1>1, <1>2
<1> HIDE DEF n
<1>4. \A i \in 1 .. n : i # n => frames[i].at # t.of
  <2> TAKE i \in 1 .. n
  <2> HAVE i # n
  <2>1. frames[i].at < frames[n].at
    BY <1>2, <1>3 DEF TokensKnown, Placed, n
  <2>2. frames[i].at \in 1 .. Len(src) /\ frames[n].at \in 1 .. Len(src)
    BY <1>2, <1>3, SMTT(30) DEF TokensKnown, Placed, n
  <2> QED
    BY <1>2, <2>1, <2>2
<1>5. MainWaits(frames', funcs') => MainWaits(frames, funcs)
  <2> SUFFICES ASSUME MainWaits(frames', funcs') PROVE MainWaits(frames, funcs)
    OBVIOUS
  <2>1. \A i \in 1 .. n : i # n => (frames[i].kind = "func" => frames[i].fn # Main)
    BY <1>3 DEF MainWaits
  <2> QED
    BY <1>2, <1>3, <2>1, Zenon DEF MainWaits, n
<1>6. \A i \in 1 .. n :
        /\ frames'[i].at = frames[i].at
        /\ (frames'[i] = frames[i] /\ (t.op = "else" => t.of # frames[i].at)) \/ TokenKnown(frames'[i], src')
  BY <1>2, <1>3, <1>4
<1> QED
  BY <1>1, <1>2, <1>3, <1>5, <1>6, TokensGrow, Zenon DEF n

\* An element appended is of the type of the sequence.
LEMMA Pushed ==
  ASSUME NEW S, NEW s \in Seq(S), NEW e, Append(s, e) \in Seq(S)
  PROVE  e \in S
<1> DEFINE U == S \cup {e}
<1>1. s \in Seq(U) /\ e \in U
  OBVIOUS
<1> HIDE DEF U
<1>2. Len(s) \in Nat /\ Len(Append(s, e)) = Len(s) + 1 /\ Append(s, e)[Len(s) + 1] = e
  BY <1>1, LenProperties, AppendType
<1>3. Len(s) + 1 \in 1 .. Len(Append(s, e))
  BY <1>2
<1> QED
  BY <1>2, <1>3

\* The calls that are opened know their tokens.
LEMMA OpenTokens ==
  ASSUME src \in Seq(Token), TokensKnown, NEW t \in Token, t.of = 0, src' = Append(src, t),
         NEW f, f.at = Here,
         f.kind = "for" => t.op = "for",
         f.kind = "if" => t.op = "if" /\ (f.hasElse => t.form = "else")
  PROVE  TokenKnown(f, src')
<1>1. /\ src'[Here] = t /\ Len(src) \in Nat /\ Here = Len(src) + 1
      /\ \A q \in 1 .. Len(src) : src'[q] = src[q] /\ q < Here
      /\ \A q \in 1 .. Len(src') : q \in 1 .. Len(src) \/ q = Here
  BY PutIs DEF Here
<1>2. ASSUME NEW q \in 1 .. Len(src')
      PROVE  src'[q].of # Here
  <2>1. CASE q \in 1 .. Len(src)
    <3>1. src[q].of < q
      BY <2>1 DEF TokensKnown, TokensRight
    <3>2. src[q] \in Token
      BY <2>1
    <3>3. src[q].of \in Nat /\ q \in Nat
      BY <2>1, <3>2 DEF Token
    <3> QED
      BY <1>1, <2>1, <3>1, <3>3
  <2>2. CASE q = Here
    BY <1>1, <2>2
  <2> QED
    BY <1>1, <2>1, <2>2
<1> QED
  BY <1>1, <1>2 DEF TokenKnown

LEMMA OpenCalls ==
  ASSUME TypeOK, TypeOK', TokensKnown, NEW t \in Token, t.of = 0, src' = Append(src, t),
         t.op \in {"append", "if", "for", "switch"},
         NEW f, f.at = Here, frames' = Append(frames, f), funcs' = funcs,
         f.kind = "for" => t.op = "for",
         f.kind = "if" => t.op = "if" /\ (f.hasElse => t.form = "else")
  PROVE  TokensKnown'
<1>1. src \in Seq(Token) /\ frames \in Seq(Frame) /\ frames' \in Seq(Frame)
  BY DEF TypeOK
<1>2. f \in Frame
  BY <1>1, Pushed
<1>3. t.op \notin Closers \cup {"else"} /\ ~ IsMain(t)
  BY DEF Closers, IsMain
<1>4. MayFollow(t)
  BY <1>1, <1>3, PlainFollows
<1>5. TokenKnown(f, src')
  BY <1>1, OpenTokens
<1> QED
  BY <1>2, <1>3, <1>4, <1>5, PushTokens

\* Statements without a body.
LEMMA PlainTokens ==
  ASSUME TypeOK, TokensKnown,
         Stmt \/ Index \/ Substring \/ TypeAssertion \/ NestedAppend \/ Break \/ Continue
           \/ ReturnValues \/ NakedReturn
  PROVE  TokensKnown'
<1>1. src \in Seq(Token) /\ frames \in Seq(Frame)
  BY DEF TypeOK
<1>2. ASSUME NEW t \in Token, t.of = 0, src' = Append(src, t),
             t.op \in {"stmt", "check", "append", "return"},
             t.op = "check" => t.form \in {"index", "substring", "assertion"},
             frames' = frames, funcs' = funcs
      PROVE  TokensKnown'
  <2>1. t.op \notin Closers \cup {"else"} /\ ~ IsMain(t)
    BY <1>2 DEF Closers, IsMain
  <2>2. MayFollow(t)
    BY <1>1, <1>2, <2>1, PlainFollows
  <2> QED
    BY <1>2, <2>1, <2>2, StraightTokens
<1>3. ASSUME NEW i \in DOMAIN frames, NEW op \in {"break", "continue"},
             Put(op, frames[i].at, "plain"), frames' = frames, funcs' = funcs
      PROVE  TokensKnown'
  <2> DEFINE t == [op |-> op, of |-> frames[i].at, form |-> "plain"]
  <2>1. i \in 1 .. Len(frames) /\ frames[i].at \in Nat
    <3>1. i \in 1 .. Len(frames)
      BY <1>1
    <3>2. Len(src) \in Nat /\ frames[i].at \in 1 .. Len(src)
      BY <1>1, <3>1, LenProperties DEF TokensKnown, Placed
    <3> QED
      BY <3>1, <3>2
  <2>2. t \in Token /\ t.of = frames[i].at /\ t.op # "check" /\ t.op # "else" /\ ~ IsMain(t)
        /\ t.op \notin Closers \cup {"else"}
    BY <2>1 DEF Token, Ops, Forms, IsMain, Closers
  <2>3. src' = Append(src, t)
    BY <1>3 DEF Put
  <2> HIDE DEF t
  <2>4. MayFollow(t)
    BY <1>1, <1>3, <2>1, <2>2, RefersFollows
  <2> QED
    BY <1>3, <2>2, <2>3, <2>4, StraightTokens
<1>4. CASE Stmt
  <2> DEFINE t == [op |-> "stmt", of |-> 0, form |-> "plain"]
  <2>1. t \in Token /\ src' = Append(src, t) /\ frames' = frames /\ funcs' = funcs
    BY <1>4 DEF Stmt, Put, Token, Ops, Forms
  <2> QED
    BY <1>2, <2>1
<1>5. CASE Index
  <2> DEFINE t == [op |-> "check", of |-> 0, form |-> "index"]
  <2>1. t \in Token /\ src' = Append(src, t) /\ frames' = frames /\ funcs' = funcs
    BY <1>5 DEF Index, Put, Token, Ops, Forms
  <2> QED
    BY <1>2, <2>1
<1>6. CASE Substring
  <2> DEFINE t == [op |-> "check", of |-> 0, form |-> "substring"]
  <2>1. t \in Token /\ src' = Append(src, t) /\ frames' = frames /\ funcs' = funcs
    BY <1>6 DEF Substring, Put, Token, Ops, Forms
  <2> QED
    BY <1>2, <2>1
<1>7. CASE TypeAssertion
  <2> DEFINE t == [op |-> "check", of |-> 0, form |-> "assertion"]
  <2>1. t \in Token /\ src' = Append(src, t) /\ frames' = frames /\ funcs' = funcs
    BY <1>7 DEF TypeAssertion, Put, Token, Ops, Forms
  <2> QED
    BY <1>2, <2>1
<1>8. CASE NestedAppend
  <2> DEFINE t == [op |-> "append", of |-> 0, form |-> "copy"]
  <2>1. t \in Token /\ src' = Append(src, t) /\ frames' = frames /\ funcs' = funcs
    BY <1>8 DEF NestedAppend, Put, Token, Ops, Forms
  <2> QED
    BY <1>2, <2>1
<1>9. CASE ReturnValues
  <2> DEFINE t == [op |-> "return", of |-> 0, form |-> "values"]
  <2>1. t \in Token /\ src' = Append(src, t) /\ frames' = frames /\ funcs' = funcs
    BY <1>9 DEF ReturnValues, Put, Token, Ops, Forms
  <2> QED
    BY <1>2, <2>1
<1>10. CASE NakedReturn
  <2> DEFINE t == [op |-> "return", of |-> 0, form |-> "naked"]
  <2>1. t \in Token /\ src' = Append(src, t) /\ frames' = frames /\ funcs' = funcs
    BY <1>10 DEF NakedReturn, Put, Token, Ops, Forms
  <2> QED
    BY <1>2, <2>1
<1>11. CASE Break
  <2>1. /\ BreakablesOpen # {} /\ frames' = frames /\ funcs' = funcs
        /\ Put("break", frames[InnermostOf(BreakablesOpen)].at, "plain")
    BY <1>11 DEF Break
  <2>2. BreakablesOpen \in SUBSET (DOMAIN frames)
    BY DEF BreakablesOpen
  <2>3. InnermostOf(BreakablesOpen) \in DOMAIN frames
    BY <2>1, <2>2, InnermostType
  <2> QED
    BY <1>3, <2>1, <2>3
<1>12. CASE Continue
  <2>1. /\ LoopsOpen # {} /\ frames' = frames /\ funcs' = funcs
        /\ Put("continue", frames[InnermostOf(LoopsOpen)].at, "plain")
    BY <1>12 DEF Continue
  <2>2. LoopsOpen \in SUBSET (DOMAIN frames)
    BY DEF LoopsOpen
  <2>3. InnermostOf(LoopsOpen) \in DOMAIN frames
    BY <2>1, <2>2, InnermostType
  <2> QED
    BY <1>3, <2>1, <2>3
<1> QED
  BY <1>4, <1>5, <1>6, <1>7, <1>8, <1>9, <1>10, <1>11, <1>12

\* Statements with a body.
LEMMA BeginTokens ==
  ASSUME TypeOK, TypeOK', TokensKnown,
         \/ \E self \in BOOLEAN : BeginAppend(self)
         \/ \E hasElse \in BOOLEAN : BeginIf(hasElse)
         \/ \E form \in {"plain", "checked", "range"} : BeginFor(form)
         \/ \E hasDefault \in BOOLEAN : BeginSwitch(hasDefault)
  PROVE  TokensKnown'
<1>1. ASSUME NEW self \in BOOLEAN, BeginAppend(self)
      PROVE  TokensKnown'
  <2> DEFINE t == [op |-> "append", of |-> 0, form |-> IF self THEN "self" ELSE "copy"]
             f == [kind |-> "append", at |-> Here, entry |-> Heights, add |-> Fresh(2)]
  <2>1. /\ t \in Token /\ src' = Append(src, t)
        /\ f.kind = "append" /\ f.at = Here
    BY <1>1 DEF BeginAppend, Put, Token, Ops, Forms
  <2>2. frames' = Append(frames, f) /\ funcs' = funcs
    BY <1>1 DEF BeginAppend
  <2>3. t.of = 0 /\ t.op = "append"
    OBVIOUS
  <2> HIDE DEF t, f
  <2> QED
    BY <2>1, <2>2, <2>3, OpenCalls
<1>2. ASSUME NEW hasElse \in BOOLEAN, BeginIf(hasElse)
      PROVE  TokensKnown'
  <2> DEFINE t == [op |-> "if", of |-> 0, form |-> IF hasElse THEN "else" ELSE "plain"]
             f == [kind |-> "if", at |-> Here, entry |-> Heights, hasElse |-> hasElse,
                   arm |-> "true", tru |-> Fresh(2),
                   fls |-> IF hasElse THEN Fresh(3) ELSE Fresh(1), after |-> Fresh(1)]
  <2>1. /\ t \in Token /\ src' = Append(src, t)
        /\ f.kind = "if" /\ f.at = Here /\ (f.hasElse => t.form = "else")
    BY <1>2 DEF BeginIf, Put, Token, Ops, Forms
  <2>2. frames' = Append(frames, f) /\ funcs' = funcs
    BY <1>2 DEF BeginIf
  <2>3. t.of = 0 /\ t.op = "if"
    OBVIOUS
  <2> HIDE DEF t, f
  <2> QED
    BY <2>1, <2>2, <2>3, OpenCalls
<1>3. ASSUME NEW form \in {"plain", "checked", "range"}, BeginFor(form)
      PROVE  TokensKnown'
  <2> DEFINE t == [op |-> "for", of |-> 0, form |-> form]
             f == [kind |-> "for", at |-> Here, entry |-> Heights,
                   cond |-> Fresh(1), post |-> Fresh(3), after |-> Fresh(4)]
  <2>1. /\ t \in Token /\ src' = Append(src, t)
        /\ f.kind = "for" /\ f.at = Here
    BY <1>3 DEF BeginFor, Put, Token, Ops, Forms
  <2>2. frames' = Append(frames, f) /\ funcs' = funcs
    BY <1>3 DEF BeginFor
  <2>3. t.of = 0 /\ t.op = "for"
    OBVIOUS
  <2> HIDE DEF t, f
  <2> QED
    BY <2>1, <2>2, <2>3, OpenCalls
<1>4. ASSUME NEW hasDefault \in BOOLEAN, BeginSwitch(hasDefault)
      PROVE  TokensKnown'
  <2> DEFINE t == [op |-> "switch", of |-> 0, form |-> IF hasDefault THEN "default" ELSE "plain"]
             f == [kind |-> "switch", at |-> Here, entry |-> Heights, hasDefault |-> hasDefault,
                   open |-> IF hasDefault THEN "default" ELSE "none", pre |-> contextBlock,
                   dflt |-> Fresh(2), after |-> Fresh(1), cases |-> << >>, through |-> << >>]
  <2>1. /\ t \in Token /\ src' = Append(src, t)
        /\ f.kind = "switch" /\ f.at = Here
    BY <1>4 DEF BeginSwitch, Put, Token, Ops, Forms
  <2>2. frames' = Append(frames, f) /\ funcs' = funcs
    BY <1>4 DEF BeginSwitch
  <2>3. t.of = 0 /\ t.op = "switch"
    OBVIOUS
  <2> HIDE DEF t, f
  <2> QED
    BY <2>1, <2>2, <2>3, OpenCalls
<1> QED
  BY <1>1, <1>2, <1>3, <1>4

\* Tokens in the middle of a statement.
LEMMA MiddleCalls ==
  ASSUME TypeOK, TokensKnown, frames # << >>, NEW g, frames' = [frames EXCEPT ![Len(frames)] = g],
         NEW op \in {"else", "enddefault", "case", "endcase", "fallthrough"},
         Put(op, Top.at, "plain"), funcs' = funcs,
         Top.kind \in {"if", "switch"}, g.kind = Top.kind, g.at = Top.at,
         op = "else" => Top.kind = "if" /\ Top.hasElse /\ Top.arm = "true",
         g.kind = "if" => g.hasElse = Top.hasElse /\ g.arm = "false"
  PROVE  TokensKnown'
<1> DEFINE t == [op |-> op, of |-> Top.at, form |-> "plain"]
           n == Len(frames)
<1>1. src \in Seq(Token) /\ frames \in Seq(Frame)
  BY DEF TypeOK
<1>2. n \in 1 .. n /\ Top = frames[n]
  <2>1. n \in Nat \ {0} /\ Top = frames[n]
    BY <1>1, FrontType DEF Top
  <2> HIDE DEF n
  <2> QED
    BY <2>1
<1>3. Top.at \in 1 .. Len(src) /\ TokenKnown(Top, src) /\ Len(src) \in Nat
  BY <1>1, <1>2, LenProperties DEF TokensKnown, Placed
<1>4. t \in Token /\ t.of = Top.at /\ t.op # "check" /\ ~ IsMain(t) /\ t.op \notin Closers
      /\ t.op = op /\ t.form = "plain"
  BY <1>3 DEF Token, Ops, Forms, IsMain, Closers
<1>5. src' = Append(src, t)
  BY DEF Put
<1> HIDE DEF t, n
<1>6. MayFollow(t)
  BY <1>1, <1>2, <1>3, <1>4, RefersFollows DEF TokenKnown, n
<1>7. TokenKnown(g, src')
  <2>1. src'[Top.at] = src[Top.at]
    BY <1>1, <1>3, <1>4, <1>5, PutIs
  <2> QED
    BY <1>3, <2>1 DEF TokenKnown
<1> QED
  BY <1>1, <1>2, <1>4, <1>5, <1>6, <1>7, TopTokens

LEMMA MiddleTokens ==
  ASSUME TypeOK, TokensKnown,
         BeginElse \/ EndDefault \/ BeginCase \/ \E fallthrough \in BOOLEAN : EndCase(fallthrough)
  PROVE  TokensKnown'
<1>1. CASE BeginElse
  <2> DEFINE g == [Top EXCEPT !.arm = "false"]
  <2>1. frames # << >> /\ Top.kind = "if" /\ Top.hasElse /\ Top.arm = "true"
        /\ Put("else", Top.at, "plain") /\ funcs' = funcs
        /\ frames' = [frames EXCEPT ![Len(frames)].arm = "false"]
    BY <1>1 DEF BeginElse, Open
  <2>2. Top \in IfFrame
    <3>1. frames \in Seq(Frame)
      BY DEF TypeOK
    <3>2. Top \in Frame
      BY <2>1, <3>1, FrontType DEF Top
    <3> QED
      BY <2>1, <3>2, FrameKinds
  <2>3. g.kind = "if" /\ g.at = Top.at /\ g.hasElse = Top.hasElse /\ g.arm = "false"
    BY <2>1, <2>2 DEF IfFrame
  <2>4. frames' = [frames EXCEPT ![Len(frames)] = g]
    BY <2>1 DEF Top, Last
  <2> HIDE DEF g
  <2> QED
    BY <2>1, <2>3, <2>4, MiddleCalls
<1>2. ASSUME EndDefault \/ BeginCase \/ \E fallthrough \in BOOLEAN : EndCase(fallthrough)
      PROVE  TokensKnown'
  <2>1. /\ frames # << >> /\ Top.kind = "switch" /\ funcs' = funcs
        /\ \E op \in {"enddefault", "case", "endcase", "fallthrough"} : Put(op, Top.at, "plain")
    BY <1>2 DEF EndDefault, BeginCase, EndCase, Open
  <2>2. Top \in SwitchFrame
    <3>1. frames \in Seq(Frame)
      BY DEF TypeOK
    <3>2. Top \in Frame
      BY <2>1, <3>1, FrontType DEF Top
    <3> QED
      BY <2>1, <3>2, FrameKinds
  <2>3. \E g : /\ frames' = [frames EXCEPT ![Len(frames)] = g]
               /\ g.kind = Top.kind /\ g.at = Top.at
    <3>1. CASE EndDefault
      <4> WITNESS [Top EXCEPT !.open = "none"]
      <4> QED
        BY <3>1, <2>2 DEF EndDefault, Top, Last, SwitchFrame
    <3>2. CASE BeginCase
      <4> WITNESS [Top EXCEPT !.open = "case", !.cases = Append(@, Fresh(1))]
      <4>1. frames' = [frames EXCEPT ![Len(frames)].open  = "case",
                                     ![Len(frames)].cases = Append(@, Fresh(1))]
        BY <3>2 DEF BeginCase
      <4> QED
        BY <4>1, <2>2 DEF Top, Last, SwitchFrame
    <3>3. ASSUME NEW fallthrough \in BOOLEAN, EndCase(fallthrough)
          PROVE  \E g : /\ frames' = [frames EXCEPT ![Len(frames)] = g]
                        /\ g.kind = Top.kind /\ g.at = Top.at
      <4> WITNESS [Top EXCEPT !.open = "none", !.through = Append(@, fallthrough)]
      <4>1. frames' = [frames EXCEPT ![Len(frames)].open    = "none",
                                     ![Len(frames)].through = Append(@, fallthrough)]
        BY <3>3 DEF EndCase
      <4> QED
        BY <4>1, <2>2 DEF Top, Last, SwitchFrame
    <3> QED
      BY <1>2, <3>1, <3>2, <3>3
  <2>4. PICK g : /\ frames' = [frames EXCEPT ![Len(frames)] = g]
                 /\ g.kind = Top.kind /\ g.at = Top.at
    BY <2>3
  <2>5. g.kind # "if"
    BY <2>1, <2>4
  <2> QED
    BY <2>1, <2>4, <2>5, MiddleCalls
<1> QED
  BY <1>1, <1>2

\* The end of a statement or a function.
LEMMA CloseFuncTokens ==
  ASSUME TypeOK, TokensKnown, frames # << >>, frames' = Front(frames),
         NEW op \in Closers, Put(op, Top.at, "plain"),
         funcs'[Main].at = funcs[Main].at, funcs[Main].complete => funcs'[Main].complete,
         Top.kind = "func" => funcs'[Top.fn].complete
  PROVE  TokensKnown'
<1> DEFINE t == [op |-> op, of |-> Top.at, form |-> "plain"]
           n == Len(frames)
<1>1. src \in Seq(Token) /\ frames \in Seq(Frame)
  BY DEF TypeOK
<1>2. n \in 1 .. n /\ Top = frames[n]
  <2>1. n \in Nat \ {0} /\ Top = frames[n]
    BY <1>1, FrontType DEF Top
  <2> HIDE DEF n
  <2> QED
    BY <2>1
<1>3. Top.at \in 1 .. Len(src) /\ Len(src) \in Nat
  BY <1>1, <1>2, LenProperties DEF TokensKnown, Placed
<1>4. t \in Token /\ t.of = Top.at /\ t.op # "check" /\ ~ IsMain(t) /\ t.op # "else"
  BY <1>3 DEF Token, Ops, Forms, IsMain, Closers
<1>5. src' = Append(src, t)
  BY DEF Put
<1> HIDE DEF t, n
<1>6. MayFollow(t)
  BY <1>1, <1>2, <1>4, RefersFollows DEF n
<1> QED
  BY <1>4, <1>5, <1>6, PopTokens

LEMMA EndTokens ==
  ASSUME TypeOK, OwnedNow, TokensKnown, status' # "failed",
         EndAppend \/ EndIf \/ EndFor \/ EndSwitch \/ EndFunc
  PROVE  TokensKnown'
<1>1. CASE EndAppend \/ EndIf \/ EndFor \/ EndSwitch
  <2>1. /\ frames # << >> /\ frames' = Front(frames) /\ funcs' = funcs /\ Top.kind # "func"
        /\ \E op \in Closers : Put(op, Top.at, "plain")
    BY <1>1 DEF EndAppend, EndIf, EndFor, EndSwitch, Open, Closers
  <2> QED
    BY <2>1, CloseFuncTokens
<1>2. CASE EndFunc
  <2>1. /\ frames # << >> /\ frames' = Front(frames) /\ Put("endfunc", Top.at, "plain")
        /\ funcs' = [funcs EXCEPT ![Top.fn].complete = TRUE]
    BY <1>2 DEF EndFunc, Open
  <2>2. Top.fn \in 1 .. Len(funcs)
    BY <1>2, EndFuncBuilds
  <2>3. funcs \in Seq(Func) /\ Main \in 1 .. Len(funcs)
    BY Numbers DEF TypeOK, Main
  <2>4. /\ funcs'[Main].at = funcs[Main].at /\ (funcs[Main].complete => funcs'[Main].complete)
        /\ funcs'[Top.fn].complete
    <3>1. funcs[Top.fn] \in Func /\ funcs[Main] \in Func
      BY <2>2, <2>3
    <3>2. /\ funcs'[Top.fn] = [funcs[Top.fn] EXCEPT !.complete = TRUE]
          /\ Main # Top.fn => funcs'[Main] = funcs[Main]
      <4> DEFINE f == Top.fn
      <4>1. f \in DOMAIN funcs /\ Main \in DOMAIN funcs /\ funcs' = [funcs EXCEPT ![f].complete = TRUE]
        BY <2>1, <2>2, <2>3
      <4> HIDE DEF f
      <4>2. /\ funcs'[f] = [funcs[f] EXCEPT !.complete = TRUE]
            /\ Main # f => funcs'[Main] = funcs[Main]
        BY <4>1
      <4> QED
        BY <4>2 DEF f
    <3> QED
      BY <3>1, <3>2 DEF Func
  <2>5. "endfunc" \in Closers
    BY DEF Closers
  <2> QED
    BY <2>1, <2>4, <2>5, CloseFuncTokens
<1> QED
  BY <1>1, <1>2

\* The functions that a step adds, and those before.
FuncsAdded(kind, results) ==
  /\ Len(funcs') = Len(funcs) + (IF kind = "method" THEN 2 ELSE 1)
  /\ \A k \in 1 .. Len(funcs) : funcs'[k] = funcs[k]
  /\ funcs'[Len(funcs) + 1] = NewFunc(kind, results, Fresh(1), FALSE)
  /\ kind = "method" => funcs'[Len(funcs) + 2] = NewFunc("jump", results, Fresh(2), TRUE)

LEMMA BeginFuncAdds ==
  ASSUME TypeOK, OwnedNow, NEW kind \in {"init", "named", "method", "literal"},
         NEW results \in 0 .. 2, BeginFunc(kind, results)
  PROVE  FuncsAdded(kind, results)
<1> DEFINE f == NewFunc(kind, results, Fresh(1), FALSE)
           j == NewFunc("jump", results, Fresh(2), TRUE)
<1>1. f \in Func /\ j \in Func /\ funcs \in Seq(Func)
  <2>1. results \in Nat /\ Fresh(1) \in Block /\ Fresh(2) \in Block /\ funcs \in Seq(Func)
    BY FreshBlocks DEF TypeOK
  <2> QED
    BY <2>1, NewFuncType
<1>2. funcs' = Append(funcs, f) \o (IF kind = "method" THEN <<j>> ELSE << >>)
  BY DEF BeginFunc
<1> HIDE DEF f, j
<1>3. CASE kind = "method"
  <2>1. funcs' = funcs \o <<f, j>>
    BY <1>1, <1>2, <1>3
  <2>2. /\ Len(funcs') = Len(funcs) + 2
        /\ \A k \in 1 .. Len(funcs) : funcs'[k] = funcs[k]
        /\ funcs'[Len(funcs) + 1] = f /\ funcs'[Len(funcs) + 2] = j
    BY <1>1, <2>1, AddedElements
  <2> QED
    BY <1>3, <2>2, Zenon DEF FuncsAdded, f, j
<1>4. CASE kind # "method"
  <2>1. funcs' = Append(funcs, f)
    BY <1>1, <1>2, <1>4
  <2>2. /\ Len(funcs') = Len(funcs) + 1
        /\ \A k \in 1 .. Len(funcs) : funcs'[k] = funcs[k]
        /\ funcs'[Len(funcs) + 1] = f
    BY <1>1, <2>1, AppendType
  <2> QED
    BY <1>4, <2>2, Zenon DEF FuncsAdded, f
<1> QED
  BY <1>3, <1>4

\* A function is begun.
LEMMA EnterTokens ==
  ASSUME TypeOK, TypeOK', OwnedNow, TokensKnown,
         BeginMain \/ \E kind \in {"init", "named", "method", "literal"}, results \in 0 .. 2 :
                        BeginFunc(kind, results)
  PROVE  TokensKnown'
<1>1. src \in Seq(Token) /\ frames \in Seq(Frame) /\ frames' \in Seq(Frame) /\ funcs \in Seq(Func)
      /\ Main \in 1 .. Len(funcs)
  BY Numbers DEF TypeOK, Main
<1>2. ASSUME NEW f, NEW entry, NEW results, EnterFunc(f, entry, results)
      PROVE  \E g \in Frame : frames' = Append(frames, g) /\ g.kind = "func" /\ g.fn = f /\ g.at = Here
  <2> DEFINE g == [kind |-> "func", at |-> Here, entry |-> Heights, fn |-> f,
                   prevFunc |-> contextFunc, prevBlock |-> contextBlock]
  <2>1. frames' = Append(frames, g)
    BY <1>2 DEF EnterFunc
  <2>2. g \in Frame
    BY <1>1, <2>1, Pushed
  <2> QED
    BY <2>1, <2>2
<1>3. CASE BeginMain
  <2> DEFINE t == [op |-> "func", of |-> 0, form |-> "main"]
  <2>1. /\ frames = << >> /\ ~ funcs[Main].complete /\ EnterFunc(Main, 2, 0)
        /\ funcs' = [funcs EXCEPT ![Main].at = Here]
        /\ src' = Append(src, t)
    BY <1>3 DEF BeginMain, Put
  <2>2. t \in Token /\ t.of = 0 /\ t.op = "func" /\ IsMain(t) /\ t.op \notin Closers \cup {"else"}
    BY DEF Token, Ops, Forms, IsMain, Closers
  <2>3. funcs'[Main].at = Here
    <3>1. funcs[Main] \in Func
      BY <1>1
    <3> QED
      BY <1>1, <2>1, <3>1 DEF Func
  <2>4. MainWaits(frames, funcs)
    BY <2>1 DEF MainWaits
  <2>5. PICK g \in Frame : frames' = Append(frames, g) /\ g.kind = "func" /\ g.fn = Main /\ g.at = Here
    BY <1>2, <2>1
  <2>6. MayFollow(t)
    <3>1. Len(src) \in Nat /\ 0 <= Len(src)
      BY <1>1, LenProperties
    <3>2. \A q \in 1 .. Len(src) : src[q].op \in Closers => src[q].of # 0
      BY DEF TokensKnown, TokensRight
    <3>3. \A q \in 1 .. Len(src) : ~ IsMain(src[q])
      BY <2>4 DEF TokensKnown
    <3> HIDE DEF t
    <3> QED
      BY <2>2, <2>3, <3>1, <3>2, <3>3 DEF MayFollow
  <2> HIDE DEF t
  <2>7. TokenKnown(g, src')
    BY <1>1, <2>1, <2>2, <2>5, OpenTokens
  <2> QED
    BY <2>1, <2>2, <2>5, <2>6, <2>7, PushTokens
<1>4. ASSUME NEW kind \in {"init", "named", "method", "literal"}, NEW results \in 0 .. 2,
             BeginFunc(kind, results)
      PROVE  TokensKnown'
  <2> DEFINE t == [op |-> "func", of |-> 0, form |-> kind]
  <2>1. EnterFunc(Len(funcs) + 1, Fresh(1), results) /\ src' = Append(src, t)
    BY <1>4, Zenon DEF BeginFunc, Put
  <2>2. t \in Token /\ t.of = 0 /\ t.op = "func" /\ ~ IsMain(t) /\ t.op \notin Closers \cup {"else"}
    BY DEF Token, Ops, Forms, IsMain, Closers
  <2>3. funcs'[Main] = funcs[Main]
    BY <1>1, <1>4, BeginFuncAdds DEF FuncsAdded
  <2>4. PICK g \in Frame : frames' = Append(frames, g) /\ g.kind = "func" /\ g.fn = Len(funcs) + 1
                           /\ g.at = Here
    BY <1>2, <2>1
  <2> HIDE DEF t
  <2>5. MayFollow(t)
    BY <1>1, <2>2, <2>3, PlainFollows
  <2>6. TokenKnown(g, src')
    BY <1>1, <2>1, <2>2, <2>4, OpenTokens
  <2> QED
    BY <2>1, <2>2, <2>3, <2>4, <2>5, <2>6, PushTokens, Zenon
<1> QED
  BY <1>3, <1>4

\* The tokens stay known.
LEMMA NextTokens ==
  ASSUME TypeOK, TypeOK', OwnedNow, TokensKnown, [Next]_vars, status' # "failed"
  PROVE  TokensKnown'
<1>1. CASE Finish
  BY <1>1 DEF Finish, TokensKnown, TokensRight
<1>2. CASE UNCHANGED vars
  BY <1>2 DEF vars, TokensKnown, TokensRight
<1> QED
  BY <1>1, <1>2, PlainTokens, BeginTokens, MiddleTokens, EndTokens, EnterTokens DEF Next

LEMMA InitTokens == Init => TokensKnown
<1> SUFFICES ASSUME Init PROVE TokensKnown
  OBVIOUS
<1>1. src = << >> /\ frames = << >> /\ Len(src) = 0 /\ Len(frames) = 0
  BY DEF Init
<1>2. funcs[Main].at = 1
  BY <1>1 DEF Init, NewFunc, Main, Here
<1> QED
  BY <1>1, <1>2 DEF TokensKnown, TokensRight, Placed

-----------------------------------------------------------------------------
(* What is known of the blocks                                               *)

\* Block b is one that an open call, or the compiler now, goes back to.
Back(b, fs, cb) == \E i \in 1 .. Len(fs) : b = Returning(i, fs, cb)

\* The terminators a block may have that is gone on with: none, the placeholder of the
\* add block of an append, the jump to the end of the if around it.
MayJump(t, lab, cond, h) ==
  t = NoTerm \/ (t = Unreachable /\ lab[2] = "add") \/ (h # 0 /\ t = Br(cond[h]))

\* A block that has not ended has no terminator, or will lose the one it has.
Rests(lab, st, t, b, fs, cb) == lab = Nowhere \/ st = Ended \/ t = NoTerm \/ Back(b, fs, cb)

Unlabelled == {"globalinit", "jump"}
BlocksTraced(L, S) ==
  /\ DOMAIN L = 1 .. Len(blocks) /\ DOMAIN S = 1 .. Len(blocks)
  /\ \A b \in 1 .. Len(blocks) :
       /\ L[b] \in Places \cup {Nowhere}
       /\ L[b] = Nowhere => funcs[blocks[b].fn].kind \in Unlabelled
       /\ Good(L, src, blocks[b], L[b], S[b])
       /\ Rests(L[b], S[b], blocks[b].term, b, frames, contextBlock)

\* Block b is made for place pl.
MadeFor(L, S, b, pl) == L[b] = pl /\ S[b] = New

\* The block in which the open arm of an if began.
Arm(f) == IF f.hasElse /\ f.arm = "false" THEN f.fls ELSE f.tru

\* What is known of the blocks of call f; the block its callees return to is r.
IfTraced(f, r, L, S) ==
  f.kind = "if" =>
    /\ MadeFor(L, S, f.after, <<f.at, "after">>)
    /\ f.hasElse /\ f.arm = "true" => MadeFor(L, S, f.fls, <<f.at, "else">>)
    /\ L[Arm(f)][2] \in {"at", "else"}
    /\ S[Arm(f)] = Ended \/ Arm(f) = r
ForTraced(f, L, S) ==
  f.kind = "for" =>
    /\ L[f.cond] = <<f.at, "cond">>
    /\ MadeFor(L, S, f.post, <<f.at, "post">>)
    /\ MadeFor(L, S, f.after, <<f.at, "after">>)
FuncTraced(f, L, S, bl, cond) ==
  f.kind = "func" /\ f.prevBlock # NoBlock =>
    /\ S[f.prevBlock] = OpenAt(<<f.at, "after">>)
    /\ MayJump(bl[f.prevBlock].term, L[f.prevBlock], cond, f.entry.cond)
AppendTraced(f, r) == f.kind = "append" => f.add = r
FrameTraced(f, r, L, S, bl, cond) ==
  /\ IfTraced(f, r, L, S) /\ ForTraced(f, L, S) /\ FuncTraced(f, L, S, bl, cond)
  /\ AppendTraced(f, r)
FramesTraced(L, S) ==
  \A i \in 1 .. Len(frames) :
    FrameTraced(frames[i], Returning(i, frames, contextBlock), L, S, blocks, contextCondAfter)

\* The blocks of the cases of switch f, whose tokens are s, in their order.
CaseTokens(p, sr) == {q \in 1 .. Len(sr) : sr[q].op = "case" /\ sr[q].of = p}
CaseEnds(f, k, s, S, sr) ==
  \E e \in 1 .. Len(sr) :
    /\ S[f.cases[k]] = OpenAt(<<e, "at">>)
    /\ sr[e].of = f.at
    /\ IF f.through[k] THEN /\ sr[e].op = "fallthrough"
                            /\ IF k < Len(f.cases) THEN s[k + 1] = e + 1 ELSE e = Len(sr)
                       ELSE sr[e].op = "endcase"
CasesTraced(f, s, L, S, sr) ==
  /\ Orders(s, Len(f.cases), CaseTokens(f.at, sr))
  /\ \A k \in 1 .. Len(f.cases) : L[f.cases[k]] = <<s[k] + 1, "at">>
  /\ \A k \in 1 .. Len(f.through) : CaseEnds(f, k, s, S, sr)
SwitchTraced(f, cb, L, S, sr) ==
  f.kind = "switch" =>
    /\ MadeFor(L, S, f.after, <<f.at, "after">>)
    /\ L[f.dflt] = <<f.at, "dflt">>
    /\ IF f.open = "default" THEN Len(f.cases) = 0 ELSE S[f.dflt] = Ended
    /\ S[f.pre] = Choosing(f.at)
    /\ IF f.open = "case" THEN Len(f.cases) = Len(f.through) + 1 /\ cb = f.cases[Len(f.cases)]
                          ELSE Len(f.cases) = Len(f.through)
    /\ \E s : CasesTraced(f, s, L, S, sr)

\* The block code goes to waits for the next token, unless a jump was the last statement.
Current(L, S) ==
  IF AfterJump
    THEN /\ S[contextBlock] = Ended
         /\ Top.kind \in {"if", "func"}
         /\ Top.kind = "func" => funcs[Top.fn].results > 0
    ELSE \/ Top.kind = "switch" /\ Top.open = "none"
         \/ /\ S[contextBlock] = OpenAt(<<Here, "at">>)
            /\ MayJump(blocks[contextBlock].term, L[contextBlock], contextCondAfter,
                       Len(contextCondAfter))
            /\ Top.kind = "switch" => blocks[contextBlock].term = NoTerm

\* Where the functions begin.
EntryOfFunc(f) == <<IF f = Main THEN 0 ELSE funcs[f].at, "entry">>
EntriesTraced(L) ==
  \A f \in 1 .. Len(funcs) : funcs[f].kind \notin Unlabelled =>
    /\ funcs[f].entry \in 1 .. Len(blocks) /\ blocks[funcs[f].entry].fn = f
    /\ L[funcs[f].entry] = EntryOfFunc(f)
    /\ funcs[f].at # 0

Traced(L, S) ==
  /\ L[1] = Nowhere
  /\ BlocksTraced(L, S)
  /\ FramesTraced(L, S)
  /\ frames # << >> => SwitchTraced(Top, contextBlock, L, S, src) /\ Current(L, S)
  /\ EntriesTraced(L)
  /\ MainWaits(frames, funcs) => S[2] = New /\ L[2] = <<0, "entry">>

-----------------------------------------------------------------------------
(* Steps                                                                     *)

\* The blocks outside W stay as they are; M and R are the labels and states after the step.
Wrote(L, S, M, R, W) ==
  /\ Len(blocks) <= Len(blocks')
  /\ DOMAIN M = 1 .. Len(blocks') /\ DOMAIN R = 1 .. Len(blocks')
  /\ \A b \in 1 .. Len(blocks) :
       /\ M[b] = L[b]
       /\ b \notin W => R[b] = S[b] /\ blocks'[b] = blocks[b]

\* Block b, written or made in the step, is right.
Fine(M, R, b) ==
  /\ Good(M, src', blocks'[b], M[b], R[b])
  /\ Rests(M[b], R[b], blocks'[b].term, b, frames', contextBlock')

\* Every block is right after a step.
LEMMA BlocksStep ==
  ASSUME NEW L, NEW S, NEW M, NEW R, NEW W, Len(blocks) \in Nat, Len(blocks') \in Nat,
         BlocksTraced(L, S), Wrote(L, S, M, R, W), Extends(src', src),
         \A b \in 1 .. Len(blocks) : /\ blocks[b].fn \in 1 .. Len(funcs)
                                     /\ blocks'[b].fn = blocks[b].fn,
         \A k \in 1 .. Len(funcs) : funcs'[k].kind = funcs[k].kind,
         \A b \in 1 .. Len(blocks) :
           b \notin W /\ S[b] # Ended /\ blocks[b].term # NoTerm /\ Back(b, frames, contextBlock)
             => Back(b, frames', contextBlock'),
         \A b \in 1 .. Len(blocks) : b \in W => Fine(M, R, b),
         \A b \in Len(blocks) + 1 .. Len(blocks') :
           /\ Fine(M, R, b)
           /\ \/ M[b] \in Places
              \/ M[b] = Nowhere /\ funcs'[blocks'[b].fn].kind \in Unlabelled
  PROVE  BlocksTraced(M, R)'
<1>1. Labels(M, L) /\ DOMAIN M = 1 .. Len(blocks') /\ DOMAIN R = 1 .. Len(blocks')
  BY DEF Labels, Wrote, BlocksTraced
<1>2. Nowhere \notin Places
  BY DEF Nowhere, Places, Marks
<1>3. ASSUME NEW b \in 1 .. Len(blocks')
      PROVE  /\ M[b] \in Places \cup {Nowhere}
             /\ M[b] = Nowhere => funcs'[blocks'[b].fn].kind \in Unlabelled
             /\ Good(M, src', blocks'[b], M[b], R[b])
             /\ Rests(M[b], R[b], blocks'[b].term, b, frames', contextBlock')
  <2>1. CASE b \in 1 .. Len(blocks)
    <3>1. /\ M[b] = L[b] /\ L[b] \in Places \cup {Nowhere}
          /\ M[b] = Nowhere => funcs'[blocks'[b].fn].kind \in Unlabelled
      BY <2>1 DEF BlocksTraced, Wrote
    <3>2. CASE b \in W
      BY <2>1, <3>1, <3>2 DEF Fine
    <3>3. CASE b \notin W
      <4>1. R[b] = S[b] /\ blocks'[b] = blocks[b]
        BY <2>1, <3>3 DEF Wrote
      <4>2. Good(L, src, blocks[b], L[b], S[b]) /\ Rests(L[b], S[b], blocks[b].term, b, frames, contextBlock)
        BY <2>1 DEF BlocksTraced
      <4>3. Good(M, src', blocks[b], L[b], S[b])
        BY <1>1, <4>2, GoodStays
      <4>4. Rests(M[b], R[b], blocks'[b].term, b, frames', contextBlock')
        BY <2>1, <3>1, <3>3, <4>1, <4>2 DEF Rests
      <4> QED
        BY <3>1, <4>1, <4>3, <4>4
    <3> QED
      BY <3>2, <3>3
  <2>2. CASE b \in Len(blocks) + 1 .. Len(blocks')
    BY <1>2, <2>2 DEF Fine
  <2> QED
    BY <2>1, <2>2
<1> QED
  BY <1>1, <1>3 DEF BlocksTraced

\* Call f keeps its hold of the blocks if none of the written ones is reserved by it.
Spares(f, L, S, W) ==
  \A b \in W : /\ S[b] # Ended /\ S[b] # OpenAt(<<f.at, "after">>)
               /\ S[b] = New => L[b][1] # f.at

LEMMA StatesDiffer ==
  /\ \A pl : OpenAt(pl) # New /\ OpenAt(pl) # Ended /\ New # Ended
  /\ \A p : Choosing(p) # New /\ Choosing(p) # Ended
  /\ \A p, pl : Choosing(p) # OpenAt(pl)
  /\ \A pl, pm : OpenAt(pl) = OpenAt(pm) => pl = pm
BY DEF OpenAt, New, Ended, Choosing

\* What is known of a call stays known.
LEMMA FrameStays ==
  ASSUME NEW L, NEW S, NEW M, NEW R, NEW W, Wrote(L, S, M, R, W),
         NEW f \in Frame, NEW r, NEW r2, NEW outer, NEW m, FrameOwned(f, outer, blocks, m),
         FrameTraced(f, r, L, S, blocks, contextCondAfter), Spares(f, L, S, W),
         r2 = r \/ (f.kind # "append" /\ (r = NoBlock \/ R[r] = Ended)),
         SameTo(contextCondAfter, contextCondAfter', f.entry.cond)
  PROVE  FrameTraced(f, r2, M, R, blocks', contextCondAfter')
<1>1. \A b \in 1 .. Len(blocks) : M[b] = L[b] /\ (b \notin W => R[b] = S[b] /\ blocks'[b] = blocks[b])
  BY DEF Wrote
<1>2. ASSUME NEW b \in 1 .. Len(blocks), NEW m2, MadeFor(L, S, b, <<f.at, m2>>)
      PROVE  MadeFor(M, R, b, <<f.at, m2>>)
  <2>1. b \notin W
    BY <1>2 DEF MadeFor, Spares
  <2> QED
    BY <1>1, <1>2, <2>1 DEF MadeFor
<1>3. IfTraced(f, r2, M, R)
  <2> SUFFICES ASSUME f.kind = "if" PROVE IfTraced(f, r2, M, R)
    BY DEF IfTraced
  <2>1. /\ f.after \in 1 .. Len(blocks) /\ f.fls \in 1 .. Len(blocks) /\ f.tru \in 1 .. Len(blocks)
        /\ f.tru # NoBlock /\ f.fls # NoBlock
    BY DEF FrameOwned, In, NoBlock
  <2>2. Arm(f) \in 1 .. Len(blocks) /\ Arm(f) # NoBlock
    BY <2>1 DEF Arm
  <2>3. IfTraced(f, r, L, S)
    BY DEF FrameTraced
  <2>4. R[Arm(f)] = Ended \/ Arm(f) = r2
    <3>1. CASE S[Arm(f)] = Ended
      BY <1>1, <2>2, <3>1 DEF Spares
    <3>2. CASE Arm(f) = r
      BY <2>2, <3>2
    <3> QED
      BY <2>3, <3>1, <3>2 DEF IfTraced
  <2> QED
    BY <1>1, <1>2, <2>1, <2>2, <2>3, <2>4 DEF IfTraced
<1>4. ForTraced(f, M, R)
  <2> SUFFICES ASSUME f.kind = "for" PROVE ForTraced(f, M, R)
    BY DEF ForTraced
  <2>1. f.after \in 1 .. Len(blocks) /\ f.cond \in 1 .. Len(blocks) /\ f.post \in 1 .. Len(blocks)
    BY DEF FrameOwned, In
  <2> QED
    BY <1>1, <1>2, <2>1 DEF FrameTraced, ForTraced
<1>5. FuncTraced(f, M, R, blocks', contextCondAfter')
  <2> SUFFICES ASSUME f.kind = "func", f.prevBlock # NoBlock
               PROVE  FuncTraced(f, M, R, blocks', contextCondAfter')
    BY DEF FuncTraced
  <2> DEFINE b == f.prevBlock
             h == f.entry.cond
  <2>1. b \in 1 .. Len(blocks) /\ h \in Nat
    <3>1. f \in FuncFrame
      BY FrameKinds
    <3> QED
      BY <3>1 DEF FrameOwned, In, NoBlock, FuncFrame, Height
  <2>2. S[b] = OpenAt(<<f.at, "after">>) /\ MayJump(blocks[b].term, L[b], contextCondAfter, h)
    BY DEF FrameTraced, FuncTraced
  <2>3. b \notin W
    BY <2>2 DEF Spares
  <2>4. h # 0 => contextCondAfter'[h] = contextCondAfter[h]
    <3>1. h # 0 => h \in 1 .. h
      BY <2>1
    <3> QED
      BY <3>1 DEF SameTo
  <2>5. MayJump(blocks'[b].term, M[b], contextCondAfter', h)
    BY <1>1, <2>1, <2>2, <2>3, <2>4 DEF MayJump
  <2> QED
    BY <1>1, <2>1, <2>2, <2>3, <2>5 DEF FuncTraced
<1>6. AppendTraced(f, r2)
  BY DEF FrameTraced, AppendTraced
<1> QED
  BY <1>3, <1>4, <1>5, <1>6 DEF FrameTraced

\* What a step does to the blocks: those outside W stay as they are, the others are right.
BlocksNext(L, S, M, R, W) ==
  /\ Wrote(L, S, M, R, W)
  /\ \A b \in 1 .. Len(blocks) : /\ blocks'[b].fn = blocks[b].fn
                                 /\ b \in W => Fine(M, R, b)
  /\ \A b \in Len(blocks) + 1 .. Len(blocks') :
       /\ Fine(M, R, b)
       /\ \/ M[b] \in Places
          \/ M[b] = Nowhere /\ funcs'[blocks'[b].fn].kind \in Unlabelled

\* The blocks in W wait for a token, or hold a switch; or are reserved by the innermost call.
Free(S, W)     == \A b \in W : (\E x : S[b] = OpenAt(<<x, "at">>)) \/ (\E p : S[b] = Choosing(p))
OfTop(L, S, W) ==
  \A b \in W : \/ (\E x : S[b] = OpenAt(<<x, "at">>)) \/ (\E p : S[b] = Choosing(p))
               \/ S[b] = New /\ L[b][1] = Top.at
               \/ S[b] = OpenAt(<<Top.at, "after">>)

LEMMA FreeSpares ==
  ASSUME NEW L, NEW S, NEW W, Free(S, W), NEW f
  PROVE  Spares(f, L, S, W)
<1> SUFFICES ASSUME NEW b \in W
             PROVE  /\ S[b] # Ended /\ S[b] # OpenAt(<<f.at, "after">>)
                    /\ S[b] = New => L[b][1] # f.at
  BY DEF Spares
<1>1. CASE \E p : S[b] = Choosing(p)
  BY <1>1, StatesDiffer
<1>2. CASE \E x : S[b] = OpenAt(<<x, "at">>)
  <2>1. PICK x : S[b] = OpenAt(<<x, "at">>)
    BY <1>2
  <2>2. <<x, "at">> # <<f.at, "after">>
    OBVIOUS
  <2> QED
    BY <2>1, <2>2, StatesDiffer, Zenon
<1> QED
  BY <1>1, <1>2 DEF Free

LEMMA TopSpares ==
  ASSUME NEW L, NEW S, NEW W, OfTop(L, S, W), NEW f, f.at # Top.at
  PROVE  Spares(f, L, S, W)
<1> SUFFICES ASSUME NEW b \in W
             PROVE  /\ S[b] # Ended /\ S[b] # OpenAt(<<f.at, "after">>)
                    /\ S[b] = New => L[b][1] # f.at
  BY DEF Spares
<1>1. CASE \E p : S[b] = Choosing(p)
  BY <1>1, StatesDiffer
<1>2. CASE \E x : S[b] = OpenAt(<<x, "at">>)
  <2>1. PICK x : S[b] = OpenAt(<<x, "at">>)
    BY <1>2
  <2>2. <<x, "at">> # <<f.at, "after">>
    OBVIOUS
  <2> QED
    BY <2>1, <2>2, StatesDiffer, Zenon
<1>3. CASE S[b] = New /\ L[b][1] = Top.at
  BY <1>3, StatesDiffer
<1>4. CASE S[b] = OpenAt(<<Top.at, "after">>)
  <2>1. <<Top.at, "after">> # <<f.at, "after">>
    OBVIOUS
  <2> QED
    BY <1>4, <2>1, StatesDiffer, Zenon
<1> QED
  BY <1>1, <1>2, <1>3, <1>4 DEF OfTop

\* The stack of after blocks keeps what it held when a call was opened.
LEMMA CondKept ==
  ASSUME TypeOK, OwnedNow, StacksRight,
         \/ contextCondAfter' = contextCondAfter
         \/ \E b \in Block : contextCondAfter' = Append(contextCondAfter, b)
         \/ frames # << >> /\ Top.kind = "if" /\ contextCondAfter' = Front(contextCondAfter)
  PROVE  \A i \in 1 .. Len(frames) :
           SameTo(contextCondAfter, contextCondAfter', frames[i].entry.cond)
<1> SUFFICES ASSUME NEW i \in 1 .. Len(frames)
             PROVE  SameTo(contextCondAfter, contextCondAfter', frames[i].entry.cond)
  OBVIOUS
<1> DEFINE h == frames[i].entry.cond
           k == Len(contextCondAfter)
<1>1. /\ contextCondAfter \in Seq(Block) /\ k \in Nat /\ h \in Nat /\ Len(frames) \in Nat
      /\ frames[i].entry \in Height
  BY CallTypes DEF TypeOK, Height
<1>2. h <= Inside(frames[i]).cond /\ Inside(frames[i]).cond \in Nat
  BY InsideTypes, CallTypes DEF Below, Height
<1>3. Inside(frames[i]).cond <= k
  <2>1. Len(frames) + 1 \in i + 1 .. Len(frames) + 1
    BY <1>1
  <2>2. Below(Inside(frames[i]), EntryAt(Len(frames) + 1))
    BY <2>1, HeightsGrow DEF StacksRight
  <2> QED
    BY <2>2 DEF Below, EntryAt, Heights
<1>4. h <= k
  BY <1>1, <1>2, <1>3
<1>5. CASE contextCondAfter' = contextCondAfter
  BY <1>5 DEF SameTo
<1>6. CASE \E b \in Block : contextCondAfter' = Append(contextCondAfter, b)
  <2>1. PICK b \in Block : contextCondAfter' = Append(contextCondAfter, b)
    BY <1>6
  <2>2. SameTo(contextCondAfter, contextCondAfter', k)
    BY <1>1, <2>1, SameStacks
  <2> QED
    BY <1>1, <1>4, <2>2 DEF SameTo
<1>7. CASE frames # << >> /\ Top.kind = "if" /\ contextCondAfter' = Front(contextCondAfter)
  <2>1. h + 1 <= k
    <3>1. CASE i = Len(frames)
      <4>1. Heights = Inside(Top) /\ Top = frames[i]
        BY <1>7, <3>1, TopHeights
      <4> QED
        BY <1>1, <1>7, <4>1 DEF Heights, Inside
    <3>2. CASE i # Len(frames)
      <4>1. Len(frames) \in i + 1 .. Len(frames) + 1 /\ Len(frames) \in 1 .. Len(frames)
        BY <1>1, <3>2
      <4>2. Below(Inside(frames[i]), EntryAt(Len(frames)))
        BY <4>1, HeightsGrow DEF StacksRight
      <4>3. EntryAt(Len(frames)) = Top.entry
        BY <1>7, <4>1, Chain, TopHeights DEF StacksRight
      <4>4. Heights = Inside(Top) /\ Top.entry.cond \in Nat
        BY <1>7, TopHeights DEF Height
      <4>5. k = Top.entry.cond + 1
        BY <1>7, <4>4 DEF Heights, Inside
      <4>6. Inside(frames[i]).cond <= Top.entry.cond
        BY <4>2, <4>3 DEF Below
      <4> QED
        BY <1>1, <1>2, <4>4, <4>5, <4>6
    <3> QED
      BY <3>1, <3>2
  <2>2. contextCondAfter # << >>
    BY <1>1, <2>1, EmptySeq
  <2>3. SameTo(contextCondAfter, contextCondAfter', k - 1)
    BY <1>1, <1>7, <2>2, SameStacks
  <2> QED
    BY <1>1, <2>1, <2>3 DEF SameTo
<1> QED
  BY <1>5, <1>6, <1>7

\* What a call remembers of its caller: the block the caller goes on in.
Remembers(f) == IF f.kind = "func" THEN f.prevBlock ELSE IF f.kind = "switch" THEN f.pre ELSE NoBlock

\* Where the calls go on when a call is opened, closed, or changed.
Pushes(fs, f, gs, cb, cc) ==
  /\ Len(gs) = Len(fs) + 1 /\ Len(fs) \in Nat /\ gs[Len(gs)] = f /\ Last(gs) = f /\ gs # << >>
  /\ \A i \in 1 .. Len(gs) : i \in 1 .. Len(fs) \/ i = Len(gs)
  /\ \A i \in 1 .. Len(fs) : /\ gs[i] = fs[i] /\ i \in 1 .. Len(gs)
                             /\ Returning(i, gs, cc) = IF i = Len(fs) THEN Remembers(f)
                                                       ELSE Returning(i, fs, cb)
  /\ Returning(Len(gs), gs, cc) = cc

LEMMA PushReturning ==
  ASSUME NEW fs \in Seq(Frame), NEW f \in Frame, NEW gs, gs = Append(fs, f), NEW cb, NEW cc
  PROVE  Pushes(fs, f, gs, cb, cc)
<1>1. /\ Len(fs) \in Nat /\ gs \in Seq(Frame) /\ Len(gs) = Len(fs) + 1 /\ gs # << >>
      /\ \A i \in 1 .. Len(fs) : gs[i] = fs[i]
      /\ gs[Len(fs) + 1] = f /\ Last(gs) = f
  BY LenProperties, AppendType
<1>2. ASSUME NEW i \in 1 .. Len(fs)
      PROVE  Returning(i, gs, cc) = IF i = Len(fs) THEN Remembers(f) ELSE Returning(i, fs, cb)
  <2>1. i # Len(gs)
    BY <1>1
  <2>2. CASE i = Len(fs)
    BY <1>1, <2>1, <2>2 DEF Returning, Remembers
  <2>3. CASE i # Len(fs)
    <3>1. i + 1 \in 1 .. Len(fs)
      BY <1>1, <2>3
    <3>2. gs[i + 1] = fs[i + 1]
      BY <1>1, <3>1
    <3> QED
      BY <2>1, <2>3, <3>2 DEF Returning
  <2> QED
    BY <2>2, <2>3
<1>3. Returning(Len(gs), gs, cc) = cc
  BY DEF Returning
<1>4. /\ \A i \in 1 .. Len(gs) : i \in 1 .. Len(fs) \/ i = Len(gs)
      /\ \A i \in 1 .. Len(fs) : i \in 1 .. Len(gs)
  BY <1>1
<1> QED
  BY <1>1, <1>2, <1>3, <1>4 DEF Pushes

Pops(fs, gs, cb, cc) ==
  /\ Len(gs) = Len(fs) - 1 /\ Len(fs) \in Nat \ {0} /\ fs[Len(fs)] = Last(fs)
  /\ gs # << >> => Last(gs) = fs[Len(fs) - 1] /\ Len(fs) - 1 \in 1 .. Len(fs) - 1
  /\ \A i \in 1 .. Len(fs) : i \in 1 .. Len(gs) \/ i = Len(fs)
  /\ \A i \in 1 .. Len(gs) : /\ gs[i] = fs[i] /\ i \in 1 .. Len(fs) /\ i # Len(fs)
                             /\ i = Len(gs) => /\ Returning(i, gs, cc) = cc
                                               /\ Returning(i, fs, cb) = Remembers(Last(fs))
                             /\ i # Len(gs) => Returning(i, gs, cc) = Returning(i, fs, cb)

LEMMA PopReturning ==
  ASSUME NEW fs \in Seq(Frame), fs # << >>, NEW gs, gs = Front(fs), NEW cb, NEW cc
  PROVE  Pops(fs, gs, cb, cc)
<1>1. /\ gs \in Seq(Frame) /\ Len(gs) = Len(fs) - 1 /\ Len(fs) \in Nat \ {0}
      /\ \A i \in 1 .. Len(fs) - 1 : gs[i] = fs[i]
      /\ Last(fs) = fs[Len(fs)]
  BY FrontType
<1>2. gs # << >> => Last(gs) = fs[Len(fs) - 1] /\ Len(fs) - 1 \in 1 .. Len(fs) - 1
  <2> SUFFICES ASSUME gs # << >> PROVE Last(gs) = fs[Len(fs) - 1] /\ Len(fs) - 1 \in 1 .. Len(fs) - 1
    OBVIOUS
  <2>1. Last(gs) = gs[Len(gs)] /\ Len(gs) \in Nat \ {0}
    BY <1>1, FrontType
  <2>2. Len(fs) - 1 \in 1 .. Len(fs) - 1
    BY <1>1, <2>1
  <2> QED
    BY <1>1, <2>1, <2>2
<1>3. ASSUME NEW i \in 1 .. Len(gs)
      PROVE  /\ gs[i] = fs[i] /\ i \in 1 .. Len(fs) /\ i # Len(fs)
             /\ i = Len(gs) => /\ Returning(i, gs, cc) = cc
                               /\ Returning(i, fs, cb) = Remembers(Last(fs))
             /\ i # Len(gs) => Returning(i, gs, cc) = Returning(i, fs, cb)
  <2>1. i \in 1 .. Len(fs) - 1 /\ i \in 1 .. Len(fs) /\ i # Len(fs)
    BY <1>1
  <2>2. CASE i = Len(gs)
    <3>1. i + 1 = Len(fs)
      BY <1>1, <2>2
    <3> QED
      BY <1>1, <2>1, <2>2, <3>1 DEF Returning, Remembers
  <2>3. CASE i # Len(gs)
    <3>1. i + 1 \in 1 .. Len(fs) - 1
      BY <1>1, <2>3
    <3>2. gs[i + 1] = fs[i + 1]
      BY <1>1, <3>1
    <3> QED
      BY <1>1, <2>1, <2>3, <3>2 DEF Returning
  <2> QED
    BY <2>2, <2>3
<1>4. \A i \in 1 .. Len(fs) : i \in 1 .. Len(gs) \/ i = Len(fs)
  BY <1>1, SMTT(30)
<1> QED
  BY <1>1, <1>2, <1>3, <1>4 DEF Pops

Changes(fs, g, gs, cb, cc) ==
  /\ Len(gs) = Len(fs) /\ Len(fs) \in 1 .. Len(fs) /\ fs[Len(fs)] = Last(fs)
  /\ gs[Len(fs)] = g /\ Last(gs) = g /\ gs # << >>
  /\ \A i \in 1 .. Len(fs) : i # Len(fs) => /\ gs[i] = fs[i]
                                            /\ Returning(i, gs, cc) = Returning(i, fs, cb)
  /\ Returning(Len(fs), gs, cc) = cc

LEMMA TopReturning ==
  ASSUME NEW fs \in Seq(Frame), fs # << >>, NEW g \in Frame, NEW gs,
         gs = [fs EXCEPT ![Len(fs)] = g], NEW cb, NEW cc,
         g.kind = Last(fs).kind, Remembers(g) = Remembers(Last(fs))
  PROVE  Changes(fs, g, gs, cb, cc)
<1>1. Len(fs) \in Nat \ {0} /\ Last(fs) = fs[Len(fs)] /\ Len(fs) \in 1 .. Len(fs)
  <2>1. Len(fs) \in Nat \ {0} /\ Last(fs) = fs[Len(fs)]
    BY FrontType
  <2> QED
    BY <2>1
<1>2. /\ gs \in Seq(Frame) /\ Len(gs) = Len(fs)
      /\ \A i \in 1 .. Len(fs) : gs[i] = IF i = Len(fs) THEN g ELSE fs[i]
  BY <1>1, ExceptSeq
<1>3. gs # << >> /\ Last(gs) = g
  <2>1. gs # << >>
    BY <1>1, <1>2, EmptySeq
  <2>2. Last(gs) = gs[Len(gs)]
    BY <1>2, <2>1, FrontType, Zenon
  <2> QED
    BY <1>1, <1>2, <2>1, <2>2
<1>4. ASSUME NEW i \in 1 .. Len(fs), i # Len(fs)
      PROVE  gs[i] = fs[i] /\ Returning(i, gs, cc) = Returning(i, fs, cb)
  <2>1. i + 1 \in 1 .. Len(fs)
    BY <1>1, <1>4
  <2>2. gs[i + 1] = IF i + 1 = Len(fs) THEN g ELSE fs[i + 1]
    BY <1>2, <2>1
  <2>3. gs[i + 1].kind = fs[i + 1].kind /\ Remembers(gs[i + 1]) = Remembers(fs[i + 1])
    BY <1>1, <2>2, SMTT(30)
  <2>4. Returning(i, gs, cc) = Remembers(gs[i + 1]) /\ Returning(i, fs, cb) = Remembers(fs[i + 1])
    BY <1>2, <1>4, Zenon DEF Returning, Remembers
  <2> QED
    BY <1>2, <1>4, <2>3, <2>4, Zenon
<1>5. Returning(Len(fs), gs, cc) = cc
  BY <1>2 DEF Returning
<1> QED
  BY <1>1, <1>2, <1>3, <1>4, <1>5, Zenon DEF Changes

\* The calls that stay as they are, and those that are changed or opened.
LEMMA FramesNext ==
  ASSUME TypeOK, OwnedNow, NEW L, NEW S, NEW M, NEW R, NEW W, Wrote(L, S, M, R, W),
         FramesTraced(L, S),
         \A i \in 1 .. Len(frames) :
           SameTo(contextCondAfter, contextCondAfter', frames[i].entry.cond),
         \A i \in 1 .. Len(frames') :
           \/ /\ i \in 1 .. Len(frames) /\ frames'[i] = frames[i] /\ Spares(frames[i], L, S, W)
              /\ \/ Returning(i, frames', contextBlock') = Returning(i, frames, contextBlock)
                 \/ /\ frames[i].kind # "append"
                    /\ \/ Returning(i, frames, contextBlock) = NoBlock
                       \/ R[Returning(i, frames, contextBlock)] = Ended
           \/ FrameTraced(frames'[i], Returning(i, frames', contextBlock'), M, R,
                          blocks', contextCondAfter')
  PROVE  FramesTraced(M, R)'
<1> SUFFICES ASSUME NEW i \in 1 .. Len(frames')
             PROVE  FrameTraced(frames'[i], Returning(i, frames', contextBlock'), M, R,
                                blocks', contextCondAfter')
  BY DEF FramesTraced
<1>1. CASE /\ i \in 1 .. Len(frames) /\ frames'[i] = frames[i] /\ Spares(frames[i], L, S, W)
           /\ \/ Returning(i, frames', contextBlock') = Returning(i, frames, contextBlock)
              \/ /\ frames[i].kind # "append"
                 /\ \/ Returning(i, frames, contextBlock) = NoBlock
                    \/ R[Returning(i, frames, contextBlock)] = Ended
  <2> DEFINE f  == frames[i]
             r  == Returning(i, frames, contextBlock)
             r2 == Returning(i, frames', contextBlock')
             outer == OwnerAt(i - 1, frames, blocks)
  <2>1. /\ f \in Frame /\ FrameOwned(f, outer, blocks, Len(funcs))
        /\ FrameTraced(f, r, L, S, blocks, contextCondAfter)
        /\ SameTo(contextCondAfter, contextCondAfter', f.entry.cond)
        /\ Spares(f, L, S, W)
        /\ r2 = r \/ (f.kind # "append" /\ (r = NoBlock \/ R[r] = Ended))
    BY <1>1, CallTypes DEF OwnedNow, Owned, FramesTraced
  <2>2. frames'[i] = f
    BY <1>1
  <2> HIDE DEF f, r, r2, outer
  <2>3. FrameTraced(f, r2, M, R, blocks', contextCondAfter')
    BY <2>1, FrameStays
  <2> QED
    BY <2>2, <2>3 DEF r2
<1> QED
  BY <1>1

\* The functions begin where they began.
LEMMA EntriesSame ==
  ASSUME NEW L, NEW S, NEW M, NEW R, NEW W, BlocksNext(L, S, M, R, W), Len(blocks) \in Nat,
         EntriesTraced(L), Len(blocks') \in Nat, UNCHANGED funcs
  PROVE  EntriesTraced(M)'
<1>1. ASSUME NEW f \in 1 .. Len(funcs), funcs[f].kind \notin Unlabelled
      PROVE  /\ funcs[f].entry \in 1 .. Len(blocks') /\ blocks'[funcs[f].entry].fn = f
             /\ M[funcs[f].entry] = EntryOfFunc(f) /\ funcs[f].at # 0
  <2>1. /\ funcs[f].entry \in 1 .. Len(blocks) /\ blocks[funcs[f].entry].fn = f
        /\ L[funcs[f].entry] = EntryOfFunc(f) /\ funcs[f].at # 0
    BY <1>1 DEF EntriesTraced
  <2>2. Len(blocks) <= Len(blocks')
    BY DEF BlocksNext, Wrote
  <2> QED
    BY <2>1, <2>2 DEF BlocksNext, Wrote
<1> QED
  BY <1>1 DEF EntriesTraced, EntryOfFunc

\* What every step has to show.
LEMMA TracedStep ==
  ASSUME TypeOK, TypeOK', OwnedNow, RetRight, NEW L, NEW S, Traced(L, S),
         NEW M, NEW R, NEW W, BlocksNext(L, S, M, R, W), Extends(src', src),
         \A k \in 1 .. Len(funcs) : funcs'[k].kind = funcs[k].kind,
         \A b \in 1 .. Len(blocks) :
           b \notin W /\ S[b] # Ended /\ blocks[b].term # NoTerm /\ Back(b, frames, contextBlock)
             => Back(b, frames', contextBlock'),
         FramesTraced(M, R)',
         frames' # << >> => SwitchTraced(Last(frames'), contextBlock', M, R, src') /\ Current(M, R)',
         EntriesTraced(M)',
         MainWaits(frames', funcs') => MainWaits(frames, funcs) /\ 2 \notin W
  PROVE  Traced(M, R)'
<1>1. /\ Len(blocks) \in Nat /\ Len(blocks') \in Nat /\ 2 \in 1 .. Len(blocks)
  <2>1. Len(blocks') \in Nat
    BY LenProperties DEF TypeOK
  <2> QED
    BY <2>1, Numbers
<1>2. \A b \in 1 .. Len(blocks) : blocks[b].fn \in 1 .. Len(funcs)
  BY DEF RetRight
<1>3. BlocksTraced(M, R)'
  BY <1>1, <1>2, BlocksStep DEF BlocksNext, Traced
<1>4. MainWaits(frames', funcs') => R[2] = New /\ M[2] = <<0, "entry">>
  BY <1>1 DEF Traced, BlocksNext, Wrote
<1>5. M[1] = Nowhere
  <2>1. 1 \in 1 .. Len(blocks)
    BY <1>1
  <2> QED
    BY <2>1 DEF Traced, BlocksNext, Wrote
<1> QED
  BY <1>3, <1>4, <1>5 DEF Traced, Top

\* What is known before a step.
Known == TypeOK /\ OwnedNow /\ StacksRight /\ CallsRight /\ RetRight /\ TokensKnown

\* The entry of main is not written while it waits.
LEMMA MainSpared ==
  ASSUME Known, NEW L, NEW S, Traced(L, S), NEW W, OfTop(L, S, W), frames # << >>,
         MainWaits(frames, funcs)
  PROVE  2 \notin W
<1>1. S[2] = New /\ L[2][1] = 0
  BY DEF Traced
<1>2. Top.at # 0
  <2>1. Len(frames) \in 1 .. Len(frames) /\ Top = frames[Len(frames)]
    BY Context DEF Known
  <2>2. Top.at \in 1 .. Len(src)
    BY <2>1 DEF Known, TokensKnown, Placed
  <2>3. Len(src) \in Nat
    BY LenProperties DEF Known, TypeOK
  <2> QED
    BY <2>2, <2>3
<1>3. \A x, p : New # OpenAt(<<x, "at">>) /\ New # Choosing(p)
  BY StatesDiffer
<1>4. New # OpenAt(<<Top.at, "after">>)
  BY StatesDiffer
<1> QED
  BY <1>1, <1>2, <1>3, <1>4 DEF OfTop

LEMMA FreeOfTop ==
  ASSUME NEW L, NEW S, NEW W, Free(S, W)
  PROVE  OfTop(L, S, W)
BY DEF Free, OfTop

\* A step within the innermost call.
LEMMA StraightTraced ==
  ASSUME Known, TypeOK', NEW L, NEW S, Traced(L, S), frames # << >>,
         NEW M, NEW R, NEW W, BlocksNext(L, S, M, R, W), Extends(src', src), Free(S, W),
         UNCHANGED <<funcs, frames, contextCondAfter>>,
         \/ contextBlock' = contextBlock
         \/ contextBlock \in W /\ R[contextBlock] = Ended /\ Top.kind # "append",
         SwitchTraced(Top, contextBlock', M, R, src'), Current(M, R)'
  PROVE  Traced(M, R)'
<1>0. TypeOK /\ OwnedNow /\ StacksRight /\ RetRight
  BY DEF Known
<1>1. /\ Len(frames) \in Nat \ {0} /\ Len(frames) \in 1 .. Len(frames) /\ Top = frames[Len(frames)]
      /\ Len(blocks) \in Nat /\ Len(blocks') \in Nat
  <2>1. Len(frames) \in Nat \ {0} /\ Top = frames[Len(frames)] /\ Len(blocks) \in Nat
    BY <1>0, Context, Numbers
  <2>2. Len(blocks') \in Nat
    BY LenProperties DEF TypeOK
  <2> QED
    BY <2>1, <2>2
<1>2. \A i \in 1 .. Len(frames) :
        /\ i # Len(frames) => Returning(i, frames', contextBlock') = Returning(i, frames, contextBlock)
        /\ i = Len(frames) => /\ Returning(i, frames', contextBlock') = contextBlock'
                              /\ Returning(i, frames, contextBlock) = contextBlock
  BY DEF Returning
<1>3. \A i \in 1 .. Len(frames) :
        SameTo(contextCondAfter, contextCondAfter', frames[i].entry.cond)
  BY <1>0, CondKept
<1>4. Wrote(L, S, M, R, W) /\ FramesTraced(L, S) /\ EntriesTraced(L)
  BY DEF BlocksNext, Traced
<1>5. FramesTraced(M, R)'
  <2>1. ASSUME NEW i \in 1 .. Len(frames')
        PROVE  /\ i \in 1 .. Len(frames) /\ frames'[i] = frames[i] /\ Spares(frames[i], L, S, W)
               /\ \/ Returning(i, frames', contextBlock') = Returning(i, frames, contextBlock)
                  \/ /\ frames[i].kind # "append"
                     /\ \/ Returning(i, frames, contextBlock) = NoBlock
                        \/ R[Returning(i, frames, contextBlock)] = Ended
    BY <1>1, <1>2, FreeSpares
  <2> QED
    BY <1>0, <1>3, <1>4, <2>1, FramesNext
<1>6. \A b : b \notin W /\ Back(b, frames, contextBlock) => Back(b, frames', contextBlock')
  BY <1>2 DEF Back
<1>7. EntriesTraced(M)'
  BY <1>1, <1>4, EntriesSame
<1>8. MainWaits(frames', funcs') => MainWaits(frames, funcs) /\ 2 \notin W
  BY MainSpared, FreeOfTop
<1>9. Last(frames') = Top
  BY DEF Top
<1> QED
  BY <1>0, <1>5, <1>6, <1>7, <1>8, <1>9, TracedStep

\* A call is opened.
LEMMA PushTraced ==
  ASSUME Known, TypeOK', NEW L, NEW S, Traced(L, S), NEW f \in Frame, frames' = Append(frames, f),
         NEW M, NEW R, NEW W, BlocksNext(L, S, M, R, W), Extends(src', src), frames # << >> => Free(S, W),
         \A k \in 1 .. Len(funcs) : funcs'[k].kind = funcs[k].kind,
         \/ contextCondAfter' = contextCondAfter
         \/ \E b \in Block : contextCondAfter' = Append(contextCondAfter, b),
         \/ Remembers(f) = contextBlock
         \/ contextBlock \in W /\ R[contextBlock] = Ended /\ Top.kind # "append",
         FrameTraced(f, contextBlock', M, R, blocks', contextCondAfter'),
         SwitchTraced(f, contextBlock', M, R, src'), Current(M, R)',
         EntriesTraced(M)',
         MainWaits(frames', funcs') => MainWaits(frames, funcs) /\ 2 \notin W
  PROVE  Traced(M, R)'
<1>0. TypeOK /\ OwnedNow /\ StacksRight /\ RetRight /\ frames \in Seq(Frame)
  BY DEF Known, TypeOK
<1>1. /\ Len(frames') = Len(frames) + 1 /\ frames'[Len(frames')] = f /\ Last(frames') = f
      /\ \A i \in 1 .. Len(frames') : i \in 1 .. Len(frames) \/ i = Len(frames')
      /\ \A i \in 1 .. Len(frames) :
           /\ frames'[i] = frames[i] /\ i \in 1 .. Len(frames')
           /\ Returning(i, frames', contextBlock')
                = IF i = Len(frames) THEN Remembers(f) ELSE Returning(i, frames, contextBlock)
      /\ Returning(Len(frames'), frames', contextBlock') = contextBlock'
  <2>1. Pushes(frames, f, frames', contextBlock, contextBlock')
    BY <1>0, PushReturning
  <2> QED
    BY <2>1 DEF Pushes
<1>2. /\ \A i : i = Len(frames) => Returning(i, frames, contextBlock) = contextBlock
      /\ frames # << >> => Top = frames[Len(frames)]
      /\ \A i : i \in 1 .. Len(frames) => frames # << >>
  <2>1. Len(frames) \in Nat /\ (frames # << >> => Top = frames[Len(frames)])
    BY <1>0, FrontType, LenProperties DEF Top
  <2> QED
    BY <2>1 DEF Returning
<1>3. \A i \in 1 .. Len(frames) :
        SameTo(contextCondAfter, contextCondAfter', frames[i].entry.cond)
  BY <1>0, CondKept
<1>4. Wrote(L, S, M, R, W) /\ FramesTraced(L, S)
  BY DEF BlocksNext, Traced
<1>5. FramesTraced(M, R)'
  <2>1. ASSUME NEW i \in 1 .. Len(frames), Remembers(f) = contextBlock
        PROVE  Returning(i, frames', contextBlock') = Returning(i, frames, contextBlock)
    BY <1>1, <1>2, <2>1
  <2>2. ASSUME NEW i \in 1 .. Len(frames), R[contextBlock] = Ended, Top.kind # "append"
        PROVE  \/ Returning(i, frames', contextBlock') = Returning(i, frames, contextBlock)
               \/ frames[i].kind # "append" /\ R[Returning(i, frames, contextBlock)] = Ended
    BY <1>1, <1>2, <2>2
  <2>3. ASSUME NEW i \in 1 .. Len(frames)
        PROVE  /\ frames'[i] = frames[i] /\ Spares(frames[i], L, S, W)
               /\ \/ Returning(i, frames', contextBlock') = Returning(i, frames, contextBlock)
                  \/ /\ frames[i].kind # "append"
                     /\ \/ Returning(i, frames, contextBlock) = NoBlock
                        \/ R[Returning(i, frames, contextBlock)] = Ended
    BY <1>1, <2>1, <2>2, FreeSpares
  <2>4. \A i : i = Len(frames') =>
          FrameTraced(frames'[i], Returning(i, frames', contextBlock'), M, R, blocks', contextCondAfter')
    BY <1>1
  <2> QED
    BY <1>0, <1>1, <1>3, <1>4, <2>3, <2>4, FramesNext
<1>6. \A b : b \notin W /\ Back(b, frames, contextBlock) => Back(b, frames', contextBlock')
  <2> SUFFICES ASSUME NEW b, b \notin W, NEW i \in 1 .. Len(frames),
                      b = Returning(i, frames, contextBlock)
               PROVE  b = Returning(i, frames', contextBlock')
    BY <1>1 DEF Back
  <2> QED
    BY <1>1, <1>2
<1> QED
  BY <1>0, <1>1, <1>5, <1>6, TracedStep

\* A call is closed.
LEMMA PopTraced ==
  ASSUME Known, TypeOK', NEW L, NEW S, Traced(L, S), frames # << >>, frames' = Front(frames),
         NEW M, NEW R, NEW W, BlocksNext(L, S, M, R, W), Extends(src', src), OfTop(L, S, W),
         \A k \in 1 .. Len(funcs) : funcs'[k].kind = funcs[k].kind,
         \/ contextCondAfter' = contextCondAfter
         \/ Top.kind = "if" /\ contextCondAfter' = Front(contextCondAfter),
         contextBlock \in W \/ S[contextBlock] = Ended,
         \/ Remembers(Top) = contextBlock'
         \/ /\ Top.kind # "func"
            /\ \/ Remembers(Top) = NoBlock
               \/ R[Remembers(Top)] = Ended /\ Remembers(Top) \in W,
         frames' # << >> => Current(M, R)',
         EntriesTraced(M)',
         MainWaits(frames', funcs') => MainWaits(frames, funcs)
  PROVE  Traced(M, R)'
<1>0. TypeOK /\ OwnedNow /\ StacksRight /\ RetRight /\ frames \in Seq(Frame) /\ Nested(frames)
  BY DEF Known, TypeOK, CallsRight
<1>1. /\ Top = Last(frames) /\ Top = frames[Len(frames)]
      /\ \A i \in 1 .. Len(frames) : i \in 1 .. Len(frames') \/ i = Len(frames)
      /\ \A i \in 1 .. Len(frames') :
           /\ frames'[i] = frames[i] /\ i \in 1 .. Len(frames) /\ i # Len(frames)
           /\ i = Len(frames') => /\ Returning(i, frames', contextBlock') = contextBlock'
                                  /\ Returning(i, frames, contextBlock) = Remembers(Top)
           /\ i # Len(frames') => Returning(i, frames', contextBlock') = Returning(i, frames, contextBlock)
  <2>1. Pops(frames, frames', contextBlock, contextBlock')
    BY <1>0, PopReturning
  <2> QED
    BY <2>1 DEF Pops, Top
<1>2. /\ \A i : i = Len(frames) => Returning(i, frames, contextBlock) = contextBlock
      /\ Len(frames) \in Nat \ {0} /\ Len(frames') = Len(frames) - 1
  <2>1. Len(frames) \in Nat \ {0} /\ Len(frames') = Len(frames) - 1
    BY <1>0, FrontType
  <2> QED
    BY <2>1 DEF Returning
<1>3. \A i \in 1 .. Len(frames) :
        SameTo(contextCondAfter, contextCondAfter', frames[i].entry.cond)
  BY <1>0, CondKept
<1>4. Wrote(L, S, M, R, W) /\ FramesTraced(L, S)
  BY DEF BlocksNext, Traced
<1>5. \A i \in 1 .. Len(frames') : frames[i].at # Top.at
  <2> TAKE i \in 1 .. Len(frames')
  <2>1. i \in 1 .. Len(frames) /\ Len(frames) \in 1 .. Len(frames) /\ i < Len(frames)
    BY <1>2, SMTT(30)
  <2>2. frames[i].at < Top.at /\ frames[i].at \in Nat
    BY <1>0, <1>1, <2>1, CallTypes, Zenon DEF Known, TokensKnown, Placed
  <2> QED
    BY <2>2
<1>6. \A i \in 1 .. Len(frames') : i = Len(frames') /\ Top.kind # "func" => frames[i].kind # "append"
  <2> SUFFICES ASSUME NEW i \in 1 .. Len(frames'), i = Len(frames'), Top.kind # "func"
               PROVE  frames[i].kind # "append"
    OBVIOUS
  <2>1. i \in 1 .. Len(frames) - 1 /\ i + 1 = Len(frames)
    BY <1>2
  <2> QED
    BY <1>0, <1>1, <2>1 DEF Nested
<1>7. FramesTraced(M, R)'
  <2>1. ASSUME NEW i \in 1 .. Len(frames'), i = Len(frames')
        PROVE  \/ Returning(i, frames', contextBlock') = Returning(i, frames, contextBlock)
               \/ /\ frames[i].kind # "append"
                  /\ \/ Returning(i, frames, contextBlock) = NoBlock
                     \/ R[Returning(i, frames, contextBlock)] = Ended
    BY <1>1, <1>6, <2>1
  <2>2. ASSUME NEW i \in 1 .. Len(frames')
        PROVE  /\ i \in 1 .. Len(frames) /\ frames'[i] = frames[i] /\ Spares(frames[i], L, S, W)
               /\ \/ Returning(i, frames', contextBlock') = Returning(i, frames, contextBlock)
                  \/ /\ frames[i].kind # "append"
                     /\ \/ Returning(i, frames, contextBlock) = NoBlock
                        \/ R[Returning(i, frames, contextBlock)] = Ended
    BY <1>1, <1>5, <2>1, TopSpares
  <2> QED
    BY <1>0, <1>3, <1>4, <2>2, FramesNext
<1>8. \A b \in 1 .. Len(blocks) :
        b \notin W /\ S[b] # Ended /\ Back(b, frames, contextBlock) => Back(b, frames', contextBlock')
  <2> SUFFICES ASSUME NEW b \in 1 .. Len(blocks), b \notin W, S[b] # Ended,
                      NEW i \in 1 .. Len(frames), b = Returning(i, frames, contextBlock)
               PROVE  i \in 1 .. Len(frames') /\ b = Returning(i, frames', contextBlock')
    BY DEF Back
  <2>1. i # Len(frames)
    BY <1>2
  <2>2. i \in 1 .. Len(frames')
    BY <1>1, <2>1
  <2>3. b # NoBlock
    BY <1>0, Numbers DEF NoBlock
  <2> QED
    BY <1>1, <2>2, <2>3
<1>9. MainWaits(frames', funcs') => MainWaits(frames, funcs) /\ 2 \notin W
  BY MainSpared
<1>10. frames' # << >> => SwitchTraced(Last(frames'), contextBlock', M, R, src') /\ Current(M, R)'
  <2>1. frames' # << >> => Last(frames').kind # "switch"
    BY <1>0, NestedPop
  <2> QED
    BY <2>1 DEF SwitchTraced
<1> QED
  BY <1>0, <1>7, <1>8, <1>9, <1>10, TracedStep

\* The innermost call goes on with its next body.
LEMMA TopTraced ==
  ASSUME Known, TypeOK', NEW L, NEW S, Traced(L, S), frames # << >>,
         NEW g \in Frame, frames' = [frames EXCEPT ![Len(frames)] = g],
         g.kind = Top.kind, Remembers(g) = Remembers(Top), g.at = Top.at, Top.kind # "func",
         NEW M, NEW R, NEW W, BlocksNext(L, S, M, R, W), Extends(src', src), OfTop(L, S, W),
         UNCHANGED <<funcs, contextCondAfter>>,
         \/ contextBlock \in W \/ S[contextBlock] = Ended \/ blocks[contextBlock].term = NoTerm
         \/ Top.kind = "switch" /\ contextBlock = Top.pre,
         FrameTraced(g, contextBlock', M, R, blocks', contextCondAfter'),
         SwitchTraced(g, contextBlock', M, R, src'), Current(M, R)'
  PROVE  Traced(M, R)'
<1>0. /\ TypeOK /\ OwnedNow /\ StacksRight /\ RetRight /\ CallsRight /\ frames \in Seq(Frame)
      /\ Nested(frames)
  BY DEF Known, TypeOK, CallsRight
<1> DEFINE n == Len(frames)
<1>1. /\ Top = frames[n] /\ n \in 1 .. n /\ Len(frames') = n /\ frames'[n] = g /\ Last(frames') = g
      /\ \A i \in 1 .. n : i # n =>
           /\ frames'[i] = frames[i]
           /\ Returning(i, frames', contextBlock') = Returning(i, frames, contextBlock)
      /\ Returning(n, frames', contextBlock') = contextBlock'
      /\ Returning(n, frames, contextBlock) = contextBlock
  <2>1. Changes(frames, g, frames', contextBlock, contextBlock')
    BY <1>0, TopReturning DEF Top
  <2>2. Returning(n, frames, contextBlock) = contextBlock
    BY DEF Returning
  <2> QED
    BY <2>1, <2>2, Zenon DEF Changes, Top
<1>3. \A i \in 1 .. n : SameTo(contextCondAfter, contextCondAfter', frames[i].entry.cond)
  BY <1>0, CondKept
<1>4. Wrote(L, S, M, R, W) /\ FramesTraced(L, S) /\ EntriesTraced(L) /\ n \in Nat
      /\ Len(blocks) \in Nat /\ Len(blocks') \in Nat
  <2>1. Len(blocks') \in Nat
    BY LenProperties DEF TypeOK
  <2> QED
    BY <1>0, <2>1, Numbers DEF BlocksNext, Traced
<1>5. \A i \in 1 .. n : i # n => frames[i].at # Top.at
  <2> TAKE i \in 1 .. n
  <2>1. i # n => i < n
    BY <1>4
  <2>2. i # n => frames[i].at < Top.at
    BY <1>1, <2>1 DEF Known, TokensKnown, Placed
  <2>3. frames[i].at \in Nat
    BY <1>0, CallTypes
  <2> QED
    BY <2>2, <2>3
<1>6. FramesTraced(M, R)'
  <2>1. ASSUME NEW i \in 1 .. Len(frames'), i # n
        PROVE  /\ i \in 1 .. Len(frames) /\ frames'[i] = frames[i] /\ Spares(frames[i], L, S, W)
               /\ Returning(i, frames', contextBlock') = Returning(i, frames, contextBlock)
    BY <1>1, <1>5, <2>1, TopSpares
  <2>2. ASSUME NEW i \in 1 .. Len(frames'), i = n
        PROVE  FrameTraced(frames'[i], Returning(i, frames', contextBlock'), M, R,
                           blocks', contextCondAfter')
    BY <1>1, <2>2, Zenon
  <2> HIDE DEF n
  <2> QED
    BY <1>0, <1>3, <1>4, <2>1, <2>2, FramesNext, Zenon DEF n
<1>7. \A b \in 1 .. Len(blocks) :
        b \notin W /\ S[b] # Ended /\ blocks[b].term # NoTerm /\ Back(b, frames, contextBlock)
          => Back(b, frames', contextBlock')
  <2> SUFFICES ASSUME NEW b \in 1 .. Len(blocks), b \notin W, S[b] # Ended,
                      blocks[b].term # NoTerm,
                      NEW i \in 1 .. n, b = Returning(i, frames, contextBlock)
               PROVE  Back(b, frames', contextBlock')
    BY Zenon DEF Back
  <2>1. CASE i # n
    BY <1>1, <2>1, Zenon DEF Back
  <2>2. CASE i = n
    <3>1. Top.kind = "switch" /\ b = Top.pre
      BY <1>1, <2>2, Zenon
    <3>2. n - 1 \in 1 .. n /\ n - 1 # n /\ n - 1 + 1 = n
      <4>1. n - 1 \in 1 .. n
        BY <1>0, <3>1, Outer, SMTT(30)
      <4> HIDE DEF n
      <4> QED
        BY <1>4, <4>1
    <3>3. Returning(n - 1, frames, contextBlock) = Top.pre
      BY <1>1, <3>1, <3>2, Zenon DEF Returning
    <3> QED
      BY <1>1, <3>1, <3>2, <3>3, Zenon DEF Back
  <2> QED
    BY <2>1, <2>2
<1>8. EntriesTraced(M)'
  BY <1>4, EntriesSame
<1>9. MainWaits(frames', funcs') => MainWaits(frames, funcs) /\ 2 \notin W
  <2>1. MainWaits(frames', funcs') => MainWaits(frames, funcs)
    BY <1>1, Zenon DEF MainWaits
  <2> QED
    BY <2>1, MainSpared, Zenon
<1>10. frames' # << >> => SwitchTraced(Last(frames'), contextBlock', M, R, src') /\ Current(M, R)'
  BY <1>1, Zenon
<1> QED
  BY <1>0, <1>6, <1>7, <1>8, <1>9, <1>10, TracedStep

-----------------------------------------------------------------------------
(* Emit, Terminate and \o, block by block                                    *)

\* cs is bs, with code c and terminator t in block b.
Edits(bs, cs, b, c, t) ==
  /\ cs \in Seq(BasicBlock) /\ Len(cs) = Len(bs)
  /\ \A x \in 1 .. Len(bs) : x # b => cs[x] = bs[x]
  /\ cs[b].code = c /\ cs[b].term = t /\ cs[b].fn = bs[b].fn

LEMMA EmitIs ==
  ASSUME NEW bs \in Seq(BasicBlock), NEW b \in 1 .. Len(bs), NEW item \in Item
  PROVE  Edits(bs, Emit(bs, b, item), b, Append(bs[b].code, item), bs[b].term)
<1> DEFINE e == [bs[b] EXCEPT !.code = Append(@, item)]
<1>1. bs[b] \in BasicBlock
  BY ElementOfSeq
<1>2. /\ e \in BasicBlock /\ e.fn = bs[b].fn /\ e.term = bs[b].term
      /\ e.code = Append(bs[b].code, item)
  BY <1>1, AppendProperties DEF BasicBlock
<1>3. Emit(bs, b, item) = [bs EXCEPT ![b] = e]
  BY DEF Emit
<1> HIDE DEF e
<1> QED
  BY <1>2, <1>3, ExceptSeq DEF Edits

LEMMA TerminateIs ==
  ASSUME NEW bs \in Seq(BasicBlock), NEW b \in 1 .. Len(bs), NEW t \in Term
  PROVE  Edits(bs, Terminate(bs, b, t), b, bs[b].code, t)
<1> DEFINE e == [bs[b] EXCEPT !.term = t]
<1>1. bs[b] \in BasicBlock
  BY ElementOfSeq
<1>2. e \in BasicBlock /\ e.fn = bs[b].fn /\ e.term = t /\ e.code = bs[b].code
  BY <1>1 DEF BasicBlock
<1>3. Terminate(bs, b, t) = [bs EXCEPT ![b] = e]
  BY DEF Terminate
<1> HIDE DEF e
<1> QED
  BY <1>2, <1>3, ExceptSeq DEF Edits

LEMMA EditsTwice ==
  ASSUME NEW bs, NEW cs, NEW ds, NEW b, NEW c, NEW t, NEW c2, NEW t2,
         Edits(bs, cs, b, c, t), Edits(cs, ds, b, c2, t2)
  PROVE  Edits(bs, ds, b, c2, t2)
BY DEF Edits

\* An instruction and a terminator.
LEMMA EndIs ==
  ASSUME NEW bs \in Seq(BasicBlock), NEW b \in 1 .. Len(bs), NEW item \in Item, NEW t \in Term
  PROVE  Edits(bs, Terminate(Emit(bs, b, item), b, t), b, Append(bs[b].code, item), t)
<1> DEFINE es == Emit(bs, b, item)
<1>1. Edits(bs, es, b, Append(bs[b].code, item), bs[b].term)
  BY EmitIs
<1> HIDE DEF es
<1>2. es \in Seq(BasicBlock) /\ b \in 1 .. Len(es) /\ es[b].code = Append(bs[b].code, item)
  BY <1>1 DEF Edits
<1>3. Edits(es, Terminate(es, b, t), b, es[b].code, t)
  BY <1>2, TerminateIs
<1> QED
  BY <1>1, <1>2, <1>3, EditsTwice DEF es

\* cs is bs, with code c and terminator t in block b, and the blocks made.
Makes(bs, cs, b, c, t, made) ==
  /\ cs \in Seq(BasicBlock) /\ Len(cs) = Len(bs) + Len(made)
  /\ \A x \in 1 .. Len(bs) : x # b => cs[x] = bs[x]
  /\ cs[b].code = c /\ cs[b].term = t /\ cs[b].fn = bs[b].fn
  /\ \A i \in 1 .. Len(made) : cs[Len(bs) + i] = made[i]

LEMMA ConcatIs ==
  ASSUME NEW bs \in Seq(BasicBlock), NEW es, NEW b \in 1 .. Len(bs), NEW c, NEW t,
         Edits(bs, es, b, c, t), NEW made \in Seq(BasicBlock)
  PROVE  Makes(bs, es \o made, b, c, t, made)
<1> DEFINE ds == es \o made
<1>1. Len(bs) \in Nat /\ Len(made) \in Nat /\ es \in Seq(BasicBlock) /\ Len(es) = Len(bs)
  BY LenProperties DEF Edits
<1>2. /\ ds \in Seq(BasicBlock) /\ Len(ds) = Len(bs) + Len(made)
      /\ \A i \in 1 .. Len(bs) + Len(made) :
           ds[i] = IF i <= Len(bs) THEN es[i] ELSE made[i - Len(bs)]
  <2>1. /\ ds \in Seq(BasicBlock) /\ Len(ds) = Len(es) + Len(made)
        /\ \A i \in 1 .. Len(es) + Len(made) :
             ds[i] = IF i <= Len(es) THEN es[i] ELSE made[i - Len(es)]
    BY <1>1, ConcatProperties
  <2> QED
    BY <1>1, <2>1
<1>3. \A x \in 1 .. Len(bs) : ds[x] = es[x]
  BY <1>1, <1>2
<1>4. \A i \in 1 .. Len(made) : ds[Len(bs) + i] = made[i]
  <2> TAKE i \in 1 .. Len(made)
  <2>1. /\ Len(bs) + i \in 1 .. Len(bs) + Len(made) /\ ~ (Len(bs) + i <= Len(bs))
        /\ Len(bs) + i - Len(bs) = i
    BY <1>1
  <2> QED
    BY <2>1, <1>1, <1>2
<1> HIDE DEF ds
<1>5. Makes(bs, ds, b, c, t, made)
  BY <1>2, <1>3, <1>4 DEF Edits, Makes
<1> QED
  BY <1>5 DEF ds

LEMMA MakesEnd ==
  ASSUME NEW bs \in Seq(BasicBlock), NEW cs, NEW b \in 1 .. Len(bs), NEW c, NEW t,
         NEW made \in Seq(BasicBlock), Makes(bs, cs, b, c, t, made), NEW t2 \in Term
  PROVE  Makes(bs, Terminate(cs, b, t2), b, c, t2, made)
<1> DEFINE ds == Terminate(cs, b, t2)
<1>1. Len(bs) \in Nat /\ Len(made) \in Nat /\ cs \in Seq(BasicBlock)
      /\ Len(cs) = Len(bs) + Len(made) /\ b \in 1 .. Len(cs)
  <2>1. Len(bs) \in Nat /\ Len(made) \in Nat
    BY LenProperties
  <2> QED
    BY <2>1 DEF Makes
<1>2. Edits(cs, ds, b, cs[b].code, t2)
  BY <1>1, TerminateIs
<1> HIDE DEF ds
<1>3. \A x \in 1 .. Len(bs) : x # b => ds[x] = bs[x]
  BY <1>1, <1>2 DEF Edits, Makes
<1>4. \A i \in 1 .. Len(made) : ds[Len(bs) + i] = made[i]
  <2> TAKE i \in 1 .. Len(made)
  <2>1. Len(bs) + i \in 1 .. Len(cs) /\ Len(bs) + i # b
    BY <1>1
  <2> QED
    BY <1>2, <2>1 DEF Edits, Makes
<1>5. Makes(bs, ds, b, c, t2, made)
  BY <1>1, <1>2, <1>3, <1>4 DEF Edits, Makes
<1> QED
  BY <1>5 DEF ds

\* An instruction, blocks, and a terminator.
LEMMA MakesAll ==
  ASSUME NEW bs \in Seq(BasicBlock), NEW b \in 1 .. Len(bs), NEW item \in Item,
         NEW made \in Seq(BasicBlock), NEW t \in Term
  PROVE  Makes(bs, Terminate(Emit(bs, b, item) \o made, b, t), b, Append(bs[b].code, item), t, made)
<1> DEFINE es == Emit(bs, b, item)
           ds == es \o made
           c  == Append(bs[b].code, item)
<1>1. Edits(bs, es, b, c, bs[b].term)
  BY EmitIs
<1> HIDE DEF c, es
<1>2. Makes(bs, ds, b, c, bs[b].term, made)
  BY <1>1, ConcatIs
<1> HIDE DEF ds
<1>3. Makes(bs, Terminate(ds, b, t), b, c, t, made)
  BY <1>2, MakesEnd
<1> QED
  BY <1>3 DEF ds, c, es

-----------------------------------------------------------------------------
(* Steps that write the current block and make others                        *)

\* M and R are the labels and states after a step: those of the n blocks made are ls and
\* ss, and st is the state of block b.
With(L, S, M, R, b, st, ls, ss, n) ==
  /\ DOMAIN M = 1 .. Len(blocks) + n /\ DOMAIN R = 1 .. Len(blocks) + n
  /\ \A x \in 1 .. Len(blocks) : M[x] = L[x] /\ R[x] = IF x = b THEN st ELSE S[x]
  /\ \A i \in 1 .. n : M[Fresh(i)] = ls[i] /\ R[Fresh(i)] = ss[i]

LEMMA WithExists ==
  ASSUME Len(blocks) \in Nat, NEW L, NEW S, NEW ls, NEW ss, NEW n \in Nat,
         NEW b \in 1 .. Len(blocks), NEW st
  PROVE  \E M, R : With(L, S, M, R, b, st, ls, ss, n)
<1> DEFINE M == [x \in 1 .. Len(blocks) + n |-> IF x <= Len(blocks) THEN L[x]
                                                ELSE ls[x - Len(blocks)]]
           R == [x \in 1 .. Len(blocks) + n |-> IF x = b THEN st ELSE IF x <= Len(blocks) THEN S[x]
                                                ELSE ss[x - Len(blocks)]]
<1>1. \A x \in 1 .. Len(blocks) : x \in 1 .. Len(blocks) + n /\ x <= Len(blocks)
  OBVIOUS
<1>2. \A i \in 1 .. n : /\ Fresh(i) \in 1 .. Len(blocks) + n /\ ~ (Fresh(i) <= Len(blocks))
                        /\ Fresh(i) - Len(blocks) = i /\ Fresh(i) # b
  BY DEF Fresh
<1>3. DOMAIN M = 1 .. Len(blocks) + n /\ DOMAIN R = 1 .. Len(blocks) + n
  OBVIOUS
<1>4. \A x \in 1 .. Len(blocks) : M[x] = L[x] /\ R[x] = IF x = b THEN st ELSE S[x]
  BY <1>1
<1>5. \A i \in 1 .. n : M[Fresh(i)] = ls[i] /\ R[Fresh(i)] = ss[i]
  BY <1>2
<1> HIDE DEF M, R
<1>6. With(L, S, M, R, b, st, ls, ss, n)
  BY <1>3, <1>4, <1>5 DEF With
<1> QED
  BY <1>6

\* Where code goes now the blocks are as a statement finds them.
LEMMA Stands ==
  ASSUME Known, Extra = {}, NEW L, NEW S, Traced(L, S), NEW s, CanStand(s)
  PROVE  /\ frames # << >> /\ contextBlock \in 1 .. Len(blocks) /\ status = "compiling"
         /\ S[contextBlock] = OpenAt(<<Here, "at">>)
         /\ MayJump(blocks[contextBlock].term, L[contextBlock], contextCondAfter,
                    Len(contextCondAfter))
         /\ Good(L, src, blocks[contextBlock], L[contextBlock], OpenAt(<<Here, "at">>))
         /\ blocks[contextBlock] \in BasicBlock /\ blocks[contextBlock].code \in Seq(Item)
         /\ blocks[contextBlock].fn = contextFunc
         /\ Top.kind = "switch" => s = "stmt" /\ blocks[contextBlock].term = NoTerm
                                   /\ Top.open # "none"
<1>1. frames # << >> /\ ~ AfterJump /\ status = "compiling"
      /\ (Top.kind = "switch" => Top.open # "none" /\ s = "stmt")
  BY DEF CanStand, Open
<1>2. contextBlock \in 1 .. Len(blocks) /\ blocks[contextBlock].fn = contextFunc
  BY <1>1, Context DEF Known
<1>3. /\ S[contextBlock] = OpenAt(<<Here, "at">>)
      /\ MayJump(blocks[contextBlock].term, L[contextBlock], contextCondAfter,
                 Len(contextCondAfter))
      /\ Top.kind = "switch" => blocks[contextBlock].term = NoTerm
  BY <1>1 DEF Traced, Current
<1>4. Good(L, src, blocks[contextBlock], L[contextBlock], S[contextBlock])
  BY <1>2 DEF Traced, BlocksTraced
<1>5. blocks[contextBlock] \in BasicBlock
  BY <1>2, ElementOfSeq DEF Known, TypeOK
<1>6. blocks[contextBlock].code \in Seq(Item)
  BY <1>5 DEF BasicBlock
<1> QED
  BY <1>1, <1>2, <1>3, <1>4, <1>5, <1>6

\* The token put speaks, and so do those before it.
LEMMA Speaks ==
  ASSUME Known, NEW t \in Token, src' = Append(src, t)
  PROVE  /\ Extends(src', src)
         /\ \A A, T : Solves(A, T, src') => Says(A, T, t, Here, CasesBefore(src', Here))
BY SolvesPut DEF Known, TypeOK, Here

\* The current block is open for what follows a token that is no jump.
LEMMA CurrentOpen ==
  ASSUME Known, NEW t \in Token, src' = Append(src, t), t.op \notin {"break", "continue", "return"},
         NEW M, NEW R, R[contextBlock'] = OpenAt(<<Here + 1, "at">>),
         MayJump(blocks'[contextBlock'].term, M[contextBlock'], contextCondAfter',
                 Len(contextCondAfter')),
         Last(frames').kind = "switch" => blocks'[contextBlock'].term = NoTerm
  PROVE  Current(M, R)'
<1>1. Last(src') = t /\ Here' = Here + 1 /\ Here \in Nat
  <2>1. src \in Seq(Token)
    BY DEF Known, TypeOK
  <2>2. Last(src') = t /\ Here' = Here + 1
    BY <2>1, PutIs
  <2> QED
    BY <2>2, Numbers DEF Known
<1>2. ~ AfterJump'
  BY <1>1 DEF AfterJump
<1> QED
  BY <1>1, <1>2 DEF Current, Top

\* The innermost call goes on in the current block.
LEMMA BackNow ==
  ASSUME NEW fs \in Seq(Frame), fs # << >>, NEW cb
  PROVE  Back(cb, fs, cb)
<1>1. Len(fs) \in Nat \ {0}
  BY FrontType
<1>2. Len(fs) \in 1 .. Len(fs)
  BY <1>1
<1> QED
  BY <1>2 DEF Back, Returning

-----------------------------------------------------------------------------
(* How blocks end                                                            *)

LEMMA Targets ==
  /\ \A p : /\ Br(p).to = <<p>> /\ DOMAIN Br(p).to = {1} /\ Br(p).to[1] = p
            /\ Br(p).kind = "br" /\ Br(p).to # << >>
  /\ \A p, q : /\ CondBr(p, q).to = <<p, q>> /\ DOMAIN CondBr(p, q).to = {1, 2}
               /\ CondBr(p, q).to[1] = p /\ CondBr(p, q).to[2] = q
               /\ CondBr(p, q).kind = "condbr" /\ CondBr(p, q).to # << >>
  /\ Unreachable.to = << >> /\ RetVal.to = << >> /\ RetVoid.to = << >>
  /\ Unreachable.kind # "none" /\ RetVal.kind # "none" /\ RetVoid.kind # "none"
BY DEF Br, CondBr, Unreachable, RetVal, RetVoid

\* A block that ends with a decision.
LEMMA EndsBoth ==
  ASSUME NEW sr, NEW L, NEW k, NEW lab, NEW x, Holds(sr, k, lab, x), x.tag \in Decisions,
         NEW p \in DOMAIN L, NEW q \in DOMAIN L, k.term = CondBr(p, q),
         \A A, T : Solves(A, T, sr) => Flow(A, x) = <<A[L[p]], A[L[q]]>>
  PROVE  Good(L, sr, k, lab, Ended)
<1> DEFINE to == k.term.to
<1>1. /\ DOMAIN to = {1, 2} /\ to[1] = p /\ to[2] = q /\ to # << >> /\ k.term.kind # "none"
  BY Targets
<1> HIDE DEF to
<1>2. \A i \in DOMAIN to : to[i] \in DOMAIN L
  BY <1>1
<1>3. \A A : [i \in DOMAIN to |-> A[L[to[i]]]] = <<A[L[p]], A[L[q]]>>
  <2> TAKE A
  <2>1. [i \in {1, 2} |-> A[L[to[i]]]] = <<A[L[p]], A[L[q]]>>
    BY <1>1
  <2> QED
    BY <1>1, <2>1
<1>4. \A A, T : Solves(A, T, sr) =>
           IF to = << >> THEN Flow(A, x) = << >>
           ELSE IF x.tag \in Decisions THEN Flow(A, x) = [i \in DOMAIN to |-> A[L[to[i]]]]
           ELSE \A i \in DOMAIN to : Flow(A, x) = <<A[L[to[i]]]>>
  BY <1>1, <1>3
<1> QED
  BY <1>1, <1>2, <1>4, HoldsEnded DEF to

\* A block that ends with a jump, or with two to the same place.
LEMMA EndsOne ==
  ASSUME NEW sr, NEW L, NEW k, NEW lab, NEW x, Holds(sr, k, lab, x), x.tag \notin Decisions,
         NEW p \in DOMAIN L, NEW q \in DOMAIN L, k.term = CondBr(p, q) \/ (k.term = Br(p) /\ p = q),
         \A A, T : Solves(A, T, sr) => Flow(A, x) = <<A[L[p]]>> /\ A[L[q]] = A[L[p]]
  PROVE  Good(L, sr, k, lab, Ended)
<1> DEFINE to == k.term.to
<1>1. \A i \in DOMAIN to : to[i] \in {p, q}
  BY Targets
<1>2. to # << >> /\ k.term.kind # "none"
  BY Targets
<1> HIDE DEF to
<1>3. \A i \in DOMAIN to : to[i] \in DOMAIN L
  BY <1>1
<1>4. \A A, T : Solves(A, T, sr) =>
           IF to = << >> THEN Flow(A, x) = << >>
           ELSE IF x.tag \in Decisions THEN Flow(A, x) = [i \in DOMAIN to |-> A[L[to[i]]]]
           ELSE \A i \in DOMAIN to : Flow(A, x) = <<A[L[to[i]]]>>
  <2> SUFFICES ASSUME NEW A, NEW T, Solves(A, T, sr), NEW i \in DOMAIN to
               PROVE  Flow(A, x) = <<A[L[to[i]]]>>
    BY <1>2
  <2> QED
    BY <1>1
<1> QED
  BY <1>2, <1>3, <1>4, HoldsEnded DEF to

\* A block that ends a function, or the program.
LEMMA EndsHere ==
  ASSUME NEW sr, NEW L, NEW k, NEW lab, NEW x, Holds(sr, k, lab, x),
         k.term \in {Unreachable, RetVal, RetVoid}, \A A : Flow(A, x) = << >>
  PROVE  Good(L, sr, k, lab, Ended)
<1>1. k.term.to = << >> /\ k.term.kind # "none" /\ DOMAIN k.term.to = {}
  BY Targets
<1> QED
  BY <1>1, HoldsEnded

\* A block without items.
LEMMA EmptyEnds ==
  ASSUME NEW sr, NEW L, NEW k, NEW lab, k.code = << >>,
         NEW p \in DOMAIN L, NEW q \in DOMAIN L, k.term = CondBr(p, q) \/ (k.term = Br(p) /\ p = q),
         \A A, T : Solves(A, T, sr) => Passes(A, T, lab, L[p]) /\ Passes(A, T, lab, L[q])
  PROVE  Good(L, sr, k, lab, Ended)
<1> DEFINE to == k.term.to
<1>1. \A i \in DOMAIN to : to[i] \in {p, q}
  BY Targets
<1>2. k.term.kind # "none" /\ 1 \in DOMAIN to /\ to[1] = p
  BY Targets
<1> HIDE DEF to
<1>3. \A i \in DOMAIN to : to[i] \in DOMAIN L
  BY <1>1
<1>4. \A A, T : Solves(A, T, sr) =>
           /\ \A i \in DOMAIN to : A[L[to[i]]] = A[lab]
           /\ \E i \in DOMAIN to : <<lab, L[to[i]]>> \in T
  <2> TAKE A, T
  <2> HAVE Solves(A, T, sr)
  <2>1. A[L[p]] = A[lab] /\ A[L[q]] = A[lab] /\ <<lab, L[p]>> \in T
    BY DEF Passes
  <2> QED
    BY <1>1, <1>2, <2>1
<1> QED
  BY <1>2, <1>3, <1>4, EmptyEnded DEF to

\* A block that waits for a place is left for what comes after it.
LEMMA OpenEnds ==
  ASSUME NEW sr, NEW sr2, Extends(sr2, sr), NEW L, NEW M, NEW k, NEW k2, k2.code = k.code, NEW lab,
         NEW pl, Good(L, sr, k, lab, OpenAt(pl)),
         NEW p \in DOMAIN M, NEW q \in DOMAIN M,
         k2.term = CondBr(p, q) \/ (k2.term = Br(p) /\ p = q),
         \A A, T : Solves(A, T, sr2) => Passes(A, T, pl, M[p]) /\ Passes(A, T, pl, M[q])
  PROVE  Good(M, sr2, k2, lab, Ended)
<1> DEFINE to == k2.term.to
<1>1. \A i \in DOMAIN to : to[i] \in {p, q}
  BY Targets
<1>2. k2.term.kind # "none" /\ to # << >> /\ DOMAIN to # {}
  <2>1. 1 \in DOMAIN to
    BY Targets
  <2> QED
    BY <2>1, Targets
<1> HIDE DEF to
<1>3. \A i \in DOMAIN to : to[i] \in DOMAIN M
  BY <1>1
<1>4. \A A, T : Solves(A, T, sr2) => \A i \in DOMAIN to : Passes(A, T, pl, M[to[i]])
  BY <1>1
<1> QED
  BY <1>2, <1>3, <1>4, GoodEnds DEF to

\* The made blocks that panic.
LEMMA PanicEnds ==
  ASSUME NEW sr, NEW L, NEW k, NEW p, k.code = <<It(p, "panic")>>, k.term = Unreachable,
         \A A, T : Solves(A, T, sr) => A[<<p, "panic">>] = {It(p, "panic")}
  PROVE  Good(L, sr, k, <<p, "panic">>, Ended)
<1>1. Holds(sr, k, <<p, "panic">>, It(p, "panic"))
  BY MadeHolds
<1>2. \A A : Flow(A, It(p, "panic")) = << >>
  BY FlowOf
<1> HIDE DEF It
<1> QED
  BY <1>1, <1>2, EndsHere

-----------------------------------------------------------------------------
(* Steps that write one block and make others                                *)

LEMMA EditsMakes ==
  ASSUME NEW bs \in Seq(BasicBlock), NEW cs, NEW b, NEW c, NEW t, Edits(bs, cs, b, c, t)
  PROVE  Makes(bs, cs, b, c, t, << >>)
<1>1. Len(bs) \in Nat
  BY LenProperties
<1>2. Len(<< >>) = 0 /\ Len(bs) + 0 = Len(bs) /\ 1 .. 0 = {}
  BY <1>1
<1> QED
  BY <1>2 DEF Edits, Makes

\* A step writes block b and makes others; M and R are the labels and states after it.
Writes(L, S, M, R, b, c, t, made, st, ls, ss) ==
  /\ Makes(blocks, blocks', b, c, t, made)
  /\ Len(made) \in Nat /\ With(L, S, M, R, b, st, ls, ss, Len(made))
  /\ Good(M, src', blocks'[b], L[b], st)
  /\ L[b] = Nowhere \/ st = Ended \/ t = NoTerm \/ Back(b, frames', contextBlock')
  /\ \A i \in 1 .. Len(made) :
       /\ Good(M, src', made[i], ls[i], ss[i])
       /\ ls[i] = Nowhere \/ ss[i] = Ended \/ made[i].term = NoTerm
            \/ Back(Fresh(i), frames', contextBlock')
       /\ ls[i] \in Places \/ (ls[i] = Nowhere /\ funcs'[made[i].fn].kind \in Unlabelled)

LEMMA MakesNext ==
  ASSUME Len(blocks) \in Nat, NEW L, NEW S, NEW M, NEW R, NEW b \in 1 .. Len(blocks), NEW c, NEW t,
         NEW made, NEW st, NEW ls, NEW ss, Writes(L, S, M, R, b, c, t, made, st, ls, ss)
  PROVE  BlocksNext(L, S, M, R, {b}) /\ R[b] = st
<1> DEFINE k == Len(made)
<1>0. /\ Len(blocks') = Len(blocks) + k /\ blocks'[b].term = t /\ blocks'[b].fn = blocks[b].fn
      /\ \A x \in 1 .. Len(blocks) : x # b => blocks'[x] = blocks[x]
      /\ \A i \in 1 .. k : blocks'[Fresh(i)] = made[i]
  BY DEF Writes, Makes, Fresh
<1> HIDE DEF k
<1>1. /\ Len(blocks') = Len(blocks) + k /\ DOMAIN M = 1 .. Len(blocks') /\ DOMAIN R = 1 .. Len(blocks')
      /\ \A x \in 1 .. Len(blocks) : /\ M[x] = L[x] /\ R[x] = IF x = b THEN st ELSE S[x]
                                     /\ x # b => blocks'[x] = blocks[x]
      /\ \A i \in 1 .. k : M[Fresh(i)] = ls[i] /\ R[Fresh(i)] = ss[i] /\ blocks'[Fresh(i)] = made[i]
      /\ blocks'[b].term = t /\ blocks'[b].fn = blocks[b].fn
  <2>1. /\ DOMAIN M = 1 .. Len(blocks) + k /\ DOMAIN R = 1 .. Len(blocks) + k
        /\ \A x \in 1 .. Len(blocks) : M[x] = L[x] /\ R[x] = IF x = b THEN st ELSE S[x]
        /\ \A i \in 1 .. k : M[Fresh(i)] = ls[i] /\ R[Fresh(i)] = ss[i]
    BY DEF Writes, With, k
  <2> QED
    BY ONLY <1>0, <2>1
<1>2. Wrote(L, S, M, R, {b})
  <2>1. k \in Nat
    BY DEF Writes, k
  <2>2. Len(blocks) <= Len(blocks')
    BY <1>1, <2>1
  <2> QED
    BY <1>1, <2>2 DEF Wrote
<1>3. Fine(M, R, b)
  BY <1>1 DEF Fine, Rests, Writes
<1>4. ASSUME NEW x \in Len(blocks) + 1 .. Len(blocks')
      PROVE  /\ Fine(M, R, x)
             /\ \/ M[x] \in Places
                \/ M[x] = Nowhere /\ funcs'[blocks'[x].fn].kind \in Unlabelled
  <2>1. PICK i \in 1 .. k : x = Fresh(i)
    <3>0. k \in Nat
      BY DEF k, Writes
    <3>1. x - Len(blocks) \in 1 .. k /\ x = Fresh(x - Len(blocks))
      BY <1>1, <3>0 DEF Fresh
    <3> QED
      BY <3>1
  <2> QED
    BY <1>1, <2>1 DEF Fine, Rests, Writes, k
<1> QED
  BY <1>1, <1>2, <1>3, <1>4 DEF BlocksNext

\* A statement within the innermost call.
LEMMA StraightMakes ==
  ASSUME Known, TypeOK', NEW L, NEW S, Traced(L, S), frames # << >>, Extends(src', src),
         S[contextBlock] = OpenAt(<<Here, "at">>), UNCHANGED <<funcs, frames, contextCondAfter>>,
         NEW M, NEW R, NEW c, NEW t, NEW made, NEW st, NEW ls, NEW ss,
         Writes(L, S, M, R, contextBlock, c, t, made, st, ls, ss),
         contextBlock' = contextBlock \/ (st = Ended /\ Top.kind # "append"),
         SwitchTraced(Top, contextBlock', M, R, src'), Current(M, R)'
  PROVE  Traced(M, R)'
<1>1. contextBlock \in 1 .. Len(blocks) /\ Len(blocks) \in Nat
  BY Context, Numbers DEF Known
<1>2. PICK b : b = contextBlock
  OBVIOUS
<1>3. BlocksNext(L, S, M, R, {b}) /\ R[b] = st
  <2>1. Writes(L, S, M, R, b, c, t, made, st, ls, ss)
    BY <1>2
  <2> QED
    BY <1>1, <1>2, <2>1, MakesNext
<1>4. Free(S, {b})
  BY <1>2 DEF Free
<1> QED
  BY <1>2, <1>3, <1>4, StraightTraced

\* The current block, with one more item.
LEMMA Emitted ==
  ASSUME Known, Extra = {}, NEW L, NEW S, Traced(L, S), NEW s, CanStand(s), Extends(src', src),
         NEW x \in Item, \A A, T : Solves(A, T, src') => A[<<Here, "at">>] = {x},
         NEW t, NEW made, Makes(blocks, blocks', contextBlock, Append(blocks[contextBlock].code, x), t, made)
  PROVE  Holds(src', blocks'[contextBlock], L[contextBlock], x)
<1> DEFINE k  == blocks[contextBlock]
           k2 == blocks'[contextBlock]
<1>1. k.code \in Seq(Item) /\ Good(L, src, k, L[contextBlock], OpenAt(<<Here, "at">>))
  BY Stands
<1>2. k2.code = Append(k.code, x)
  BY DEF Makes
<1> HIDE DEF k, k2
<1>3. Holds(src', k2, L[contextBlock], x)
  BY <1>1, <1>2, EmitHolds
<1> QED
  BY <1>3 DEF k2

=============================================================================
