---------------------------- MODULE CodegenFlow ----------------------------
(***************************************************************************)
(* What the emitted blocks do, compared with what the program means.       *)
(*                                                                         *)
(* Control flow is observed at items: the instructions that Codegen emits  *)
(* for a token.  SourceFlow(x) is where control may go after item x by the *)
(* Go specification; it is a function of the program alone.  BlockFlow(x)  *)
(* is where it goes in the emitted basic blocks.  Both are sequences of    *)
(* sets of items, one set for each outcome of a decision.                  *)
(***************************************************************************)
EXTENDS Codegen

It(at, tag) == [at |-> at, tag |-> tag]

-----------------------------------------------------------------------------
(* The program                                                               *)

\* The tokens that end a construct, and the one that ends the construct begun at p.
Closers       == {"endappend", "endif", "endfor", "endswitch", "endfunc"}
Closes(q, p)  == src[q].op \in Closers /\ src[q].of = p
EndOf(p)      == IF \E q \in DOMAIN src : Closes(q, p)
                   THEN CHOOSE q \in DOMAIN src : Closes(q, p)
                   ELSE Len(src) + 1

\* The elements of a set of positions, in increasing order.
InOrder(S) == CHOOSE s \in [1 .. Cardinality(S) -> S] :
                /\ \A i, j \in 1 .. Cardinality(S) : i < j => s[i] < s[j]
                /\ \A x \in S : \E i \in 1 .. Cardinality(S) : s[i] = x

CaseStarts(p) == InOrder({q \in DOMAIN src : src[q].op = "case" /\ src[q].of = p})

\* Where control passes on to from a token that is not executed itself; 0 for the
\* others.  Go falls through to the body of the case that follows.
PassesTo(p) ==
  CASE src[p].op \in {"append", "endif", "endswitch"}           -> p + 1
    [] src[p].op \in {"else", "break", "enddefault", "endcase"} -> EndOf(src[p].of) + 1
    [] src[p].op = "fallthrough" -> p + 2
    [] src[p].op = "func"        -> EndOf(p) + 1       \* a literal is not run here
    [] OTHER                     -> 0

\* The first item of a token that is executed.
ItemsAt(p) ==
  CASE src[p].op = "stmt"   -> {It(p, "stmt")}
    [] src[p].op = "check"  -> {It(p, CASE src[p].form = "index"     -> "index"
                                        [] src[p].form = "substring" -> "start"
                                        [] src[p].form = "assertion" -> "assert")}
    [] src[p].op = "endappend"  -> {It(src[p].of, "append")}
    [] src[p].op = "if"     -> {It(p, "if")}
    [] src[p].op = "for"    -> {It(p, "init")}
    [] src[p].op \in {"endfor", "continue"} -> {It(src[p].of, "post")}
    [] src[p].op \in {"return", "endfunc"}  -> {It(p, "ret")}
    [] src[p].op = "switch" -> {It(p, "switch")}
    [] OTHER                -> {}

\* The first items executed when control arrives at token p.
Arrive ==
  LET at[p \in 1 .. Len(src) + 2] ==
        IF p > Len(src) THEN {}
        ELSE IF PassesTo(p) > p THEN at[PassesTo(p)]
        ELSE ItemsAt(p)
  IN  at

\* ... after construct p, in the else of if p, or else after it.
After(p) == Arrive[EndOf(p) + 1]
Else(p)  == IF src[p].form = "else"
              THEN Arrive[(CHOOSE q \in DOMAIN src : src[q].op = "else" /\ src[q].of = p) + 1]
              ELSE After(p)

\* What the condition of loop p starts with, and its body.
CondItem(p) == {It(p, IF src[p].form = "checked" THEN "index" ELSE "cond")}
BodyItem(p) == IF src[p].form = "range" THEN {It(p, "index")} ELSE Arrive[p + 1]

\* What follows a bounds check that holds.
SafeItem(p) == IF src[p].form = "checked" THEN {It(p, "cond")} ELSE Arrive[p + 1]

\* What switch p does when no case matches.
DefaultItem(p) == IF src[p].form = "default" THEN Arrive[p + 1] ELSE After(p)

SourceFlow(x) ==
  LET p == x.at
  IN  CASE x.tag \in {"stmt", "assert"} -> <<Arrive[p + 1]>>
        [] x.tag = "append" -> <<After(p)>>
        [] x.tag = "start"  -> <<{It(p, "end")}, {It(p, "panic")}>>
        [] x.tag = "end"    -> <<SafeItem(p), {It(p, "panic")}>>
        [] x.tag = "index"  -> <<{It(p, "panic")}, SafeItem(p)>>
        [] x.tag = "if"     -> <<Arrive[p + 1], Else(p)>>
        [] x.tag \in {"init", "post"} -> <<CondItem(p)>>
        [] x.tag = "cond"   -> <<BodyItem(p), After(p)>>
        [] x.tag = "switch" -> <<DefaultItem(p)>>
                                 \o [i \in DOMAIN CaseStarts(p) |-> Arrive[CaseStarts(p)[i] + 1]]
        [] OTHER            -> << >>        \* a panic, a return

-----------------------------------------------------------------------------
(* The emitted blocks                                                        *)

Exits(b) == {blocks[b].term.to[i] : i \in DOMAIN blocks[b].term.to}

\* No path of blocks without items is longer: no token makes more than six blocks.
Steps == 6 * Len(src) + 2

\* The first items executed from the start of block b.
FirstFrom(b) ==
  LET first[n \in 0 .. Steps] ==
        [c \in DOMAIN blocks |->
           IF blocks[c].code # << >> THEN {Head(blocks[c].code)}
           ELSE IF n = 0 THEN {}
           ELSE UNION {first[n - 1][d] : d \in Exits(c)}]
  IN  first[Steps][b]

\* Items after which the terminator decides.
Decisions == {"index", "start", "end", "if", "cond", "switch"}

\* Where control goes after the k-th item of block b.
BlockFlow(b, k) ==
  LET to == blocks[b].term.to IN
    IF k < Len(blocks[b].code) THEN <<{blocks[b].code[k + 1]}>>
    ELSE IF to = << >> THEN << >>
    ELSE IF blocks[b].code[k].tag \in Decisions THEN [i \in DOMAIN to |-> FirstFrom(to[i])]
    ELSE <<UNION {FirstFrom(c) : c \in Exits(b)}>>

\* The functions that were compiled from a body.
Bodies == {f \in Completed : funcs[f].kind \notin {"globalinit", "jump"}}

\* The emitted functions do what the program says (README.md:3 "A LLVM backed Go
\* compiler"): a function starts with the first statement of its body and after every
\* instruction, under every outcome, its blocks continue where the source does.
Faithful ==
  \A f \in Bodies :
    /\ FirstFrom(funcs[f].entry) = Arrive[funcs[f].at + 1]
    /\ \A b \in BlocksOf(f) : \A k \in DOMAIN blocks[b].code :
         BlockFlow(b, k) = SourceFlow(blocks[b].code[k])


=============================================================================
