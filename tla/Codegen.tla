------------------------------ MODULE Codegen ------------------------------
(***************************************************************************)
(* Control-flow code generation of the tre compiler (compiler/compiler).   *)
(*                                                                         *)
(* Compiler.compile walks the parsed program recursively and emits LLVM    *)
(* basic blocks.  Where the next instruction goes is contextBlock; what a  *)
(* break, a continue or the end of an if jumps to is the top of one of the *)
(* stacks contextLoopBreak, contextLoopContinue and contextCondAfter.      *)
(*                                                                         *)
(* The recursion is made explicit: `frames' is the Go call stack of the    *)
(* compileXxx methods, an opening token (BeginIf, BeginFor, ...) is the    *)
(* part of the method before its recursive c.compile(body), a closing one  *)
(* the part after it.  The program compiled is not fixed: every action     *)
(* picks the next token, so that TLC compiles every program of at most     *)
(* MaxTokens tokens.  `src' records the tokens; the compiler never reads   *)
(* it.                                                                     *)
(*                                                                         *)
(* Of an instruction only its identity is kept: the token it was emitted   *)
(* for and a tag.  External: the basic blocks of github.com/llir/llvm/ir,  *)
(* whose NewBr, NewCondBr and NewRet set the terminator of a block and     *)
(* replace the one it had.                                                 *)
(***************************************************************************)
EXTENDS Naturals, Sequences, SequencesExt

CONSTANTS
  MaxTokens,   \* bound: opening and plain tokens stop at this length
  Statements,  \* the statements the programs of an instance are made of
  Extra        \* the source forms outside the supported subset that occur

AllStatements == {"stmt", "check", "append", "if", "for", "break",
                  "continue", "return", "switch", "func"}

\* The source forms that the supported subset leaves out, each of them legal Go.
ExtraForms == {
  "openBranchEnd",    \* the branch of an if ends in a block of its own making
  "jumpEndsLoop",     \* a break, continue or return is the last statement of a loop
  "codeAfterJump",    \* statements follow a jump in the same list
  "flowInCase",       \* a case body holds more than straight-line statements
  "fallIntoDefault",  \* the last case falls through to a default after it
  "breakInSwitch",    \* a break whose innermost breakable statement is a switch
  "blocksInItem",     \* the item of an append makes blocks of its own
  "armsReturn",       \* a function with results ends in an if/else that returns
  "otherMain",        \* a function or method of another package is called main
  "voidReturn"}       \* a return statement in a function without results

ASSUME MaxTokensAssumption  == MaxTokens \in Nat
ASSUME StatementsAssumption == Statements \subseteq AllStatements
ASSUME ExtraAssumption      == Extra \subseteq ExtraForms

VARIABLES
  blocks,                 \* the basic blocks of every function, in creation order
  funcs,                  \* the functions of the module
  contextFunc,            \* the function being compiled, 0 at package level
  contextBlock,           \* where instructions go, NoBlock at package level
  contextFuncRetVals,     \* return-value variables: owner and their number
  contextBlockVariables,  \* the scopes; of each, the token that opened it
  contextLoopBreak,       \* what a break resolves to
  contextLoopContinue,    \* what a continue resolves to
  contextCondAfter,       \* where a condition jumps when done
  frames,                 \* the open compileXxx calls, innermost last
  src,                    \* the program so far (read by properties only)
  status                  \* "compiling", "done", or "failed": a panic in the compiler

stacks == <<contextFuncRetVals, contextBlockVariables, contextLoopBreak,
            contextLoopContinue, contextCondAfter>>
vars == <<blocks, funcs, contextFunc, contextBlock, stacks, frames, src, status>>

-----------------------------------------------------------------------------
(* Blocks and terminators                                                    *)

NoBlock == 0
Block   == Nat \ {0}

Tags == {"stmt", "index", "start", "end", "assert", "panic", "append", "if",
         "init", "cond", "post", "switch", "ret", "call"}
Item == [at : Nat, tag : Tags]

TermKinds == {"none", "br", "condbr", "switch", "retvoid", "retval", "unreachable"}
Term      == [kind : TermKinds, to : Seq(Block)]

NoTerm       == [kind |-> "none",        to |-> << >>]
Unreachable  == [kind |-> "unreachable", to |-> << >>]
RetVoid      == [kind |-> "retvoid",     to |-> << >>]
RetVal       == [kind |-> "retval",      to |-> << >>]
Br(b)        == [kind |-> "br",          to |-> <<b>>]
CondBr(t, f) == [kind |-> "condbr",      to |-> <<t, f>>]
Switch(bs)   == [kind |-> "switch",      to |-> bs]

BasicBlock == [fn : Nat \ {0}, code : Seq(Item), term : Term]

\* A block of function f holding the items c, with terminator t.
BlockOf(f, c, t) == [fn |-> f, code |-> c, term |-> t]
NewBlock(f)      == BlockOf(f, << >>, NoTerm)

Emit(bs, b, item)   == [bs EXCEPT ![b].code = Append(@, item)]
Terminate(bs, b, t) == [bs EXCEPT ![b].term = t]

\* The identity the n-th block made from now on will get.
Fresh(n) == Len(blocks) + n

-----------------------------------------------------------------------------
(* Tokens and frames                                                         *)

\* `of' links a closing token to the token it closes and a jump to the loop or
\* switch it leaves in Go; `form' distinguishes the variants of a statement.
Ops == {"stmt", "check", "append", "endappend", "if", "else", "endif", "for", "endfor",
        "break", "continue", "switch", "enddefault", "case", "endcase", "fallthrough",
        "endswitch", "func", "endfunc", "return"}
Forms == {"plain", "index", "substring", "assertion", "self", "copy", "else", "checked",
          "range", "default", "main", "init", "named", "method", "literal", "values", "naked"}
Token == [op : Ops, of : Nat, form : Forms]
Here  == Len(src) + 1
Put(op, of, form) == src' = Append(src, [op |-> op, of |-> of, form |-> form])

\* The height of each context stack.
Heights == [rets |-> Len(contextFuncRetVals), vars |-> Len(contextBlockVariables),
            loop |-> Len(contextLoopBreak),   cond |-> Len(contextCondAfter)]
Height  == [rets : Nat, vars : Nat, loop : Nat, cond : Nat]

\* The local variables of an open compileXxx call.  `at' is its token; `entry', the
\* heights of the stacks at the call, is not in the code and is never read by an
\* action.
IfFrame     == [kind : {"if"}, at : Nat, entry : Height, hasElse : BOOLEAN,
                arm : {"true", "false"}, tru : Block, fls : Block, after : Block]
ForFrame    == [kind : {"for"}, at : Nat, entry : Height,
                cond : Block, post : Block, after : Block]
SwitchFrame == [kind : {"switch"}, at : Nat, entry : Height, hasDefault : BOOLEAN,
                open : {"none", "default", "case"}, pre : Block,
                dflt : Block, after : Block,
                cases : Seq(Block), through : Seq(BOOLEAN)]
AppendFrame == [kind : {"append"}, at : Nat, entry : Height, add : Block]
FuncFrame   == [kind : {"func"}, at : Nat, entry : Height, fn : Nat \ {0},
                prevFunc : Nat, prevBlock : Nat]
Frame == IfFrame \cup ForFrame \cup SwitchFrame \cup AppendFrame \cup FuncFrame

Top        == Last(frames)
Open(kind) == frames # << >> /\ Top.kind = kind

\* The frames of the function being compiled: those above its own func frame.
Inner(i) == \A j \in i .. Len(frames) : frames[j].kind # "func"
LoopsOpen   == {i \in DOMAIN frames : Inner(i) /\ frames[i].kind = "for"}
BreakablesOpen == {i \in DOMAIN frames : Inner(i) /\ frames[i].kind \in {"for", "switch"}}
InnermostOf(S) == CHOOSE i \in S : \A j \in S : j <= i

-----------------------------------------------------------------------------
(* Which programs are compiled                                               *)

AfterJump == src # << >> /\ Last(src).op \in {"break", "continue", "return"}

\* A statement may stand here.
CanStand(s) ==
  /\ status = "compiling"
  /\ s \in Statements
  /\ Len(src) < MaxTokens
  /\ frames # << >>
  /\ Open("switch") => /\ Top.open # "none"
                       /\ s # "stmt" => "flowInCase" \in Extra
  /\ AfterJump => "codeAfterJump" \in Extra

StatementAllowed(s)  == CanStand(s) /\ ~Open("append")
ExpressionAllowed(s) == CanStand(s) /\ (Open("append") => "blocksInItem" \in Extra)
JumpAllowed(s)       == StatementAllowed(s) /\ (Open("for") => "jumpEndsLoop" \in Extra)

\* The branch of an if that starts at block b ends here.
BranchMayEnd(b) ==
  "openBranchEnd" \in Extra \/ contextBlock = b
    \/ blocks[contextBlock].term.kind \notin {"none", "unreachable"}

\* An if/else whose two branches end in return statements ends here.
ArmsReturn ==
  /\ Len(src) > 2
  /\ Last(src).op = "endif"
  /\ src[Len(src) - 1].op = "return"
  /\ \E p \in DOMAIN src : /\ src[p].op = "else" /\ src[p].of = Last(src).of
                           /\ src[p - 1].op = "return"

\* A body with results ends in a terminating statement.
BodyMayEnd(f) ==
  funcs[f].results > 0 => \/ src # << >> /\ Last(src).op = "return"
                          \/ "armsReturn" \in Extra /\ ArmsReturn

-----------------------------------------------------------------------------
(* Initial state: NewCompiler and addGlobal                                  *)

RetVals    == [fn : Nat \ {0}, n : Nat \ {0}]
GlobalInit == 1
Main       == 2
Func == [kind : {"globalinit", "main", "init", "named", "method", "jump", "literal"},
         results : Nat, entry : Block, complete : BOOLEAN, at : Nat]
NewFunc(kind, results, entry, complete) ==
  [kind |-> kind, results |-> results, entry |-> entry, complete |-> complete, at |-> Here]

Init ==
  /\ blocks = <<BlockOf(GlobalInit, << >>, RetVoid), NewBlock(Main)>>
  /\ src = << >>
  /\ funcs = <<NewFunc("globalinit", 0, 1, TRUE), NewFunc("main", 0, 2, FALSE)>>
  /\ contextFunc = 0
  /\ contextBlock = NoBlock
  /\ contextFuncRetVals = << >>
  /\ contextBlockVariables = <<0>>
  /\ contextLoopBreak = << >>
  /\ contextLoopContinue = << >>
  /\ contextCondAfter = << >>
  /\ frames = << >>
  /\ status = "compiling"

-----------------------------------------------------------------------------
(* Straight-line code and expressions                                        *)

\* An assignment, declaration or call: instructions in the current block.
Stmt ==
  /\ StatementAllowed("stmt")
  /\ blocks' = Emit(blocks, contextBlock, [at |-> Here, tag |-> "stmt"])
  /\ Put("stmt", 0, "plain")
  /\ UNCHANGED <<funcs, contextFunc, contextBlock, stacks, frames, status>>

\* The blocks of one bounds check, appended to bs.
WithCheck(bs, b, at, f, t) ==
  LET outside == BlockOf(f, <<[at |-> at, tag |-> "panic"]>>, Unreachable)
      cmp     == Emit(bs, b, [at |-> at, tag |-> "index"])
  IN  Terminate(cmp \o <<outside, NewBlock(f)>>, b, t)

\* Variant: the two targets of the comparison swapped.
CheckedSwapped(bs, b, at, f) == WithCheck(bs, b, at, f, CondBr(Len(bs) + 2, Len(bs) + 1))

\* Code in block b continues in the safe block, unless the index is out of range.
Checked(bs, b, at, f) == WithCheck(bs, b, at, f, CondBr(Len(bs) + 1, Len(bs) + 2))

\* An index expression whose bound is checked at run time.
Index ==
  /\ ExpressionAllowed("check")
  /\ blocks' = Checked(blocks, contextBlock, Here, blocks[contextBlock].fn)
  /\ contextBlock' = Fresh(2)
  /\ Put("check", 0, "index")
  /\ UNCHANGED <<funcs, contextFunc, stacks, frames, status>>

\* s[a:b] of a string: the start is checked in the current block, the end in a
\* block of its own.
Substring ==
  /\ ExpressionAllowed("check")
  /\ LET f        == blocks[contextBlock].fn
         outside  == BlockOf(f, <<[at |-> Here, tag |-> "panic"]>>, Unreachable)
         checkEnd == BlockOf(f, <<[at |-> Here, tag |-> "end"]>>, CondBr(Fresh(2), Fresh(1)))
         cmp      == Emit(blocks, contextBlock, [at |-> Here, tag |-> "start"])
     IN  blocks' = Terminate(cmp \o <<outside, NewBlock(f), checkEnd>>, contextBlock,
                             CondBr(Fresh(3), Fresh(1)))
  /\ contextBlock' = Fresh(2)
  /\ Put("check", 0, "substring")
  /\ UNCHANGED <<funcs, contextFunc, stacks, frames, status>>

\* x.(T): both outcomes of the comparison continue in the block after it.
TypeAssertion ==
  /\ StatementAllowed("check")
  /\ LET f    == blocks[contextBlock].fn
         side == BlockOf(f, << >>, Br(Fresh(3)))
         cmp  == Emit(blocks, contextBlock, [at |-> Here, tag |-> "assert"])
     IN  blocks' = Terminate(cmp \o <<side, side, NewBlock(f)>>, contextBlock,
                             CondBr(Fresh(1), Fresh(2)))
  /\ contextBlock' = Fresh(3)
  /\ Put("check", 0, "assertion")
  /\ UNCHANGED <<funcs, contextFunc, stacks, frames, status>>

\* x = append(s, item), up to the compilation of item; self: s is x.  The four blocks
\* copy the slice (copy, copyBytes), use it as it is (existing) and add the item (add,
\* which keeps the placeholder terminator it was made with).
BeginAppend(self) ==
  /\ StatementAllowed("append")
  /\ LET f         == blocks[contextBlock].fn
         copy      == BlockOf(f, << >>, Br(Fresh(4)))
         add       == BlockOf(f, << >>, Unreachable)
         existing  == BlockOf(f, << >>, Br(Fresh(2)))
         copyBytes == BlockOf(f, << >>, CondBr(Fresh(4), Fresh(2)))
     IN  blocks' = Terminate(blocks \o <<copy, add, existing, copyBytes>>, contextBlock,
                             IF self THEN CondBr(Fresh(3), Fresh(1)) ELSE Br(Fresh(1)))
  /\ contextBlock' = Fresh(2)
  /\ frames' = Append(frames, [kind |-> "append", at |-> Here, entry |-> Heights,
                               add |-> Fresh(2)])
  /\ Put("append", 0, IF self THEN "self" ELSE "copy")
  /\ UNCHANGED <<funcs, contextFunc, stacks, status>>

\* An append as the item of an append: the destination on top of contextAssignDest is
\* the item's, which has a type and no value, and comparing with its value panics.
NestedAppend ==
  /\ ExpressionAllowed("append") /\ Open("append")
  /\ status' = "failed"
  /\ Put("append", 0, "copy")
  /\ UNCHANGED <<blocks, funcs, contextFunc, contextBlock, stacks, frames>>

\* The item is stored by the add block, whatever block its value was computed in.
EndAppend ==
  /\ Open("append") /\ status = "compiling"
  /\ blocks' = Emit(blocks, Top.add, [at |-> Top.at, tag |-> "append"])
  /\ contextBlock' = Top.add
  /\ frames' = Front(frames)
  /\ Put("endappend", Top.at, "plain")
  /\ UNCHANGED <<funcs, contextFunc, stacks, status>>

-----------------------------------------------------------------------------
(* if / else                                                                 *)

BeginIf(hasElse) ==
  /\ StatementAllowed("if")
  /\ LET f     == blocks[contextBlock].fn
         after == Fresh(1)
         tru   == Fresh(2)
         fls   == IF hasElse THEN Fresh(3) ELSE after
         made  == IF hasElse THEN <<NewBlock(f), NewBlock(f), NewBlock(f)>>
                             ELSE <<NewBlock(f), NewBlock(f)>>
         cmp   == Emit(blocks, contextBlock, [at |-> Here, tag |-> "if"])
     IN  /\ blocks' = Terminate(cmp \o made, contextBlock, CondBr(tru, fls))
         /\ contextCondAfter' = Append(contextCondAfter, after)
         /\ contextBlock' = tru
         /\ frames' = Append(frames,
              [kind |-> "if", at |-> Here, entry |-> Heights, hasElse |-> hasElse,
               arm |-> "true", tru |-> tru, fls |-> fls, after |-> after])
  /\ contextBlockVariables' = Append(contextBlockVariables, Here)
  /\ Put("if", 0, IF hasElse THEN "else" ELSE "plain")
  /\ UNCHANGED <<funcs, contextFunc, contextFuncRetVals, contextLoopBreak,
                 contextLoopContinue, status>>

\* Variant: the missing jump is not added.
ArmLeftOpen(b) == blocks

\* The jump to the after block, taken from the block the arm began in.
ArmClosed(b) ==
  IF blocks[b].term = NoTerm THEN Terminate(blocks, b, Br(Top.after)) ELSE blocks

BeginElse ==
  /\ Open("if") /\ status = "compiling"
  /\ Top.hasElse /\ Top.arm = "true"
  /\ BranchMayEnd(Top.tru)
  /\ blocks' = ArmClosed(Top.tru)
  /\ contextBlock' = Top.fls
  /\ frames' = [frames EXCEPT ![Len(frames)].arm = "false"]
  /\ Put("else", Top.at, "plain")
  /\ UNCHANGED <<funcs, contextFunc, stacks, status>>

EndIf ==
  /\ Open("if") /\ status = "compiling"
  /\ Top.hasElse => Top.arm = "false" /\ Last(src).op # "else"
  /\ LET entry  == IF Top.hasElse THEN Top.fls ELSE Top.tru
         outer  == Front(contextCondAfter)
         closed == ArmClosed(entry)
     IN  /\ BranchMayEnd(entry)
         /\ contextCondAfter' = outer
         /\ blocks' = IF outer # << >> THEN Terminate(closed, Top.after, Br(Last(outer)))
                                       ELSE closed
  /\ contextBlock' = Top.after
  /\ contextBlockVariables' = Front(contextBlockVariables)
  /\ frames' = Front(frames)
  /\ Put("endif", Top.at, "plain")
  /\ UNCHANGED <<funcs, contextFunc, contextFuncRetVals, contextLoopBreak,
                 contextLoopContinue, status>>

-----------------------------------------------------------------------------
(* for, break, continue                                                      *)

\* Variant: the two stacks confused.
PushLoopSwapped(break, continue) ==
  /\ contextLoopBreak' = Append(contextLoopBreak, continue)
  /\ contextLoopContinue' = Append(contextLoopContinue, break)

PushLoop(break, continue) ==
  /\ contextLoopBreak' = Append(contextLoopBreak, break)
  /\ contextLoopContinue' = Append(contextLoopContinue, continue)

\* Variant: one of the two stacks is not popped.
PopContinue ==
  /\ contextLoopContinue' = Front(contextLoopContinue)
  /\ UNCHANGED contextLoopBreak

PopLoop ==
  /\ contextLoopBreak' = Front(contextLoopBreak)
  /\ contextLoopContinue' = Front(contextLoopContinue)

\* A loop: "plain", with an index expression in its condition ("checked"), or over
\* the values of a range ("range"), whose body starts by loading the element.
BeginFor(form) ==
  /\ StatementAllowed("for")
  /\ LET f       == blocks[contextBlock].fn
         cond    == Fresh(1)
         body    == Fresh(2)
         post    == Fresh(3)
         after   == Fresh(4)
         made    == [i \in 1 .. 4 |-> NewBlock(f)]
         before  == Emit(blocks, contextBlock, [at |-> Here, tag |-> "init"])
         entered == Terminate(before \o made, contextBlock, Br(cond))
         tested  == IF form = "checked" THEN Checked(entered, cond, Here, f) ELSE entered
         test    == IF form = "checked" THEN Fresh(6) ELSE cond
         looped  == Terminate(Emit(tested, test, [at |-> Here, tag |-> "cond"]), test,
                              CondBr(body, after))
     IN  /\ blocks' = IF form = "range" THEN Checked(looped, body, Here, f) ELSE looped
         /\ contextBlock' = IF form = "range" THEN Fresh(6) ELSE body
         /\ PushLoop(after, post)
         /\ frames' = Append(frames, [kind |-> "for", at |-> Here, entry |-> Heights,
                                      cond |-> cond, post |-> post, after |-> after])
  /\ Put("for", 0, form)
  /\ UNCHANGED <<funcs, contextFunc, contextFuncRetVals, contextBlockVariables,
                 contextCondAfter, status>>

EndFor ==
  /\ Open("for") /\ status = "compiling"
  /\ LET bodyEnded == Terminate(blocks, contextBlock, Br(Top.post))
         stepped   == Emit(bodyEnded, Top.post, [at |-> Top.at, tag |-> "post"])
     IN  blocks' = Terminate(stepped, Top.post, Br(Top.cond))
  /\ contextBlock' = Top.after
  /\ PopLoop
  /\ frames' = Front(frames)
  /\ Put("endfor", Top.at, "plain")
  /\ UNCHANGED <<funcs, contextFunc, contextFuncRetVals, contextBlockVariables,
                 contextCondAfter, status>>

\* A break is legal in a loop or a switch of the function; indexing an empty stack
\* panics.
Break ==
  /\ JumpAllowed("break")
  /\ BreakablesOpen # {}
  /\ LET target == InnermostOf(BreakablesOpen)
     IN  /\ frames[target].kind = "switch" => "breakInSwitch" \in Extra
         /\ Put("break", frames[target].at, "plain")
  /\ IF contextLoopBreak # << >>
       THEN /\ blocks' = Terminate(blocks, contextBlock, Br(Last(contextLoopBreak)))
            /\ UNCHANGED status
       ELSE /\ status' = "failed"
            /\ UNCHANGED blocks
  /\ UNCHANGED <<funcs, contextFunc, contextBlock, stacks, frames>>

Continue ==
  /\ JumpAllowed("continue")
  /\ LoopsOpen # {}
  /\ Put("continue", frames[InnermostOf(LoopsOpen)].at, "plain")
  /\ IF contextLoopContinue # << >>
       THEN /\ blocks' = Terminate(blocks, contextBlock, Br(Last(contextLoopContinue)))
            /\ UNCHANGED status
       ELSE /\ status' = "failed"
            /\ UNCHANGED blocks
  /\ UNCHANGED <<funcs, contextFunc, contextBlock, stacks, frames>>

-----------------------------------------------------------------------------
(* switch                                                                    *)

\* The default body is compiled before the cases, wherever it stands in the source;
\* here it stands last.
BeginSwitch(hasDefault) ==
  /\ StatementAllowed("switch")
  /\ LET f     == blocks[contextBlock].fn
         after == Fresh(1)
         dflt  == Fresh(2)
         item  == Emit(blocks, contextBlock, [at |-> Here, tag |-> "switch"])
         made  == item \o <<NewBlock(f), NewBlock(f)>>
     IN  /\ blocks' = IF hasDefault THEN made ELSE Terminate(made, dflt, Br(after))
         /\ contextBlock' = IF hasDefault THEN dflt ELSE contextBlock
         /\ frames' = Append(frames,
              [kind |-> "switch", at |-> Here, entry |-> Heights, hasDefault |-> hasDefault,
               open |-> IF hasDefault THEN "default" ELSE "none", pre |-> contextBlock,
               dflt |-> dflt, after |-> after, cases |-> << >>, through |-> << >>])
  /\ Put("switch", 0, IF hasDefault THEN "default" ELSE "plain")
  /\ UNCHANGED <<funcs, contextFunc, stacks, status>>

EndDefault ==
  /\ Open("switch") /\ status = "compiling"
  /\ Top.open = "default"
  /\ blocks' = Terminate(blocks, Top.dflt, Br(Top.after))
  /\ contextBlock' = Top.pre
  /\ frames' = [frames EXCEPT ![Len(frames)].open = "none"]
  /\ Put("enddefault", Top.at, "plain")
  /\ UNCHANGED <<funcs, contextFunc, stacks, status>>

BeginCase ==
  /\ Open("switch") /\ status = "compiling"
  /\ Len(src) < MaxTokens
  /\ Top.open = "none"
  /\ blocks' = Append(blocks, NewBlock(blocks[contextBlock].fn))
  /\ contextBlock' = Fresh(1)
  /\ frames' = [frames EXCEPT ![Len(frames)].open  = "case",
                              ![Len(frames)].cases = Append(@, Fresh(1))]
  /\ Put("case", Top.at, "plain")
  /\ UNCHANGED <<funcs, contextFunc, stacks, status>>

EndCase(fallthrough) ==
  /\ Open("switch") /\ status = "compiling"
  /\ Top.open = "case"
  /\ contextBlock' = Top.pre
  /\ frames' = [frames EXCEPT ![Len(frames)].open    = "none",
                              ![Len(frames)].through = Append(@, fallthrough)]
  /\ Put(IF fallthrough THEN "fallthrough" ELSE "endcase", Top.at, "plain")
  /\ UNCHANGED <<blocks, funcs, contextFunc, stacks, status>>

\* The terminators of the case blocks, then that of the block with the switch.
\* Go lets the last case fall through only into a default that follows it.
EndSwitch ==
  /\ Open("switch") /\ status = "compiling"
  /\ Top.open = "none"
  /\ LET n       == Len(Top.cases)
         falls   == n > 0 /\ Top.through[n]
         exit(i) == IF Top.through[i] THEN Top.cases[i + 1] ELSE Top.after
         ended   == [b \in DOMAIN blocks |->
                       IF \E i \in 1 .. n : Top.cases[i] = b
                         THEN [blocks[b] EXCEPT !.term =
                                 Br(exit(CHOOSE i \in 1 .. n : Top.cases[i] = b))]
                         ELSE blocks[b]]
     IN  /\ falls => Top.hasDefault /\ "fallIntoDefault" \in Extra
         /\ IF falls
              THEN /\ status' = "failed"
                   /\ UNCHANGED <<blocks, contextBlock, frames>>
              ELSE /\ blocks' = Terminate(ended, contextBlock, Switch(<<Top.dflt>> \o Top.cases))
                   /\ contextBlock' = Top.after
                   /\ frames' = Front(frames)
                   /\ UNCHANGED status
  /\ Put("endswitch", Top.at, "plain")
  /\ UNCHANGED <<funcs, contextFunc, stacks>>

-----------------------------------------------------------------------------
(* Functions and return                                                      *)

\* Variant: an entry for functions without results too, which EndFunc does not pop.
PushRetValsAlways(f, results) ==
  contextFuncRetVals' = Append(contextFuncRetVals, [fn |-> f, n |-> results])

\* Variant: the entry of a single result is forgotten.
PushManyRetVals(f, results) ==
  contextFuncRetVals' = IF results > 1
                          THEN Append(contextFuncRetVals, [fn |-> f, n |-> results])
                          ELSE contextFuncRetVals

PushRetVals(f, results) ==
  contextFuncRetVals' = IF results > 0
                          THEN Append(contextFuncRetVals, [fn |-> f, n |-> results])
                          ELSE contextFuncRetVals

\* The part of compileDefineFuncNode that does not depend on the kind of function:
\* f and entry are its function and entry block.
EnterFunc(f, entry, results) ==
  /\ contextFunc' = f
  /\ contextBlock' = entry
  /\ contextBlockVariables' = Append(contextBlockVariables, Here)
  /\ PushRetVals(f, results)
  /\ frames' = Append(frames, [kind |-> "func", at |-> Here, entry |-> Heights, fn |-> f,
                               prevFunc |-> contextFunc, prevBlock |-> contextBlock])
  /\ UNCHANGED <<contextLoopBreak, contextLoopContinue, contextCondAfter, status>>

\* main: its function and entry block were made by addGlobal.
BeginMain ==
  /\ status = "compiling" /\ frames = << >>
  /\ ~funcs[Main].complete
  /\ EnterFunc(Main, 2, 0)
  /\ funcs' = [funcs EXCEPT ![Main].at = Here]
  /\ Put("func", 0, "main")
  /\ UNCHANGED blocks

\* init, a named function, a method (with the function interfaces call it through),
\* or a function literal in the middle of a body.
BeginFunc(kind, results) ==
  /\ status = "compiling"
  /\ "func" \in Statements
  /\ Len(src) < MaxTokens
  /\ IF kind = "literal" THEN CanStand("func") ELSE frames = << >>
  /\ kind = "init" => results = 0
  /\ LET f     == Len(funcs) + 1
         entry == NewBlock(f)
         jump  == BlockOf(f + 1, << >>, IF results = 1 THEN RetVal ELSE RetVoid)
     IN  /\ blocks' = CASE kind = "init"   -> Append(Emit(blocks, 1, [at |-> Here, tag |-> "call"]), entry)
                        [] kind = "method" -> blocks \o <<entry, jump>>
                        [] OTHER           -> Append(blocks, entry)
         /\ funcs' = Append(funcs, NewFunc(kind, results, Fresh(1), FALSE))
                       \o (IF kind = "method" THEN <<NewFunc("jump", results, Fresh(2), TRUE)>>
                                              ELSE << >>)
         /\ EnterFunc(f, Fresh(1), results)
  /\ Put("func", 0, kind)

\* Variant: the return is only added to an open block.
ReturnIfOpen(bs, ret) ==
  IF bs[contextBlock].term = NoTerm THEN Terminate(bs, contextBlock, ret) ELSE bs

ReturnAtEnd(bs, ret) == Terminate(bs, contextBlock, ret)

\* Variant: the caller's function is not restored.
BackToBlock ==
  /\ contextBlock' = Top.prevBlock
  /\ UNCHANGED contextFunc

BackToCaller ==
  /\ contextFunc' = Top.prevFunc
  /\ contextBlock' = Top.prevBlock

\* What function f may be called.  Only its end looks at the name, and there at the
\* name alone, whatever the package and the receiver.  (A method called main in package
\* main, and methods called init, are left out: they take over main's own function, or
\* are called when the program starts.)
NamesOf(f) ==
  IF f = Main THEN {"main"}
  ELSE {"other"} \cup
         (IF "otherMain" \in Extra /\ funcs[f].kind \in {"named", "method"} THEN {"main"} ELSE {})

\* The end of the body: `ret void' without results, the pop of the return values
\* with them; then `ret i32 0' if the function is called main.
EndFunc ==
  /\ Open("func") /\ status = "compiling"
  /\ BodyMayEnd(Top.fn)
  /\ LET results == funcs[Top.fn].results
         void    == Emit(blocks, contextBlock, [at |-> Here, tag |-> "ret"])
     IN  /\ contextFuncRetVals' = IF results = 0 THEN contextFuncRetVals
                                                 ELSE Front(contextFuncRetVals)
         /\ \E name \in NamesOf(Top.fn) :
              blocks' = IF results = 0
                          THEN ReturnAtEnd(void, IF name = "main" THEN RetVal ELSE RetVoid)
                          ELSE IF name = "main" THEN ReturnAtEnd(blocks, RetVal) ELSE blocks
  /\ funcs' = [funcs EXCEPT ![Top.fn].complete = TRUE]
  /\ BackToCaller
  /\ contextBlockVariables' = Front(contextBlockVariables)
  /\ frames' = Front(frames)
  /\ Put("endfunc", Top.at, "plain")
  /\ UNCHANGED <<contextLoopBreak, contextLoopContinue, contextCondAfter, status>>

ReturnAllowed(s) == JumpAllowed(s) /\ contextFunc # 0

\* return with one value, or with one per result.
ReturnValues ==
  /\ ReturnAllowed("return")
  /\ funcs[contextFunc].results > 0
  /\ LET single == funcs[contextFunc].results = 1
         values == Emit(blocks, contextBlock, [at |-> Here, tag |-> "ret"])
     IN  blocks' = Terminate(values, contextBlock, IF single THEN RetVal ELSE RetVoid)
  /\ Put("return", 0, "values")
  /\ UNCHANGED <<funcs, contextFunc, contextBlock, stacks, frames, status>>

\* Variant: the number of return values is not looked at.
NakedAlwaysValue == RetVal

NakedTerm == IF Last(contextFuncRetVals).n = 1 THEN RetVal ELSE RetVoid

\* return without values: named results, or a function without results.  The code
\* looks at the return values on top of the stack, and panics if it is empty.
NakedReturn ==
  /\ ReturnAllowed("return")
  /\ funcs[contextFunc].results = 0 => "voidReturn" \in Extra
  /\ Put("return", 0, "naked")
  /\ IF contextFuncRetVals # << >>
       THEN LET naked == Emit(blocks, contextBlock, [at |-> Here, tag |-> "ret"])
            IN  /\ blocks' = Terminate(naked, contextBlock, NakedTerm)
                /\ UNCHANGED status
       ELSE /\ status' = "failed"
            /\ UNCHANGED blocks
  /\ UNCHANGED <<funcs, contextFunc, contextBlock, stacks, frames>>

-----------------------------------------------------------------------------
(* The specification                                                         *)

\* Every file is compiled.
Finish ==
  /\ status = "compiling" /\ frames = << >>
  /\ funcs[Main].complete
  /\ status' = "done"
  /\ UNCHANGED <<blocks, funcs, contextFunc, contextBlock, stacks, frames, src>>

Next ==
  \/ Stmt \/ Index \/ Substring \/ TypeAssertion
  \/ \E self \in BOOLEAN : BeginAppend(self)
  \/ NestedAppend \/ EndAppend
  \/ \E hasElse \in BOOLEAN : BeginIf(hasElse)
  \/ BeginElse \/ EndIf
  \/ \E form \in {"plain", "checked", "range"} : BeginFor(form)
  \/ EndFor \/ Break \/ Continue
  \/ \E hasDefault \in BOOLEAN : BeginSwitch(hasDefault)
  \/ EndDefault \/ BeginCase
  \/ \E fallthrough \in BOOLEAN : EndCase(fallthrough)
  \/ EndSwitch
  \/ BeginMain
  \/ \E kind \in {"init", "named", "method", "literal"}, results \in 0 .. 2 :
       BeginFunc(kind, results)
  \/ EndFunc \/ ReturnValues \/ NakedReturn
  \/ Finish

Spec == Init /\ [][Next]_vars

-----------------------------------------------------------------------------
(* Properties                                                                *)

TypeOK ==
  /\ blocks \in Seq(BasicBlock)
  /\ funcs \in Seq(Func)
  /\ contextFunc \in Nat
  /\ contextBlock \in Nat
  /\ contextFuncRetVals \in Seq(RetVals)
  /\ contextBlockVariables \in Seq(Nat)
  /\ contextLoopBreak \in Seq(Block)
  /\ contextLoopContinue \in Seq(Block)
  /\ contextCondAfter \in Seq(Block)
  /\ frames \in Seq(Frame)
  /\ src \in Seq(Token)
  /\ status \in {"compiling", "done", "failed"}

\* What a call pushes: the heights of the stacks while its body is compiled.
Inside(f) ==
  [rets |-> f.entry.rets + (IF f.kind = "func" /\ funcs[f.fn].results > 0 THEN 1 ELSE 0),
   vars |-> f.entry.vars + (IF f.kind \in {"if", "func"} THEN 1 ELSE 0),
   loop |-> f.entry.loop + (IF f.kind = "for" THEN 1 ELSE 0),
   cond |-> f.entry.cond + (IF f.kind = "if" THEN 1 ELSE 0)]

\* Every call finds the stacks at the heights its caller left them at, and the stacks
\* are as high as the innermost call says: nothing is popped twice or forgotten.
Balanced ==
  /\ \A i \in DOMAIN frames :
       frames[i].entry = IF i = 1 THEN [rets |-> 0, vars |-> 1, loop |-> 0, cond |-> 0]
                                  ELSE Inside(frames[i - 1])
  /\ Heights = IF frames = << >> THEN [rets |-> 0, vars |-> 1, loop |-> 0, cond |-> 0]
                                 ELSE Inside(Top)
  /\ Len(contextLoopContinue) = Len(contextLoopBreak)

\* Every open call finds its own entries at its height, whatever its body pushed and
\* popped since: the blocks a break, a continue and the end of a nested if jump to,
\* the scope it opened, the return values a naked return loads.
OwnEntries ==
  \A i \in DOMAIN frames : LET f == frames[i] IN
    /\ f.kind = "for"  => /\ contextLoopBreak[f.entry.loop + 1] = f.after
                          /\ contextLoopContinue[f.entry.loop + 1] = f.post
    /\ f.kind = "if"   => /\ contextCondAfter[f.entry.cond + 1] = f.after
                          /\ contextBlockVariables[f.entry.vars + 1] = f.at
    /\ f.kind = "func" => /\ contextBlockVariables[f.entry.vars + 1] = f.at
                          /\ funcs[f.fn].results > 0 =>
                               contextFuncRetVals[f.entry.rets + 1]
                                 = [fn |-> f.fn, n |-> funcs[f.fn].results]

\* compiler.go:49 "What a break or continue should resolve to": a break or continue
\* compiled now leaves or continues the innermost loop of the function being compiled.
InnermostLoop ==
  LoopsOpen # {} => LET loop == frames[InnermostOf(LoopsOpen)] IN
                      /\ Last(contextLoopBreak) = loop.after
                      /\ Last(contextLoopContinue) = loop.post

\* Instructions go to the function whose signature a return is compiled for, also
\* after a function literal in the middle of a body.
ContextInFunction ==
  IF contextBlock = NoBlock THEN contextFunc = 0
                            ELSE blocks[contextBlock].fn = contextFunc

BlocksOf(f)  == {b \in DOMAIN blocks : blocks[b].fn = f}
Completed    == {f \in DOMAIN funcs : funcs[f].complete}

\* A block without a terminator cannot be printed as LLVM IR: when a function is
\* compiled, each of its blocks has one.
Terminated ==
  \A f \in Completed : \A b \in BlocksOf(f) : blocks[b].term.kind # "none"

\* A branch stays in its function (contextCondAfter survives into function literals).
OwnTargets ==
  \A f \in Completed : \A b \in BlocksOf(f) :
    \A i \in DOMAIN blocks[b].term.to : blocks[blocks[b].term.to[i]].fn = f

\* "Return 0 by default in main func" (func.go:250): a function with one result (and
\* main) returns a value, any other returns void.
RetMatches ==
  \A f \in Completed : \A b \in BlocksOf(f) :
    LET valued == f = Main \/ funcs[f].results = 1 IN
      /\ blocks[b].term.kind = "retval"  => valued
      /\ blocks[b].term.kind = "retvoid" => ~valued

\* The compiler itself does not panic on a legal program.
NoPanic == status # "failed"

=============================================================================
