-------------------------------- MODULE LLVM --------------------------------
(***************************************************************************)
(* LLVM: what the instructions do that the compiler builds with the        *)
(* library llir, on a memory of words.  External: modelled from the        *)
(* compiler's use of it.                                                   *)
(*                                                                         *)
(* A value is a record of its type `lt' and its words.  A word is the bits *)
(* of a number, or an address.  An instruction whose operands have the     *)
(* wrong types ends the compiler (in llir) or makes clang refuse the       *)
(* module: both are a "panic".  Where LLVM leaves open what happens, the   *)
(* state ends "undefined".                                                 *)
(***************************************************************************)
EXTENDS Steps, Integers, Sequences, SequencesExt, FiniteSetsExt, Functions, Bitwise

CONSTANT Bits  \* the number of bits of each integer type

Garbage == -1  \* a word nobody has written
Dead    == -2  \* a word that is not, or no longer, part of a variable

Undefined(c) == [c EXCEPT !.end = "undefined"]
Exits(c)     == [c EXCEPT !.end = "exits"]

PtrTo(lt) == <<"ptr", lt>>
IsPointer(lt)  == lt[1] = "ptr"
IsInt(lt)      == lt[1] \in DOMAIN Bits
V(lt, words)   == [lt |-> lt, words |-> words]
IntV(lt, n)    == V(lt, <<n % 2 ^ Bits[lt[1]]>>)

\* the number of words of a type; `structs' gives the types of the members of each struct
RECURSIVE Words(_, _)
Words(structs, lt) ==
  CASE lt[1] = "struct" -> FoldFunction(+, 0, [k \in DOMAIN structs[lt[2]] |->
                                                 Words(structs, structs[lt[2]][k])])
    [] lt[1] \in {"iface", "string"} -> 2
    [] OTHER            -> 1

\* bytes of a member, and its alignment
Bytes(lt) == CASE lt[1] \in {"i1", "i8"} -> 1 [] lt[1] = "i16" -> 2 [] lt[1] = "i32" -> 4
               [] lt[1] = "string" -> 16 [] OTHER -> 8
Align(lt) == IF lt[1] = "string" THEN 8 ELSE Bytes(lt)

\* where each of a sequence of members ends, in bytes
EndsAt(lts) ==
  FoldLeft(LAMBDA ends, lt :
             LET end == IF ends = <<>> THEN 0 ELSE Last(ends)
                 n   == Align(lt)
             IN  Append(ends, ((end + n - 1) \div n) * n + Bytes(lt)),
           <<>>, lts)

NewAlloca(c, lt) ==
  Ret([c EXCEPT !.mem = @ \o [k \in 1..Words(c.layout, lt) |-> Garbage]],
      V(PtrTo(lt), <<Len(c.mem) + 1>>))

\* words that no frame ends
OnHeap(c, words) == [c EXCEPT !.mem = @ \o words,
                              !.malloced = @ \cup {Len(c.mem) + k : k \in DOMAIN words}]

\* malloc(size), cast to a pointer to the struct.  What does not fit is not part of it.
NewMalloc(c, lt, size) ==
  LET lts   == c.layout[lt[2]]
      ends  == EndsAt(lts)
      words == FlattenSeq([k \in DOMAIN lts |->
                 [w \in 1..Words(c.layout, lts[k]) |-> IF ends[k] > size THEN Dead ELSE Garbage]])
  IN  Ret(OnHeap(c, words), V(PtrTo(lt), <<Len(c.mem) + 1>>))

Alive(c, from, n) ==
  /\ from # Garbage /\ from + n - 1 <= Len(c.mem)
  /\ \A k \in from..from + n - 1 : c.mem[k] # Dead

NewLoad(c, at) ==
  IF ~IsPointer(at.lt) THEN Panic(c)
  ELSE LET n == Words(c.layout, at.lt[2]) IN
       IF ~Alive(c, at.words[1], n) THEN Undefined(c)
       ELSE Ret(c, V(at.lt[2], SubSeq(c.mem, at.words[1], at.words[1] + n - 1)))

NewStore(c, v, at) ==
  IF at.lt # PtrTo(v.lt) THEN Panic(c)
  ELSE IF ~Alive(c, at.words[1], Len(v.words)) THEN Undefined(c)
  ELSE [c EXCEPT !.mem = [k \in DOMAIN @ |->
          IF k - at.words[1] \in 0..Len(v.words) - 1 THEN v.words[k - at.words[1] + 1] ELSE @[k]]]

\* the address of member n of the struct at `at'
NewGetElementPtr(c, at, n) ==
  IF ~IsPointer(at.lt) \/ at.lt[2][1] # "struct" THEN Panic(c)
  ELSE LET lts == c.layout[at.lt[2][2]]
           before == FoldFunction(+, 0, [k \in 1..n - 1 |-> Words(c.layout, lts[k])])
       IN  Ret(c, V(PtrTo(lts[n]),
                    <<IF at.words[1] = Garbage THEN Garbage ELSE at.words[1] + before>>))

\* the frame that begins behind word n is left
LeaveFrame(c, n) ==
  [c EXCEPT !.mem = [k \in DOMAIN @ |-> IF k > n /\ k \notin c.malloced THEN Dead ELSE @[k]]]

-----------------------------------------------------------------------------
\* Strings: a length, and the address of the characters, behind which there is a NUL.  A
\* character is a number.
StringType == <<"string">>
NUL == 0

\* the characters from an address up to the NUL, n at most
CharsAt(c, from, n) ==
  LET ends == {k \in from..Len(c.mem) : c.mem[k] = NUL \/ k - from = n} IN
  SubSeq(c.mem, from, (IF ends = {} THEN Len(c.mem) + 1 ELSE Min(ends)) - 1)

\* strcpy, with the NUL; memory is allocated for what is written exactly up to its end
Strcpy(c, to, chars) ==
  IF to + Len(chars) > Len(c.mem) THEN Undefined(c)
  ELSE [c EXCEPT !.mem = [k \in DOMAIN @ |->
          IF k - to \in 0..Len(chars) THEN Append(chars, NUL)[k - to + 1] ELSE @[k]]]

\* strndup: the address of a copy of the first characters
Strndup(c, from, n) ==
  Ret(OnHeap(c, Append(CharsAt(c, from, n), NUL)), Len(c.mem) + 1)

-----------------------------------------------------------------------------
\* Arithmetic on the bits of numbers

SignedOf(n, bits) == IF n >= 2 ^ (bits - 1) THEN n - 2 ^ bits ELSE n

\* division that cuts towards 0
Quotient(a, b) ==
  LET abs(n) == IF n < 0 THEN -n ELSE n
      q == abs(a) \div abs(b)
  IN  IF (a < 0) = (b < 0) THEN q ELSE -q

Arithmetic(op, bits, a, b) ==
  CASE op = "add"  -> a + b
    [] op = "sub"  -> a - b
    [] op = "mul"  -> a * b
    [] op = "udiv" -> a \div b
    [] op = "sdiv" -> Quotient(SignedOf(a, bits), SignedOf(b, bits))
    [] op = "and"  -> a & b
    [] op = "or"   -> a | b
    [] op = "xor"  -> a ^^ b
    [] op = "shl"  -> a * 2 ^ b
    [] op = "lshr" -> a \div 2 ^ b

\* what the hardware traps on, and LLVM leaves undefined
Traps(op, bits, a, b) ==
  \/ op \in {"sdiv", "udiv"} /\ b = 0
  \/ op = "sdiv" /\ SignedOf(a, bits) = -(2 ^ (bits - 1)) /\ SignedOf(b, bits) = -1

SameInts(a, b) == a.lt = b.lt /\ IsInt(a.lt)

NewBinary(c, op, a, b) ==
  IF ~SameInts(a, b) THEN Panic(c)
  ELSE LET bits == Bits[a.lt[1]] x == a.words[1] y == b.words[1] IN
       CASE Garbage \in {x, y} -> Ret(c, V(a.lt, <<Garbage>>))
         [] op \in {"shl", "lshr"} /\ y >= bits -> Ret(c, V(a.lt, <<Garbage>>))
         [] Garbage \notin {x, y} /\ Traps(op, bits, x, y) -> Undefined(c)
         [] OTHER -> Ret(c, IntV(a.lt, Arithmetic(op, bits, x, y)))

Holds(pred, a, b) ==
  CASE pred = "eq"  -> a = b
    [] pred = "ne"  -> a # b
    [] pred = "slt" -> a < b
    [] pred = "sle" -> a <= b
    [] pred = "sgt" -> a > b
    [] pred = "sge" -> a >= b

NewICmp(c, pred, a, b) ==
  IF ~SameInts(a, b) THEN Panic(c)
  ELSE LET n(v) == SignedOf(v.words[1], Bits[a.lt[1]]) IN
       Ret(c, IF Garbage \in {a.words[1], b.words[1]} THEN V(<<"i1">>, <<Garbage>>)
              ELSE IntV(<<"i1">>, IF Holds(pred, n(a), n(b)) THEN 1 ELSE 0))

\* sext and trunc
NewResize(c, v, lt) ==
  IF ~IsInt(v.lt) THEN Panic(c)
  ELSE Ret(c, IF v.words[1] = Garbage THEN V(lt, v.words)
              ELSE IntV(lt, SignedOf(v.words[1], Bits[v.lt[1]])))
=============================================================================
