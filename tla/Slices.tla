------------------------------- MODULE Slices -------------------------------
(***************************************************************************)
(* Slices at run time: what the code emitted by slice.go, array.go and     *)
(* types/type.go does with the {len, cap, offset, backing} headers and the *)
(* arrays behind them.                                                     *)
(*                                                                         *)
(* The program has one array variable `a' and some places that hold        *)
(* slices.  A place is a named variable, or a struct field or an element,  *)
(* which the compiler reaches through an unnamed pointer, or a variable    *)
(* made by w := a[i:j], which holds a pointer to a header and not a        *)
(* header: those can be indexed, measured and assigned to each other, and  *)
(* do not compile as the argument of append or cap.                        *)
(*                                                                         *)
(* Sizes are in bytes or any other unit.  The compiler counts an item with *)
(* Size(), and in append with the Size() of a slice whatever the item is;  *)
(* LLVM lays items out at a stride of its own, which may be larger.        *)
(***************************************************************************)
EXTENDS Integers, Sequences, SequencesExt

CONSTANTS
  Vars,          \* named slice variables
  Fields,        \* slices in structs, arrays and slices
  Windows,       \* variables made by w := a[i:j]
  Values,        \* the items programs store,
  Zero,          \*   the zero value among them,
  Garbage,       \*   and what malloc returns, which is none of them
  Literals,      \* the slice literals of programs, sequences of values
  ArrayForms,    \* the ways `a' is made,
  ArrayLen,      \*   and its length
  WindowBounds,  \* <<i, j>> of the w := a[i:j] of programs
  AppendBounds,  \* <<i, j>> of their append(a[i:j], item)
  Indexes,       \* run-time indexes into `a' and slices,
  WindowIndexes, \*   and into windows
  ConstIndexes,  \* constant indexes into `a'
  Word,          \* number of values of an i32
  ItemSize,      \* Size() of the item type,
  Stride,        \*   the size LLVM gives it in an array,
  SliceSize,     \*   and Size() of the slice type
  MaxArrays,     \* bound: number of arrays
  MaxCap         \* bound: capacity of a slice

Places == Vars \cup Fields

\* The programs are legal Go: windows are within the array.
ASSUME DataAssumption ==
  /\ (Vars \cup Fields) \cap Windows = {}
  /\ Zero \in Values
  /\ Garbage \notin Values
  /\ Literals \subseteq Seq(Values)
  /\ ArrayForms \subseteq {"local", "literal", "global"} /\ ArrayForms # {}
  /\ ArrayLen \in Nat
  /\ \A b \in WindowBounds \cup AppendBounds :
       b \in Nat \X Nat /\ b[1] <= b[2] /\ b[2] <= ArrayLen
  /\ Indexes \cup WindowIndexes \subseteq Int
  /\ ConstIndexes \subseteq Nat
  /\ MaxArrays \in Nat
  /\ MaxCap \in Nat

\* Nothing relates what the compiler counts to what LLVM takes.
ASSUME SizeAssumption ==
  /\ Stride \in Nat \ {0} /\ ItemSize \in Nat /\ SliceSize \in Nat
  /\ Word \in Nat \ {0}

VARIABLES
  mem,     \* the arrays, sequences of items; the first is `a'
  slices,  \* the header in each place that has been assigned
  status   \* "running"; "panicked"; "undefined": memory that is not the program's

vars == <<mem, slices, status>>

Slice(len, cap, offset, backing) ==
  [len |-> len, cap |-> cap, offset |-> offset, backing |-> backing]

Item == Values \cup {Garbage}

-----------------------------------------------------------------------------
(* Memory *)

\* malloc(bytes), as an array of items of which `items' are written.
Malloc(bytes, items) ==
  [k \in 1 .. bytes \div Stride |-> IF k \in DOMAIN items THEN items[k] ELSE Garbage]

Bind(p, s) ==
  slices' = [q \in DOMAIN slices \cup {p} |-> IF q = p THEN s ELSE slices[q]]

Undefined == status' = "undefined" /\ UNCHANGED <<mem, slices>>

Panic == status' = "panicked" /\ UNCHANGED <<mem, slices>>

Write(b, at, item) ==
  IF at < Len(mem[b])
    THEN mem' = [mem EXCEPT ![b][at + 1] = item] /\ UNCHANGED <<slices, status>>
    ELSE Undefined

-----------------------------------------------------------------------------
(* Making slices *)

\* "The cap must always be larger than 0"
InitialCap(n) == IF n < 2 THEN 2 ELSE n

\* var p []T, and p := []T{items}: the items are stored one by one.
MakeSlice(p, items) ==
  LET cap  == InitialCap(Len(items))
      room == cap * ItemSize
  IN  /\ status = "running"
      /\ Len(mem) < MaxArrays /\ cap <= MaxCap
      /\ IF Len(items) <= room \div Stride
           THEN /\ mem' = Append(mem, Malloc(room, items))
                /\ Bind(p, Slice(Len(items), cap, 0, Len(mem) + 1))
                /\ UNCHANGED status
           ELSE Undefined

\* Variant: the bounds swapped.
WindowSwapped(i, j) == Slice(i - j, j - i, i, 1)

\* a[i:j]: nothing compares i and j with each other or with the length of `a'.
Window(i, j) == Slice(j - i, j - i, i, 1)

MakeWindow(w, i, j) ==
  /\ status = "running"
  /\ Bind(w, Window(i, j))
  /\ UNCHANGED <<mem, status>>

\* p = q and p := q copy the header, or the pointer to one that never changes.
Assign(p, q) ==
  /\ status = "running"
  /\ Bind(p, slices[q])
  /\ UNCHANGED <<mem, status>>

-----------------------------------------------------------------------------
(* append *)

\* Variant: every append is taken to be to its own argument.
SameIdentAlways(p, q) == TRUE

\* The destination of the assignment is compared with the argument of append by
\* the name of its pointer; the unnamed ones all have the same name.
SameIdent(p, q) == p = q \/ (p \in Fields /\ q \in Fields)

\* Variant: a full slice is extended.
ShouldAppendToFull(s) == s.len <= s.cap

ShouldAppendToExisting(s) == s.len < s.cap

\* The item goes to backing[len], wherever the slice starts.
AppendToExisting(p, s, item) ==
  IF s.len < Len(mem[s.backing])
    THEN /\ mem' = [mem EXCEPT ![s.backing][s.len + 1] = item]
         /\ Bind(p, [s EXCEPT !.len = s.len + 1])
         /\ UNCHANGED status
    ELSE Undefined

TwiceCap(s) == 2 * s.cap

\* Variant: the copy loop stops one item early.
ItemsOfShortCopy(s, item) ==
  [k \in 1 .. s.len + 1 |->
     IF k < s.len THEN mem[s.backing][k] ELSE IF k = s.len THEN Garbage ELSE item]

\* The items of the old array from its start on, and the new one.  The copy
\* loop tests its index after the first item, so it copies one from an empty
\* slice, which the new item overwrites.
ItemsOfCopy(s, item) ==
  [k \in 1 .. s.len + 1 |-> IF k <= s.len THEN mem[s.backing][k] ELSE item]

Copied(s) == IF s.len = 0 THEN 1 ELSE s.len

\* Variant: the capacity is doubled, the memory is not.
SpaceOfOldCap(s) == s.cap * SliceSize

\* The memory for the new capacity, by the size of the slice.
GrownSpace(s) == TwiceCap(s) * SliceSize

CopyAndAppend(p, s, item) ==
  LET space == GrownSpace(s)
  IN  /\ Len(mem) < MaxArrays /\ TwiceCap(s) <= MaxCap
      /\ IF Copied(s) <= Len(mem[s.backing]) /\ s.len < space \div Stride
           THEN /\ mem' = Append(mem, Malloc(space, ItemsOfCopy(s, item)))
                /\ Bind(p, Slice(s.len + 1, TwiceCap(s), 0, Len(mem) + 1))
                /\ UNCHANGED status
           ELSE Undefined

\* p = append(q, item) and p := append(q, item)
AppendTo(p, q, item) ==
  /\ status = "running"
  /\ IF SameIdent(p, q) /\ ShouldAppendToExisting(slices[q])
       THEN AppendToExisting(p, slices[q], item)
       ELSE CopyAndAppend(p, slices[q], item)

\* p = append(a[i:j], item): the header of a[i:j] has no name either, but it is
\* full, so there is always a copy.
AppendToWindow(p, i, j, item) ==
  /\ status = "running"
  /\ CopyAndAppend(p, Window(i, j), item)

-----------------------------------------------------------------------------
(* Indexing *)

Trunc(k) == ((k + Word \div 2) % Word) - (Word \div 2)

\* The offset is added to the index and to the length before they are compared.
Position(s, k) == Trunc(k) + s.offset

OutOfRange(s, k) == Position(s, k) < 0 \/ Position(s, k) >= s.len + s.offset

\* v[k] = item, for a slice or a window.  A load computes its address in the same
\* way, and leaves the state alone.
Store(v, k, item) ==
  LET s == slices[v]
  IN  /\ status = "running"
      /\ IF OutOfRange(s, k) THEN Panic ELSE Write(s.backing, Position(s, k), item)

\* a[k] = item, with an index known at run time only
StoreInArray(k, item) ==
  /\ status = "running"
  /\ IF k < 0 \/ k >= ArrayLen THEN Panic ELSE Write(1, k, item)

\* The compiler refuses a constant index greater than the length.
AcceptedIndex(k) == ~(k > ArrayLen)

StoreAtConstant(k, item) ==
  /\ status = "running"
  /\ AcceptedIndex(k)
  /\ Write(1, k, item)

-----------------------------------------------------------------------------

\* The items of `a' at first.  The type of a local `var a [N]T' has no Len, so that
\* its Zero stores nothing; a literal [N]T{} and a variable of the package are zero.
FirstItem(form) == IF form = "local" THEN Garbage ELSE Zero

Init ==
  /\ \E form \in ArrayForms : mem = << [k \in 1 .. ArrayLen |-> FirstItem(form)] >>
  /\ slices = << >>
  /\ status = "running"

Next ==
  \/ \E p \in Places, items \in Literals \cup {<< >>} : MakeSlice(p, items)
  \/ \E w \in Windows, b \in WindowBounds : MakeWindow(w, b[1], b[2])
  \/ \E p \in Places, q \in Places \cap DOMAIN slices : Assign(p, q)
  \/ \E v \in Windows, w \in Windows \cap DOMAIN slices : Assign(v, w)
  \/ \E p \in Places, q \in Places \cap DOMAIN slices, item \in Values :
       AppendTo(p, q, item)
  \/ \E p \in Places, b \in AppendBounds, item \in Values :
       AppendToWindow(p, b[1], b[2], item)
  \/ \E p \in Places \cap DOMAIN slices, k \in Indexes, item \in Values : Store(p, k, item)
  \/ \E w \in Windows \cap DOMAIN slices, k \in WindowIndexes, item \in Values : Store(w, k, item)
  \/ \E k \in Indexes, item \in Values : StoreInArray(k, item)
  \/ \E k \in ConstIndexes, item \in Values : StoreAtConstant(k, item)

Spec == Init /\ [][Next]_vars

-----------------------------------------------------------------------------
(* Properties *)

Headers == [len : Nat, cap : Nat, offset : Nat, backing : 1 .. Len(mem)]

\* The types of the state.
TypeOK ==
  /\ mem \in Seq(Seq(Item)) /\ Len(mem) >= 1
  /\ DOMAIN slices \subseteq Places \cup Windows
  /\ \A p \in DOMAIN slices : slices[p] \in Headers
  /\ status \in {"running", "panicked", "undefined"}

\* What the compiler counts at least for an item that takes Stride: SliceZero its
\* Size(), append that of a slice.
Counted == CHOOSE n \in {ItemSize, SliceSize, Stride} :
             n <= ItemSize /\ n <= SliceSize /\ n <= Stride

\* A header never promises more than there is: what it shows is in its array, a
\* window of `a' too (slice.go:93-139), and the array has the bytes that were counted
\* for the capacity, however often it was doubled (slice.go:255-258).  For items not
\* larger than they are counted for, that is room for as many items.
WellFormed ==
  \A p \in DOMAIN slices :
    LET s == slices[p]
    IN  /\ s.len <= s.cap
        /\ s.offset + s.len <= Len(mem[s.backing])
        /\ (s.offset + s.cap) * Counted < (Len(mem[s.backing]) + 1) * Stride
        /\ p \in Places => s.cap > 0 /\ s.offset = 0

\* No sequence of declarations, assignments, appends and indexing reaches memory
\* outside the arrays of the program (array.go:158-175, slice.go:220-336).
InBounds == status # "undefined"

\* An append to s stores more than was counted for: for the capacity it has room in,
\* or for twice that, which is nothing for an empty window.
TooMuch(s) ==
  \/ s.len < s.cap /\ (s.len + 1) * Stride > s.cap * Counted
  \/ (s.len + 1) * Stride > TwiceCap(s) * SliceSize

\* Memory outside the arrays is reached in three ways only, whatever the sizes: by
\* literals and appends of items larger than was counted for them, by an append to an
\* empty window (slice.go:255-258), and by a constant index equal to the length
\* (array.go:157).  A store that is checked at run time never gets there.
Overruns ==
  [][status' = "undefined" =>
       /\ \A p \in Places, items \in Literals \cup {<< >>} :
            MakeSlice(p, items) =>
              Len(items) * Stride > InitialCap(Len(items)) * ItemSize
       /\ \A p \in Places, q \in Places \cap DOMAIN slices, item \in Values :
            AppendTo(p, q, item) => TooMuch(slices[q])
       /\ \A p \in Places, b \in AppendBounds, item \in Values :
            AppendToWindow(p, b[1], b[2], item) => TooMuch(Window(b[1], b[2]))
       /\ \A v \in DOMAIN slices, k \in Indexes \cup WindowIndexes, item \in Values :
            ~Store(v, k, item)
       /\ \A k \in Indexes, item \in Values : ~StoreInArray(k, item)
       /\ \A k \in ConstIndexes, item \in Values :
            StoreAtConstant(k, item) => k = ArrayLen]_vars

\* "Set to zero values" (alloc.go:62), and what a slice shows was stored there: no
\* slice ever shows what malloc left (slice.go:257-258), an item of the old array
\* that was not copied (slice.go:280-292), or an array that was not set to zero.
Initialised ==
  \A p \in DOMAIN slices :
    LET s == slices[p]
    IN  \A k \in 1 .. s.len : mem[s.backing][s.offset + k] \in Values

\* The items the slice in v shows.
Shown(v) ==
  SubSeq(mem[slices[v].backing], slices[v].offset + 1, slices[v].offset + slices[v].len)

\* "Copy all data", "Reset the offset" (slice.go:144-145): the result of
\* append(a[i:j], item) shows the items of the window and then the new one.
AppendShows ==
  [][\A p \in Places, b \in AppendBounds, item \in Values :
       AppendToWindow(p, b[1], b[2], item) /\ status' = "running" =>
         Shown(p)' = Append(SubSeq(mem[1], b[1] + 1, b[2]), item)]_vars

\* "If not [assigning to itself]: The whole slice + backing array has to be
\* copied before it can be altered" (slice.go:154-156).
CopiedBeforeAltered ==
  [][\A p \in Places, q \in Places \cap DOMAIN slices, item \in Values :
       AppendTo(p, q, item) /\ p # q =>
         \A b \in DOMAIN mem : mem'[b] = mem[b]]_vars

View(s) == [array |-> s.backing, offset |-> s.offset, len |-> s.len]

\* A program that has left its memory has stopped, as far as GoSlices goes: nothing is
\* promised of what it does then.
Outcome == IF status = "undefined" THEN "running" ELSE status

Go ==
  INSTANCE GoSlices WITH
    Vars     <- Places \cup Windows,
    Literals <- Literals \cup {<< >>},
    Indexes  <- Indexes \cup WindowIndexes \cup ConstIndexes,
    arrays   <- mem,
    slices   <- [p \in DOMAIN slices |-> View(slices[p])],
    status   <- Outcome

\* The emitted code implements slices as GoSlices describes them, as long as the program
\* does not leave its memory: every variable shows what the Go program's would, an append
\* that is not to its own argument leaves all others alone, and an index outside panics
\* (slice.go, array.go).
GoView == Go!Spec

=============================================================================
