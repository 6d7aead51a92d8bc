---------------------------- MODULE SlicesProofs ----------------------------
(***************************************************************************)
(* The invariants of Slices, for arrays, slices, items and programs of any *)
(* size.                                                                   *)
(***************************************************************************)
EXTENDS Slices, TLAPS

\* append(a[i:i], item) has nothing to double.
NonemptyAppends == \A b \in AppendBounds : b[1] < b[2]

\* The compiler lets one constant index too many pass.
IndexesInside == ArrayLen \notin ConstIndexes

\* Items are not larger than the compiler counts for them: numbers, strings, pointers
\* and structs of at most 20 bytes without gaps; not interfaces, nor slices.
ItemsFit == Stride <= ItemSize /\ Stride <= SliceSize

\* `a' is not declared by a var statement in a function.
Zeroed == "local" \notin ArrayForms

-----------------------------------------------------------------------------
(* The invariant *)

\* The arrays, `a' being the first; `a' is never without values, if it is set to zero.
Memory(m) ==
  /\ m \in Seq(Seq(Item)) /\ Len(m) >= 1
  /\ Len(m[1]) = ArrayLen
  /\ Zeroed => \A k \in 1 .. ArrayLen : m[1][k] \in Values

\* An array of len items has the bytes counted for capacity cap.
Holds(len, cap) == cap * Counted < (len + 1) * Stride

\* Header s fits the arrays m, and what it shows was stored.
Fits(m, s) ==
  /\ s \in [len : Nat, cap : Nat, offset : Nat, backing : 1 .. Len(m)]
  /\ s.len <= s.cap
  /\ s.offset + s.len <= Len(m[s.backing])
  /\ Holds(Len(m[s.backing]), s.offset + s.cap)
  /\ Zeroed => \A k \in 1 .. s.len : m[s.backing][s.offset + k] \in Values

\* Only windows start behind the start of their array or have no room at all.
FitsPlace(p, s) == p \in Places => s.cap > 0 /\ s.offset = 0

IInv ==
  /\ Memory(mem)
  /\ DOMAIN slices \subseteq Places \cup Windows
  /\ \A p \in DOMAIN slices : Fits(mem, slices[p]) /\ FitsPlace(p, slices[p])
  /\ status \in {"running", "panicked", "undefined"}

\* Arrays stay, with their lengths, and a cell that holds a value keeps one.
Grows(m, n) ==
  /\ Len(m) <= Len(n)
  /\ \A b \in 1 .. Len(m) :
       /\ Len(n[b]) = Len(m[b])
       /\ \A k \in 1 .. Len(m[b]) : m[b][k] \in Values => n[b][k] \in Values

\* The invariant says what the properties say.
LEMMA IInvImplies == IInv => TypeOK /\ WellFormed /\ (Zeroed => Initialised)
  BY DEF IInv, Memory, Fits, Holds, FitsPlace, TypeOK, WellFormed, Initialised, Headers

-----------------------------------------------------------------------------
(* Memory *)

\* The least of the three sizes.
LEMMA CountedType ==
  Counted \in Nat /\ Counted <= ItemSize /\ Counted <= SliceSize /\ Counted <= Stride
PROOF
  <1>1. \E n \in {ItemSize, SliceSize, Stride} : n <= ItemSize /\ n <= SliceSize /\ n <= Stride
    BY SizeAssumption
  <1>2. /\ Counted \in {ItemSize, SliceSize, Stride}
        /\ Counted <= ItemSize /\ Counted <= SliceSize /\ Counted <= Stride
    BY <1>1 DEF Counted
  <1> QED
    BY <1>2, SizeAssumption

\* The items in a number of bytes.
LEMMA Division ==
  ASSUME NEW bytes \in Nat
  PROVE  /\ bytes \div Stride \in Nat
         /\ bytes < (bytes \div Stride + 1) * Stride
         /\ \A n \in Nat : n > bytes \div Stride => n * Stride > bytes
PROOF
  <1>1. Stride \in Nat /\ Stride > 0
    BY SizeAssumption
  <1> DEFINE q == bytes \div Stride
  <1>2. q \in Nat /\ bytes < Stride * (q + 1)
    BY <1>1
  <1> HIDE DEF q
  <1>3. bytes < (q + 1) * Stride
    BY <1>1, <1>2
  <1>4. ASSUME NEW n \in Nat, n > q PROVE n * Stride > bytes
    <2>1. q + 1 <= n
      BY <1>2, <1>4
    <2>2. (q + 1) * Stride <= n * Stride
      BY <1>1, <1>2, <2>1
    <2> QED
      BY <1>1, <1>2, <1>3, <2>2
  <1> QED
    BY <1>2, <1>3, <1>4 DEF q

\* malloc(n * size) holds what is counted for n items.
LEMMA Room ==
  ASSUME NEW n \in Nat, NEW size \in Nat, Counted <= size
  PROVE  n * size \in Nat /\ Holds((n * size) \div Stride, n)
PROOF
  <1>1. Counted \in Nat /\ n * size \in Nat /\ n * Counted \in Nat
    BY CountedType
  <1>2. n * Counted <= n * size
    BY <1>1
  <1>3. n * size < ((n * size) \div Stride + 1) * Stride /\ (n * size) \div Stride \in Nat
    BY <1>1, Division
  <1> DEFINE q == (n * size) \div Stride
  <1> HIDE DEF q
  <1>4. (q + 1) * Stride \in Nat
    BY <1>3, SizeAssumption DEF q
  <1>5. n * Counted < (q + 1) * Stride
    BY <1>1, <1>2, <1>3, <1>4 DEF q
  <1> QED
    BY <1>1, <1>5 DEF Holds, q

\* What malloc returns, with the items written to it.
LEMMA MallocType ==
  ASSUME NEW bytes \in Nat, NEW n \in Nat, NEW items, DOMAIN items = 1 .. n,
         \A k \in 1 .. n : items[k] \in Item,
         bytes \div Stride \in Nat, n <= bytes \div Stride
  PROVE  /\ Malloc(bytes, items) \in Seq(Item)
         /\ Len(Malloc(bytes, items)) = bytes \div Stride
         /\ \A k \in 1 .. n : Malloc(bytes, items)[k] = items[k]
  BY DEF Malloc, Item

\* A header fits the arrays of a later state too.
LEMMA StillFits ==
  ASSUME NEW m, NEW n, Memory(m), Memory(n), Grows(m, n), NEW s, Fits(m, s)
  PROVE  Fits(n, s)
PROOF
  <1>1. s.backing \in 1 .. Len(m) /\ s.len \in Nat /\ s.cap \in Nat /\ s.offset \in Nat
    BY DEF Fits
  <1>2. Len(m) \in Nat /\ Len(n) \in Nat /\ Len(m) <= Len(n)
    BY DEF Memory, Grows
  <1>3. s \in [len : Nat, cap : Nat, offset : Nat, backing : 1 .. Len(n)]
    BY <1>1, <1>2 DEF Fits
  <1>4. Len(n[s.backing]) = Len(m[s.backing]) /\ Len(m[s.backing]) \in Nat
    <2>1. m \in Seq(Seq(Item))
      BY DEF Memory
    <2>2. m[s.backing] \in Seq(Item)
      BY <1>1, <2>1
    <2>3. Len(n[s.backing]) = Len(m[s.backing])
      BY <1>1 DEF Grows
    <2> QED
      BY <2>2, <2>3
  <1>5. ASSUME Zeroed, NEW k \in 1 .. s.len PROVE n[s.backing][s.offset + k] \in Values
    <2>1. s.offset + k \in 1 .. Len(m[s.backing])
      BY <1>1, <1>4 DEF Fits
    <2> QED
      BY <1>1, <1>5, <2>1 DEF Fits, Grows
  <1> QED
    BY <1>1, <1>3, <1>4, <1>5 DEF Fits

\* A step that binds one place to a header that fits keeps the invariant.
LEMMA BindKeeps ==
  ASSUME IInv, Memory(mem'), Grows(mem, mem'),
         NEW p \in Places \cup Windows, NEW s, Bind(p, s),
         Fits(mem', s), FitsPlace(p, s), UNCHANGED status
  PROVE  IInv'
PROOF
  <1>1. DOMAIN slices' = DOMAIN slices \cup {p}
    BY DEF Bind
  <1>2. ASSUME NEW q \in DOMAIN slices'
        PROVE  Fits(mem', slices'[q]) /\ FitsPlace(q, slices'[q])
    <2>1. CASE q = p
      BY <2>1, <1>1 DEF Bind
    <2>2. CASE q # p
      <3>1. q \in DOMAIN slices /\ slices'[q] = slices[q]
        BY <1>1, <2>2 DEF Bind
      <3>2. Fits(mem, slices[q]) /\ FitsPlace(q, slices[q])
        BY <3>1 DEF IInv
      <3>3. Memory(mem)
        BY DEF IInv
      <3> QED
        BY <3>1, <3>2, <3>3, StillFits
    <2> QED
      BY <2>1, <2>2
  <1>3. DOMAIN slices' \subseteq Places \cup Windows
    BY <1>1 DEF IInv
  <1> QED
    BY <1>2, <1>3 DEF IInv, Memory, Fits, FitsPlace

\* So does one that leaves the headers alone.
LEMMA ArraysKeep ==
  ASSUME IInv, Memory(mem'), Grows(mem, mem'), UNCHANGED <<slices, status>>
  PROVE  IInv'
PROOF
  <1>1. ASSUME NEW q \in DOMAIN slices'
        PROVE  Fits(mem', slices'[q]) /\ FitsPlace(q, slices'[q])
    <2>1. Fits(mem, slices[q]) /\ FitsPlace(q, slices[q]) /\ Memory(mem)
      BY DEF IInv
    <2> QED
      BY <2>1, StillFits
  <1> QED
    BY <1>1 DEF IInv, Memory, Fits, FitsPlace

-----------------------------------------------------------------------------
(* The steps *)

\* A new array keeps the others.
LEMMA NewArray ==
  ASSUME Memory(mem), NEW block \in Seq(Item), mem' = Append(mem, block)
  PROVE  /\ Memory(mem')
         /\ Grows(mem, mem')
         /\ Len(mem') = Len(mem) + 1
         /\ mem'[Len(mem) + 1] = block
PROOF
  <1>1. mem \in Seq(Seq(Item)) /\ Len(mem) \in Nat /\ Len(mem) >= 1
    BY DEF Memory
  <1>2. mem' \in Seq(Seq(Item)) /\ Len(mem') = Len(mem) + 1
    BY <1>1
  <1>3. \A b \in 1 .. Len(mem) : mem'[b] = mem[b]
    BY <1>1
  <1>4. mem'[Len(mem) + 1] = block
    BY <1>1
  <1>5. Memory(mem')
    BY <1>1, <1>2, <1>3 DEF Memory
  <1>6. Grows(mem, mem')
    BY <1>1, <1>2, <1>3 DEF Grows
  <1> QED
    BY <1>2, <1>4, <1>5, <1>6

\* A value written into an array leaves all arrays in place.
LEMMA ItemWritten ==
  ASSUME Memory(mem), NEW b \in 1 .. Len(mem), NEW k \in 1 .. Len(mem[b]), NEW item \in Values,
         mem' = [mem EXCEPT ![b][k] = item]
  PROVE  /\ Memory(mem')
         /\ Grows(mem, mem')
         /\ Len(mem') = Len(mem)
         /\ mem'[b][k] = item
PROOF
  <1>1. mem \in Seq(Seq(Item)) /\ Len(mem) \in Nat /\ Len(mem) >= 1
    BY DEF Memory
  <1>2. mem[b] \in Seq(Item) /\ item \in Item
    BY <1>1 DEF Item
  <1>3. [mem[b] EXCEPT ![k] = item] \in Seq(Item) /\ Len([mem[b] EXCEPT ![k] = item]) = Len(mem[b])
    BY <1>2
  <1>4. mem' = [mem EXCEPT ![b] = [mem[b] EXCEPT ![k] = item]]
    BY <1>1
  <1>5. mem' \in Seq(Seq(Item)) /\ Len(mem') = Len(mem)
    BY <1>1, <1>3, <1>4
  <1>6. \A c \in 1 .. Len(mem) : Len(mem'[c]) = Len(mem[c])
    BY <1>1, <1>3, <1>4
  <1>7. \A c \in 1 .. Len(mem) : \A j \in 1 .. Len(mem[c]) :
          mem'[c][j] = IF c = b /\ j = k THEN item ELSE mem[c][j]
    BY <1>1, <1>2, <1>4
  <1>8. Memory(mem')
    BY <1>1, <1>5, <1>6, <1>7 DEF Memory
  <1>9. Grows(mem, mem')
    BY <1>1, <1>5, <1>6, <1>7 DEF Grows
  <1> QED
    BY <1>5, <1>7, <1>8, <1>9

\* A store into an array keeps the invariant.
LEMMA WriteStep ==
  ASSUME IInv, NEW b \in 1 .. Len(mem), NEW at \in Nat, at < Len(mem[b]), NEW item \in Values,
         Write(b, at, item)
  PROVE  IInv'
PROOF
  <1>1. mem \in Seq(Seq(Item)) /\ Memory(mem)
    BY DEF IInv, Memory
  <1>2. at + 1 \in 1 .. Len(mem[b])
    BY <1>1
  <1>3. mem' = [mem EXCEPT ![b][at + 1] = item] /\ UNCHANGED <<slices, status>>
    BY DEF Write
  <1>4. Memory(mem') /\ Grows(mem, mem')
    BY <1>1, <1>2, <1>3, ItemWritten
  <1> QED
    BY <1>3, <1>4, ArraysKeep

\* A panic only stops the program, and so does leaving the arrays.
LEMMA StopStep == IInv /\ (Panic \/ Undefined) => IInv'
  BY DEF IInv, Panic, Undefined, Memory, Fits, FitsPlace

\* A new slice has an array of its own that starts with its items, if they fit it.
LEMMA MakeSliceEffect ==
  ASSUME Memory(mem), NEW p \in Places, NEW items \in Seq(Values), MakeSlice(p, items),
         ~Undefined
  PROVE  \E cap \in Nat, block \in Seq(Item) :
           /\ cap > 0 /\ Len(items) <= cap
           /\ Len(items) <= Len(block) /\ Holds(Len(block), cap)
           /\ \A k \in 1 .. Len(items) : block[k] = items[k]
           /\ mem' = Append(mem, block)
           /\ Bind(p, Slice(Len(items), cap, 0, Len(mem) + 1))
           /\ UNCHANGED status
PROOF
  <1> DEFINE cap == InitialCap(Len(items))
             room == cap * ItemSize
             s == Slice(Len(items), cap, 0, Len(mem) + 1)
  <1>1. Len(items) \in Nat /\ DOMAIN items = 1 .. Len(items)
        /\ \A k \in 1 .. Len(items) : items[k] \in Item
    BY DEF Item
  <1>2. cap \in Nat /\ cap > 0 /\ Len(items) <= cap
    BY <1>1 DEF InitialCap
  <1>3. /\ Len(items) <= room \div Stride
        /\ mem' = Append(mem, Malloc(room, items)) /\ Bind(p, s) /\ UNCHANGED status
    BY DEF MakeSlice
  <1>4. room \in Nat /\ room \div Stride \in Nat /\ Holds(room \div Stride, cap)
    <2>1. ItemSize \in Nat /\ Counted <= ItemSize
      BY SizeAssumption, CountedType
    <2> HIDE DEF cap
    <2>2. room \in Nat /\ Holds(room \div Stride, cap)
      BY <1>2, <2>1, Room
    <2> QED
      BY <2>2, Division
  <1>5. /\ Malloc(room, items) \in Seq(Item)
        /\ Len(Malloc(room, items)) = room \div Stride
        /\ \A k \in 1 .. Len(items) : Malloc(room, items)[k] = items[k]
    <2> HIDE DEF room
    <2> QED
      BY <1>1, <1>3, <1>4, MallocType
  <1> HIDE DEF cap, room
  <1> QED
    BY <1>2, <1>3, <1>4, <1>5

\* Hence making a slice keeps the invariant.
LEMMA MakeSliceStep ==
  ASSUME IInv, NEW p \in Places, NEW items \in Seq(Values), MakeSlice(p, items)
  PROVE  IInv'
PROOF
  <1> SUFFICES ASSUME ~Undefined PROVE IInv'
    BY StopStep
  <1>1. Memory(mem) /\ Len(mem) \in Nat
    BY DEF IInv, Memory
  <1>2. PICK cap \in Nat, block \in Seq(Item) :
           /\ cap > 0 /\ Len(items) <= cap
           /\ Len(items) <= Len(block) /\ Holds(Len(block), cap)
           /\ \A k \in 1 .. Len(items) : block[k] = items[k]
           /\ mem' = Append(mem, block)
           /\ Bind(p, Slice(Len(items), cap, 0, Len(mem) + 1))
           /\ UNCHANGED status
    BY <1>1, MakeSliceEffect
  <1> DEFINE s == Slice(Len(items), cap, 0, Len(mem) + 1)
  <1>3. /\ Memory(mem') /\ Grows(mem, mem') /\ Len(mem') = Len(mem) + 1
        /\ mem'[Len(mem) + 1] = block
    BY <1>1, <1>2, NewArray
  <1>4. Len(items) \in Nat /\ \A k \in 1 .. Len(items) : items[k] \in Values
    OBVIOUS
  <1>5. Fits(mem', s) /\ FitsPlace(p, s)
    BY <1>1, <1>2, <1>3, <1>4 DEF Slice, Fits, FitsPlace
  <1> HIDE DEF s
  <1> QED
    BY <1>2, <1>3, <1>5, BindKeeps DEF s

\* The windows of legal programs fit the array they are made of.
LEMMA WindowFits ==
  ASSUME Memory(mem), NEW b \in WindowBounds \cup AppendBounds
  PROVE  Fits(mem, Window(b[1], b[2]))
PROOF
  <1>1. b[1] \in Nat /\ b[2] \in Nat /\ b[1] <= b[2] /\ b[2] <= ArrayLen /\ ArrayLen \in Nat
    BY DataAssumption
  <1>2. /\ Len(mem) \in Nat /\ Len(mem) >= 1 /\ Len(mem[1]) = ArrayLen
        /\ Zeroed => \A k \in 1 .. ArrayLen : mem[1][k] \in Values
    BY DEF Memory
  <1>3. Holds(ArrayLen, b[2])
    <2>1. Counted \in Nat /\ Counted <= Stride /\ Stride \in Nat /\ Stride > 0
      BY CountedType, SizeAssumption
    <2>2. b[2] * Counted <= ArrayLen * Stride
      <3>1. b[2] * Counted <= ArrayLen * Counted
        BY <1>1, <2>1
      <3>2. ArrayLen * Counted <= ArrayLen * Stride
        BY <1>1, <2>1
      <3> QED
        BY <1>1, <2>1, <3>1, <3>2
    <2>3. (ArrayLen + 1) * Stride = ArrayLen * Stride + Stride
      BY <1>1, <2>1
    <2> QED
      BY <1>1, <2>1, <2>2, <2>3 DEF Holds
  <1> DEFINE s == Window(b[1], b[2])
  <1>4. /\ s \in [len : Nat, cap : Nat, offset : Nat, backing : 1 .. Len(mem)]
        /\ s.len = b[2] - b[1] /\ s.cap = s.len /\ s.offset = b[1] /\ s.backing = 1
    BY <1>1, <1>2 DEF Window, Slice
  <1> HIDE DEF s
  <1>5. s.offset + s.len = b[2] /\ s.offset + s.cap = b[2] /\ s.len \in Nat
    BY <1>1, <1>4
  <1>6. Zeroed => \A k \in 1 .. s.len : mem[s.backing][s.offset + k] \in Values
    BY <1>1, <1>2, <1>4, <1>5
  <1> QED
    BY <1>1, <1>2, <1>3, <1>4, <1>5, <1>6 DEF s, Fits

\* Making a window keeps the invariant.
LEMMA MakeWindowStep ==
  ASSUME IInv, NEW w \in Windows, NEW b \in WindowBounds, MakeWindow(w, b[1], b[2])
  PROVE  IInv'
PROOF
  <1>1. Memory(mem) /\ Memory(mem') /\ Grows(mem, mem') /\ mem' = mem
    BY DEF IInv, MakeWindow, Memory, Grows
  <1>2. Fits(mem', Window(b[1], b[2]))
    BY <1>1, WindowFits
  <1>3. FitsPlace(w, Window(b[1], b[2]))
    BY DataAssumption DEF FitsPlace, Places
  <1> QED
    BY <1>1, <1>2, <1>3, BindKeeps DEF MakeWindow

\* Copying a header keeps it: places get those of places, windows those of windows.
LEMMA AssignStep ==
  ASSUME IInv, NEW p, NEW q,
         \/ p \in Places /\ q \in Places \cap DOMAIN slices
         \/ p \in Windows /\ q \in Windows \cap DOMAIN slices,
         Assign(p, q)
  PROVE  IInv'
PROOF
  <1>1. Memory(mem) /\ Memory(mem') /\ Grows(mem, mem') /\ mem' = mem
    BY DEF IInv, Assign, Memory, Grows
  <1>2. Fits(mem', slices[q]) /\ FitsPlace(p, slices[q])
    BY <1>1, DataAssumption DEF IInv, FitsPlace, Places
  <1> QED
    BY <1>1, <1>2, BindKeeps DEF Assign

\* An append that copies: if the new memory has room for the item, the capacity is
\* not 0, and the array holds what is counted for it.
LEMMA CopyEffect ==
  ASSUME Memory(mem), NEW p \in Places, NEW s, Fits(mem, s), NEW item \in Values,
         CopyAndAppend(p, s, item), ~Undefined
  PROVE  \E cap \in Nat, block \in Seq(Item) :
           /\ s.len + 1 <= cap /\ s.len + 1 <= Len(block) /\ Holds(Len(block), cap)
           /\ s.len <= Len(mem[s.backing])
           /\ \A k \in 1 .. s.len : block[k] = mem[s.backing][k]
           /\ block[s.len + 1] = item
           /\ mem' = Append(mem, block)
           /\ Bind(p, Slice(s.len + 1, cap, 0, Len(mem) + 1))
           /\ UNCHANGED status
PROOF
  <1> DEFINE cap == TwiceCap(s)
             t == Slice(s.len + 1, cap, 0, Len(mem) + 1)
             space == GrownSpace(s)
             items == ItemsOfCopy(s, item)
  <1>1. Len(mem) \in Nat /\ Len(mem) >= 1 /\ mem \in Seq(Seq(Item))
    BY DEF Memory
  <1>2. /\ s.len \in Nat /\ s.cap \in Nat /\ s.offset \in Nat /\ s.len <= s.cap
        /\ s.backing \in 1 .. Len(mem) /\ mem[s.backing] \in Seq(Item)
        /\ Len(mem[s.backing]) \in Nat /\ s.offset + s.len <= Len(mem[s.backing])
    BY <1>1 DEF Fits
  <1>3. /\ s.len < space \div Stride
        /\ mem' = Append(mem, Malloc(space, items)) /\ Bind(p, t) /\ UNCHANGED status
    BY DEF CopyAndAppend
  <1>4. cap \in Nat /\ cap = 2 * s.cap /\ space = cap * SliceSize
    BY <1>2 DEF TwiceCap, GrownSpace
  <1>5. space \in Nat /\ space \div Stride \in Nat /\ Holds(space \div Stride, cap)
    <2>1. SliceSize \in Nat /\ Counted <= SliceSize
      BY SizeAssumption, CountedType
    <2> HIDE DEF cap, space
    <2>2. space \in Nat /\ Holds(space \div Stride, cap)
      BY <1>4, <2>1, Room
    <2> QED
      BY <2>2, Division
  <1>6. s.len + 1 <= cap
    <2>1. CASE s.cap = 0
      <3>1. space = 0
        BY <1>4, <2>1, SizeAssumption
      <3>2. space \div Stride = 0
        BY <3>1, SizeAssumption
      <3> QED
        BY <1>2, <1>3, <3>2
    <2>2. CASE s.cap # 0
      BY <1>2, <1>4, <2>2
    <2> QED
      BY <2>1, <2>2
  <1>7. /\ DOMAIN items = 1 .. s.len + 1
        /\ \A k \in 1 .. s.len + 1 : items[k] \in Item
        /\ \A k \in 1 .. s.len : items[k] = mem[s.backing][k]
        /\ items[s.len + 1] = item
    BY <1>2 DEF ItemsOfCopy, Item
  <1> HIDE DEF space, items, cap
  <1>8. s.len + 1 \in Nat /\ s.len + 1 <= space \div Stride
    BY <1>2, <1>3, <1>5
  <1>9. /\ Malloc(space, items) \in Seq(Item)
        /\ Len(Malloc(space, items)) = space \div Stride
        /\ \A k \in 1 .. s.len + 1 : Malloc(space, items)[k] = items[k]
    BY <1>5, <1>7, <1>8, MallocType
  <1>10. /\ \A k \in 1 .. s.len : Malloc(space, items)[k] = mem[s.backing][k]
         /\ Malloc(space, items)[s.len + 1] = item
    BY <1>2, <1>7, <1>9
  <1>11. s.len <= Len(mem[s.backing])
    BY <1>2
  <1> QED
    BY <1>3, <1>4, <1>5, <1>6, <1>8, <1>9, <1>10, <1>11

\* Hence an append that copies keeps the invariant.
LEMMA CopyStep ==
  ASSUME IInv, NEW p \in Places, NEW s, Fits(mem, s), NEW item \in Values,
         Zeroed => \A k \in 1 .. s.len : mem[s.backing][k] \in Values,
         CopyAndAppend(p, s, item)
  PROVE  IInv'
PROOF
  <1> SUFFICES ASSUME ~Undefined PROVE IInv'
    BY StopStep
  <1>1. Memory(mem) /\ Len(mem) \in Nat
    BY DEF IInv, Memory
  <1>2. PICK cap \in Nat, block \in Seq(Item) :
           /\ s.len + 1 <= cap /\ s.len + 1 <= Len(block) /\ Holds(Len(block), cap)
           /\ s.len <= Len(mem[s.backing])
           /\ \A k \in 1 .. s.len : block[k] = mem[s.backing][k]
           /\ block[s.len + 1] = item
           /\ mem' = Append(mem, block)
           /\ Bind(p, Slice(s.len + 1, cap, 0, Len(mem) + 1))
           /\ UNCHANGED status
    BY <1>1, CopyEffect
  <1> DEFINE t == Slice(s.len + 1, cap, 0, Len(mem) + 1)
  <1>3. /\ Memory(mem') /\ Grows(mem, mem') /\ Len(mem') = Len(mem) + 1
        /\ mem'[Len(mem) + 1] = block
    BY <1>1, <1>2, NewArray
  <1>4. s.len \in Nat
    BY DEF Fits
  <1>5. ASSUME Zeroed, NEW k \in 1 .. s.len + 1 PROVE block[k] \in Values
    <2>1. k \in 1 .. s.len \/ k = s.len + 1
      BY <1>4
    <2> QED
      BY <1>2, <1>5, <2>1
  <1>6. Fits(mem', t) /\ FitsPlace(p, t)
    BY <1>1, <1>2, <1>3, <1>4, <1>5 DEF Slice, Fits, FitsPlace
  <1> HIDE DEF t
  <1> QED
    BY <1>2, <1>3, <1>6, BindKeeps DEF t

\* An append in place, where the array has room: the slice starts at its array and
\* is not full.
LEMMA ExistingEffect ==
  ASSUME IInv, NEW p \in Places, NEW q \in Places \cap DOMAIN slices, NEW item \in Values,
         ShouldAppendToExisting(slices[q]), AppendToExisting(p, slices[q], item), ~Undefined
  PROVE  /\ slices[q].len \in Nat /\ slices[q].offset = 0
         /\ slices[q].backing \in 1 .. Len(mem)
         /\ slices[q].len < slices[q].cap
         /\ slices[q].len + 1 \in 1 .. Len(mem[slices[q].backing])
         /\ mem' = [mem EXCEPT ![slices[q].backing][slices[q].len + 1] = item]
         /\ Bind(p, [slices[q] EXCEPT !.len = slices[q].len + 1])
         /\ UNCHANGED status
PROOF
  <1> DEFINE s == slices[q]
  <1>1. Memory(mem) /\ Len(mem) \in Nat /\ mem \in Seq(Seq(Item))
    BY DEF IInv, Memory
  <1>2. Fits(mem, s) /\ s.cap > 0 /\ s.offset = 0
    BY DEF IInv, FitsPlace
  <1>3. s.len < s.cap
    BY DEF ShouldAppendToExisting
  <1>4. AppendToExisting(p, s, item)
    OBVIOUS
  <1> HIDE DEF s
  <1>5. /\ s.len \in Nat /\ s.cap \in Nat /\ s.backing \in 1 .. Len(mem)
        /\ Len(mem[s.backing]) \in Nat
    BY <1>1, <1>2 DEF Fits
  <1>6. s.len < Len(mem[s.backing])
        /\ mem' = [mem EXCEPT ![s.backing][s.len + 1] = item]
        /\ Bind(p, [s EXCEPT !.len = s.len + 1])
        /\ UNCHANGED status
    BY <1>4 DEF AppendToExisting
  <1>7. s.len + 1 \in 1 .. Len(mem[s.backing])
    BY <1>5, <1>6
  <1> QED
    BY <1>2, <1>3, <1>5, <1>6, <1>7 DEF s

\* Hence an append in place keeps it.
LEMMA ExistingStep ==
  ASSUME IInv, NEW p \in Places, NEW q \in Places \cap DOMAIN slices, NEW item \in Values,
         ShouldAppendToExisting(slices[q]), AppendToExisting(p, slices[q], item)
  PROVE  IInv'
PROOF
  <1> SUFFICES ASSUME ~Undefined PROVE IInv'
    BY StopStep
  <1> DEFINE s == slices[q]
             b == s.backing
             k == s.len + 1
             t == [s EXCEPT !.len = k]
  <1>1. Memory(mem) /\ Fits(mem, s) /\ Len(mem) \in Nat
    BY DEF IInv, Memory
  <1>2. /\ s.len \in Nat /\ s.offset = 0 /\ b \in 1 .. Len(mem) /\ s.len < s.cap
        /\ k \in 1 .. Len(mem[b])
        /\ mem' = [mem EXCEPT ![b][k] = item]
        /\ Bind(p, t) /\ UNCHANGED status
    BY ExistingEffect
  <1> HIDE DEF s
  <1>3. /\ t \in [len : Nat, cap : Nat, offset : Nat, backing : 1 .. Len(mem)]
        /\ t.len = k /\ t.cap = s.cap /\ t.offset = 0 /\ t.backing = b
    <2>1. s \in [len : Nat, cap : Nat, offset : Nat, backing : 1 .. Len(mem)]
      BY <1>1 DEF Fits
    <2>2. k \in Nat
      BY <1>2
    <2> HIDE DEF k
    <2> QED
      BY <1>2, <2>1, <2>2
  <1> HIDE DEF t
  <1>4. Memory(mem') /\ Grows(mem, mem') /\ Len(mem') = Len(mem) /\ mem'[b][k] = item
        /\ Len(mem'[b]) = Len(mem[b])
    <2> HIDE DEF b, k
    <2> QED
      BY <1>1, <1>2, ItemWritten DEF Grows
  <1>5. Fits(mem', s)
    BY <1>1, <1>4, StillFits
  <1>6. Zeroed => \A j \in 1 .. t.len : mem'[t.backing][t.offset + j] \in Values
    BY <1>2, <1>3, <1>4, <1>5 DEF Fits
  <1>7. t.len <= t.cap /\ t.offset + t.len <= Len(mem'[t.backing])
        /\ Holds(Len(mem'[t.backing]), t.offset + t.cap)
    BY <1>1, <1>2, <1>3, <1>4, <1>5 DEF Fits
  <1>8. Fits(mem', t) /\ FitsPlace(p, t)
    BY <1>2, <1>3, <1>4, <1>5, <1>6, <1>7 DEF Fits, FitsPlace
  <1> QED
    BY <1>2, <1>4, <1>8, BindKeeps

\* Either way, append keeps it.
LEMMA AppendToStep ==
  ASSUME IInv, NEW p \in Places, NEW q \in Places \cap DOMAIN slices, NEW item \in Values,
         AppendTo(p, q, item)
  PROVE  IInv'
PROOF
  <1>1. CASE SameIdent(p, q) /\ ShouldAppendToExisting(slices[q])
    BY <1>1, ExistingStep DEF AppendTo
  <1>2. CASE ~(SameIdent(p, q) /\ ShouldAppendToExisting(slices[q]))
    <2> DEFINE s == slices[q]
    <2>1. Fits(mem, s) /\ s.cap > 0 /\ s.offset = 0
      BY DEF IInv, FitsPlace
    <2>2. CopyAndAppend(p, s, item) /\ status = "running"
      BY <1>2 DEF AppendTo
    <2> HIDE DEF s
    <2>3. Zeroed => \A k \in 1 .. s.len : mem[s.backing][k] \in Values
      BY <2>1 DEF Fits
    <2> QED
      BY <2>1, <2>2, <2>3, CopyStep
  <1> QED
    BY <1>1, <1>2

\* A window starts anywhere in `a', but its copy starts at the start of `a'.
LEMMA AppendToWindowStep ==
  ASSUME IInv, NEW p \in Places, NEW b \in AppendBounds, NEW item \in Values,
         AppendToWindow(p, b[1], b[2], item)
  PROVE  IInv'
PROOF
  <1> DEFINE s == Window(b[1], b[2])
  <1>1. Memory(mem) /\ Fits(mem, s)
    BY WindowFits DEF IInv
  <1>2. /\ b[1] \in Nat /\ b[2] \in Nat /\ b[1] <= b[2] /\ b[2] <= ArrayLen /\ ArrayLen \in Nat
        /\ s.len = b[2] - b[1] /\ s.backing = 1
    BY DataAssumption DEF Window, Slice
  <1> HIDE DEF s
  <1>3. Zeroed => \A k \in 1 .. s.len : mem[s.backing][k] \in Values
    BY <1>1, <1>2 DEF Memory
  <1>4. CopyAndAppend(p, s, item) /\ status = "running"
    BY DEF AppendToWindow, s
  <1> QED
    BY <1>1, <1>3, <1>4, CopyStep

\* A truncated index is an integer.
LEMMA TruncType == \A k \in Int : Trunc(k) \in Int
  BY SizeAssumption DEF Trunc

\* An index that passes the check lies in the array, though perhaps not in the slice.
LEMMA StoreInside ==
  ASSUME IInv, NEW v \in DOMAIN slices, NEW k \in Int, ~OutOfRange(slices[v], k)
  PROVE  /\ slices[v].backing \in 1 .. Len(mem)
         /\ Position(slices[v], k) \in Nat
         /\ Position(slices[v], k) < Len(mem[slices[v].backing])
PROOF
  <1> DEFINE s == slices[v]
  <1>1. Fits(mem, s) /\ Memory(mem)
    BY DEF IInv
  <1>2. /\ s.len \in Nat /\ s.offset \in Nat /\ s.backing \in 1 .. Len(mem)
        /\ s.offset + s.len <= Len(mem[s.backing]) /\ Len(mem[s.backing]) \in Nat
    BY <1>1 DEF Fits, Memory
  <1> HIDE DEF s
  <1>3. Position(s, k) \in Int
    <2>1. Trunc(k) \in Int
      BY TruncType
    <2> QED
      BY <1>2, <2>1 DEF Position
  <1>4. ~(Position(s, k) < 0) /\ ~(Position(s, k) >= s.len + s.offset)
    BY DEF OutOfRange, s
  <1> QED
    BY <1>2, <1>3, <1>4 DEF s

\* So a store keeps the invariant.
LEMMA StoreStep ==
  ASSUME IInv, NEW v \in DOMAIN slices, NEW k \in Int, NEW item \in Values, Store(v, k, item)
  PROVE  IInv'
PROOF
  <1>1. CASE OutOfRange(slices[v], k)
    BY <1>1, StopStep DEF Store
  <1>2. CASE ~OutOfRange(slices[v], k)
    <2>1. Write(slices[v].backing, Position(slices[v], k), item)
      BY <1>2 DEF Store
    <2> QED
      BY <1>2, <2>1, StoreInside, WriteStep
  <1> QED
    BY <1>1, <1>2

\* So does an index into the array variable.
LEMMA ArrayStep ==
  ASSUME IInv, NEW k \in Int, NEW item \in Values,
         \/ StoreInArray(k, item)
         \/ k \in ConstIndexes /\ StoreAtConstant(k, item)
  PROVE  IInv'
PROOF
  <1>1. Len(mem[1]) = ArrayLen /\ ArrayLen \in Nat /\ 1 \in 1 .. Len(mem)
    BY DataAssumption DEF IInv, Memory
  <1>2. CASE Panic \/ Undefined
    BY <1>2, StopStep
  <1>3. CASE k \in Nat /\ k < ArrayLen /\ Write(1, k, item)
    BY <1>1, <1>3, WriteStep
  <1>4. StoreInArray(k, item) => Panic \/ (k \in Nat /\ k < ArrayLen /\ Write(1, k, item))
    BY <1>1 DEF StoreInArray
  <1>5. k \in ConstIndexes /\ StoreAtConstant(k, item)
          => Undefined \/ (k \in Nat /\ k < ArrayLen /\ Write(1, k, item))
    BY <1>1, DataAssumption DEF StoreAtConstant, Write
  <1> QED
    BY <1>2, <1>3, <1>4, <1>5

-----------------------------------------------------------------------------
(* The theorems *)

\* The invariant holds at the start.
LEMMA InitIInv == Init => IInv
PROOF
  <1> SUFFICES ASSUME Init PROVE IInv
    OBVIOUS
  <1>1. ArrayLen \in Nat /\ Zero \in Values
    BY DataAssumption
  <1>2. PICK form \in ArrayForms : mem = << [k \in 1 .. ArrayLen |-> FirstItem(form)] >>
    BY DEF Init
  <1> DEFINE a == [k \in 1 .. ArrayLen |-> FirstItem(form)]
  <1>3. FirstItem(form) \in Item /\ (Zeroed => FirstItem(form) \in Values)
    BY <1>1, <1>2 DEF FirstItem, Item, Zeroed
  <1>4. /\ a \in Seq(Item) /\ Len(a) = ArrayLen
        /\ Zeroed => \A k \in 1 .. ArrayLen : a[k] \in Values
    BY <1>1, <1>3
  <1>5. mem = <<a>>
    BY <1>2
  <1> HIDE DEF a
  <1>6. Memory(mem)
    BY <1>4, <1>5 DEF Memory
  <1>7. DOMAIN slices = {}
    BY DEF Init
  <1> QED
    BY <1>6, <1>7 DEF IInv, Init

\* Every step keeps it.
LEMMA NextIInv == IInv /\ [Next]_vars => IInv'
PROOF
  <1> SUFFICES ASSUME IInv, [Next]_vars PROVE IInv'
    OBVIOUS
  <1>1. CASE UNCHANGED vars
    BY <1>1 DEF IInv, vars, Memory, Fits, FitsPlace
  <1>2. ASSUME NEW p \in Places, NEW items \in Literals \cup {<< >>}, MakeSlice(p, items)
        PROVE  IInv'
    <2>1. << >> \in Seq(Values)
      OBVIOUS
    <2>2. items \in Seq(Values)
      BY <2>1, DataAssumption
    <2> QED
      BY <1>2, <2>2, MakeSliceStep
  <1>3. ASSUME NEW w \in Windows, NEW b \in WindowBounds, MakeWindow(w, b[1], b[2])
        PROVE  IInv'
    BY <1>3, MakeWindowStep
  <1>4. ASSUME NEW p \in Places, NEW q \in Places \cap DOMAIN slices, Assign(p, q)
        PROVE  IInv'
    BY <1>4, AssignStep
  <1>5. ASSUME NEW v \in Windows, NEW w \in Windows \cap DOMAIN slices, Assign(v, w)
        PROVE  IInv'
    BY <1>5, AssignStep
  <1>6. ASSUME NEW p \in Places, NEW q \in Places \cap DOMAIN slices, NEW item \in Values,
               AppendTo(p, q, item)
        PROVE  IInv'
    BY <1>6, AppendToStep
  <1>7. ASSUME NEW p \in Places, NEW b \in AppendBounds, NEW item \in Values,
               AppendToWindow(p, b[1], b[2], item)
        PROVE  IInv'
    BY <1>7, AppendToWindowStep
  <1>8. ASSUME NEW p \in DOMAIN slices, NEW k \in Indexes \cup WindowIndexes,
               NEW item \in Values, Store(p, k, item)
        PROVE  IInv'
    BY <1>8, StoreStep, DataAssumption
  <1>9. ASSUME NEW k \in Indexes, NEW item \in Values, StoreInArray(k, item)
        PROVE  IInv'
    BY <1>9, ArrayStep, DataAssumption
  <1>10. ASSUME NEW k \in ConstIndexes, NEW item \in Values, StoreAtConstant(k, item)
         PROVE  IInv'
    BY <1>10, ArrayStep, DataAssumption
  <1> QED
    BY <1>1, <1>2, <1>3, <1>4, <1>5, <1>6, <1>7, <1>8, <1>9, <1>10 DEF Next

\* The invariant holds of every behaviour.
THEOREM SlicesInvariant == Spec => []IInv
PROOF
  <1>1. Init => IInv
    BY InitIInv
  <1>2. IInv /\ [Next]_vars => IInv'
    BY NextIInv
  <1> QED
    BY <1>1, <1>2, PTL DEF Spec

\* The types of the state (slice.go, array.go, types/type.go), for all instances.
THEOREM TypeCorrect == Spec => []TypeOK
PROOF
  <1>1. IInv => TypeOK
    BY IInvImplies
  <1> QED
    BY <1>1, SlicesInvariant, PTL

\* Headers show no more than there is, and count no more than malloc was asked for,
\* whatever the sizes, however often capacities are doubled (slice.go:255-258) and
\* whatever is assigned to what.
THEOREM HeadersFit == Spec => []WellFormed
PROOF
  <1>1. IInv => WellFormed
    BY IInvImplies
  <1> QED
    BY <1>1, SlicesInvariant, PTL

\* In programs that set the array to zero, no slice shows what malloc left
\* (slice.go:257-292).
THEOREM ShowsStored ==
  ASSUME Zeroed
  PROVE  Spec => []Initialised
PROOF
  <1>1. IInv => Initialised
    BY IInvImplies
  <1> QED
    BY <1>1, SlicesInvariant, PTL

-----------------------------------------------------------------------------
(* Leaving the arrays *)

\* Items stored in the memory of n bytes run out of it only if they are larger.
LEMMA TooLarge ==
  ASSUME NEW n \in Nat, NEW bytes \in Nat, n > bytes \div Stride
  PROVE  n * Stride > bytes
  BY Division

\* A literal leaves its array by its length.
LEMMA MakeSliceUndefined ==
  ASSUME NEW p \in Places, NEW items \in Seq(Values), MakeSlice(p, items),
         status' = "undefined"
  PROVE  Len(items) * Stride > InitialCap(Len(items)) * ItemSize
PROOF
  <1> DEFINE room == InitialCap(Len(items)) * ItemSize
  <1>1. Len(items) \in Nat /\ room \in Nat
    BY SizeAssumption DEF InitialCap
  <1>2. ~(Len(items) <= room \div Stride)
    BY DEF MakeSlice
  <1> HIDE DEF room
  <1>3. Len(items) > room \div Stride
    BY <1>1, <1>2, Division
  <1> QED
    BY <1>1, <1>3, TooLarge DEF room

\* An append that copies leaves the new array, or the old one: the loop reads the
\* first item of an empty slice too, and there may be no memory for one.
LEMMA CopyUndefined ==
  ASSUME Memory(mem), NEW p, NEW s, Fits(mem, s), NEW item,
         CopyAndAppend(p, s, item), status = "running", status' = "undefined"
  PROVE  TooMuch(s)
PROOF
  <1> DEFINE space == GrownSpace(s)
  <1>1. /\ s.len \in Nat /\ s.cap \in Nat /\ s.offset \in Nat
        /\ Len(mem[s.backing]) \in Nat /\ s.offset + s.len <= Len(mem[s.backing])
        /\ Holds(Len(mem[s.backing]), s.offset + s.cap)
    BY DEF Memory, Fits
  <1>2. space = TwiceCap(s) * SliceSize /\ space \in Nat
    BY <1>1, SizeAssumption DEF TwiceCap, GrownSpace
  <1>3. ~(Copied(s) <= Len(mem[s.backing]) /\ s.len < space \div Stride)
    BY DEF CopyAndAppend
  <1> HIDE DEF space
  <1>4. CASE s.cap = 0
    <2>1. space = 0
      BY <1>2, <1>4, SizeAssumption DEF TwiceCap
    <2>2. (s.len + 1) * Stride > 0
      BY <1>1, SizeAssumption
    <2> QED
      BY <1>2, <2>1, <2>2 DEF TooMuch
  <1>5. CASE s.cap # 0 /\ Copied(s) <= Len(mem[s.backing])
    <2>1. s.len + 1 > space \div Stride
      <3>1. space \div Stride \in Nat
        BY <1>2, Division
      <3>2. ~(s.len < space \div Stride)
        BY <1>3, <1>5
      <3> QED
        BY <1>1, <3>1, <3>2
    <2>2. (s.len + 1) * Stride > space
      BY <1>1, <1>2, <2>1, TooLarge
    <2> QED
      BY <1>2, <2>2 DEF TooMuch
  <1>6. CASE s.cap # 0 /\ ~(Copied(s) <= Len(mem[s.backing]))
    <2>1. s.len = 0 /\ s.offset = 0 /\ Len(mem[s.backing]) = 0
      BY <1>1, <1>6 DEF Copied
    <2>2. s.cap * Counted < (s.len + 1) * Stride
      BY <1>1, <2>1 DEF Holds
    <2>3. s.cap * Counted \in Nat /\ (s.len + 1) * Stride \in Nat
      BY <1>1, CountedType, SizeAssumption
    <2> QED
      BY <1>1, <1>6, <2>1, <2>2, <2>3 DEF TooMuch
  <1> QED
    BY <1>4, <1>5, <1>6

\* An append in place leaves the array only where less was counted than it takes.
LEMMA ExistingUndefined ==
  ASSUME Memory(mem), NEW p, NEW s, Fits(mem, s), NEW item, ShouldAppendToExisting(s),
         AppendToExisting(p, s, item), status = "running", status' = "undefined"
  PROVE  TooMuch(s)
PROOF
  <1> DEFINE l == Len(mem[s.backing])
  <1>1. /\ s.len \in Nat /\ s.cap \in Nat /\ s.offset \in Nat /\ l \in Nat
        /\ s.offset + s.len <= l /\ Holds(l, s.offset + s.cap)
    BY DEF Memory, Fits
  <1>2. s.len < s.cap /\ l = s.len /\ s.offset = 0
    BY <1>1 DEF AppendToExisting, ShouldAppendToExisting
  <1> HIDE DEF l
  <1>3. s.cap * Counted < (s.len + 1) * Stride
    BY <1>1, <1>2 DEF Holds
  <1>4. s.cap * Counted \in Nat /\ (s.len + 1) * Stride \in Nat
    BY <1>1, CountedType, SizeAssumption
  <1> QED
    BY <1>2, <1>3, <1>4 DEF TooMuch

\* An append leaves the arrays in one of these two ways.
LEMMA AppendToUndefined ==
  ASSUME IInv, NEW p \in Places, NEW q \in Places \cap DOMAIN slices, NEW item \in Values,
         AppendTo(p, q, item), status' = "undefined"
  PROVE  TooMuch(slices[q])
PROOF
  <1>1. Memory(mem) /\ Fits(mem, slices[q])
    BY DEF IInv
  <1>2. status = "running"
    BY DEF AppendTo
  <1>3. CASE SameIdent(p, q) /\ ShouldAppendToExisting(slices[q])
    BY <1>1, <1>2, <1>3, ExistingUndefined DEF AppendTo
  <1>4. CASE ~(SameIdent(p, q) /\ ShouldAppendToExisting(slices[q]))
    BY <1>1, <1>2, <1>4, CopyUndefined DEF AppendTo
  <1> QED
    BY <1>3, <1>4

\* A store that is checked at run time does not.
LEMMA StoreDefined ==
  ASSUME IInv, NEW v \in DOMAIN slices, NEW k \in Int, NEW item \in Values,
         status' = "undefined"
  PROVE  ~Store(v, k, item)
PROOF
  <1> SUFFICES ASSUME Store(v, k, item) PROVE FALSE
    OBVIOUS
  <1>1. status = "running" /\ ~OutOfRange(slices[v], k)
    BY DEF Store, Panic
  <1>2. Write(slices[v].backing, Position(slices[v], k), item)
    BY <1>1 DEF Store
  <1>3. Position(slices[v], k) < Len(mem[slices[v].backing])
    BY <1>1, StoreInside
  <1> QED
    BY <1>1, <1>2, <1>3 DEF Write

\* An index into the array variable does by being its length.
LEMMA ArrayUndefined ==
  ASSUME IInv, NEW k \in Int, NEW item \in Values, status' = "undefined"
  PROVE  /\ ~StoreInArray(k, item)
         /\ k \in ConstIndexes /\ StoreAtConstant(k, item) => k = ArrayLen
PROOF
  <1>1. Len(mem[1]) = ArrayLen /\ ArrayLen \in Nat
    BY DataAssumption DEF IInv, Memory
  <1>2. ASSUME StoreInArray(k, item) PROVE FALSE
    BY <1>1, <1>2 DEF StoreInArray, Panic, Write
  <1>3. ASSUME k \in ConstIndexes, StoreAtConstant(k, item) PROVE k = ArrayLen
    BY <1>1, <1>3, DataAssumption DEF StoreAtConstant, AcceptedIndex, Write
  <1> QED
    BY <1>2, <1>3

\* The ways out of the arrays, for the states of the invariant.
OverrunsOnly ==
  status' = "undefined" =>
    /\ \A p \in Places, items \in Literals \cup {<< >>} :
         MakeSlice(p, items) =>
           Len(items) * Stride > InitialCap(Len(items)) * ItemSize
    /\ \A p \in Places, q \in Places \cap DOMAIN slices, item \in Values :
         AppendTo(p, q, item) => TooMuch(slices[q])
    /\ \A p \in Places, b \in AppendBounds, item \in Values :
         AppendToWindow(p, b[1], b[2], item) => TooMuch(Window(b[1], b[2]))
    /\ \A v \in DOMAIN slices, k \in Indexes \cup WindowIndexes, item \in Values :
         ~Store(v, k, item)
    /\ \A k \in Indexes, item \in Values : ~StoreInArray(k, item)
    /\ \A k \in ConstIndexes, item \in Values :
         StoreAtConstant(k, item) => k = ArrayLen

\* Every step of the invariant's states leaves the arrays in these ways only.
LEMMA OverrunsStep == IInv => OverrunsOnly
PROOF
  <1> SUFFICES ASSUME IInv, status' = "undefined" PROVE OverrunsOnly
    BY DEF OverrunsOnly
  <1>1. ASSUME NEW p \in Places, NEW items \in Literals \cup {<< >>}, MakeSlice(p, items)
        PROVE  Len(items) * Stride > InitialCap(Len(items)) * ItemSize
    <2>1. << >> \in Seq(Values)
      OBVIOUS
    <2>2. items \in Seq(Values)
      BY <2>1, DataAssumption
    <2> QED
      BY <1>1, <2>2, MakeSliceUndefined
  <1>2. ASSUME NEW p \in Places, NEW b \in AppendBounds, NEW item \in Values,
               AppendToWindow(p, b[1], b[2], item)
        PROVE  TooMuch(Window(b[1], b[2]))
    <2>1. Memory(mem) /\ Fits(mem, Window(b[1], b[2]))
      BY WindowFits DEF IInv
    <2>2. CopyAndAppend(p, Window(b[1], b[2]), item) /\ status = "running"
      BY <1>2 DEF AppendToWindow
    <2> QED
      BY <2>1, <2>2, CopyUndefined
  <1>3. ASSUME NEW v \in DOMAIN slices, NEW k \in Indexes \cup WindowIndexes,
               NEW item \in Values
        PROVE  ~Store(v, k, item)
    BY StoreDefined, DataAssumption
  <1>4. ASSUME NEW k \in Indexes, NEW item \in Values PROVE ~StoreInArray(k, item)
    BY ArrayUndefined, DataAssumption
  <1>5. ASSUME NEW k \in ConstIndexes, NEW item \in Values, StoreAtConstant(k, item)
        PROVE  k = ArrayLen
    BY <1>5, ArrayUndefined, DataAssumption
  <1> QED
    BY <1>1, <1>2, <1>3, <1>4, <1>5, AppendToUndefined DEF OverrunsOnly

\* Slices leave their arrays in three ways only, for items of any size: literals and
\* appends of items larger than was counted for them, appends to empty windows
\* (slice.go:255-258), and a constant index equal to the length (array.go:157).
THEOREM OnlyOverruns == Spec => Overruns
PROOF
  <1>1. IInv /\ [Next]_vars => [OverrunsOnly]_vars
    BY OverrunsStep
  <1>2. Spec => [][OverrunsOnly]_vars
    BY <1>1, SlicesInvariant, PTL DEF Spec
  <1> QED
    BY <1>2 DEF Overruns, OverrunsOnly

\* Items that fit what is counted for them are not too much, but for no capacity.
LEMMA Fitting ==
  ASSUME ItemsFit, NEW s, s.len \in Nat, s.cap \in Nat, s.len <= s.cap, s.cap > 0
  PROVE  ~TooMuch(s)
PROOF
  <1>1. Counted = Stride
    BY CountedType, SizeAssumption DEF ItemsFit, Counted
  <1>2. Stride \in Nat /\ SliceSize \in Nat /\ Stride <= SliceSize
    BY SizeAssumption DEF ItemsFit
  <1>3. ASSUME s.len < s.cap PROVE (s.len + 1) * Stride <= s.cap * Stride
    BY <1>2, <1>3
  <1>4. (s.len + 1) * Stride <= (2 * s.cap) * SliceSize
    <2>1. s.len + 1 \in Nat /\ 2 * s.cap \in Nat /\ s.len + 1 <= 2 * s.cap
      OBVIOUS
    <2>2. (s.len + 1) * Stride <= (2 * s.cap) * Stride
      BY <1>2, <2>1
    <2>3. (2 * s.cap) * Stride <= (2 * s.cap) * SliceSize
      BY <1>2, <2>1
    <2> QED
      BY <1>2, <2>1, <2>2, <2>3
  <1>5. /\ (s.len + 1) * Stride \in Nat /\ s.cap * Stride \in Nat
        /\ (2 * s.cap) * SliceSize \in Nat
    BY <1>2
  <1> QED
    BY <1>1, <1>3, <1>4, <1>5 DEF TooMuch, TwiceCap

\* With such items, appends to windows that show something, and constant indexes inside
\* the array, no step leaves the arrays.
LEMMA InBoundsStep ==
  ASSUME ItemsFit, NonemptyAppends, IndexesInside, IInv, InBounds, [Next]_vars
  PROVE  InBounds'
PROOF
  <1> SUFFICES ASSUME status' = "undefined", Next PROVE FALSE
    BY DEF InBounds, vars
  <1>1. OverrunsOnly
    BY OverrunsStep
  <1>2. ASSUME NEW p \in Places, NEW items \in Literals \cup {<< >>}, MakeSlice(p, items)
        PROVE  FALSE
    <2>1. << >> \in Seq(Values)
      OBVIOUS
    <2>2. Len(items) \in Nat
      BY <2>1, DataAssumption
    <2> DEFINE n == Len(items)
               cap == InitialCap(n)
    <2>3. cap \in Nat /\ n <= cap
      BY <2>2 DEF InitialCap
    <2>4. n * Stride > cap * ItemSize
      BY <1>1, <1>2 DEF OverrunsOnly
    <2> HIDE DEF n, cap
    <2>5. Stride \in Nat /\ ItemSize \in Nat /\ Stride <= ItemSize /\ n \in Nat
      BY <2>2, SizeAssumption DEF ItemsFit, n
    <2>6. n * Stride <= cap * Stride
      BY <2>3, <2>5
    <2>7. cap * Stride <= cap * ItemSize
      BY <2>3, <2>5
    <2> QED
      BY <2>3, <2>4, <2>5, <2>6, <2>7
  <1>3. ASSUME NEW p \in Places, NEW q \in Places \cap DOMAIN slices, NEW item \in Values,
               AppendTo(p, q, item)
        PROVE  FALSE
    <2>1. TooMuch(slices[q])
      BY <1>1, <1>3 DEF OverrunsOnly
    <2>2. Fits(mem, slices[q]) /\ slices[q].cap > 0
      BY DEF IInv, FitsPlace
    <2> QED
      BY <2>1, <2>2, Fitting DEF Fits
  <1>4. ASSUME NEW p \in Places, NEW b \in AppendBounds, NEW item \in Values,
               AppendToWindow(p, b[1], b[2], item)
        PROVE  FALSE
    <2> DEFINE s == Window(b[1], b[2])
    <2>1. TooMuch(s)
      BY <1>1, <1>4 DEF OverrunsOnly
    <2>2. b[1] \in Nat /\ b[2] \in Nat /\ b[1] < b[2]
      BY DataAssumption DEF NonemptyAppends
    <2>3. s.len \in Nat /\ s.cap = s.len /\ s.cap > 0
      BY <2>2 DEF Window, Slice
    <2> HIDE DEF s
    <2> QED
      BY <2>1, <2>3, Fitting
  <1>5. ASSUME NEW v \in DOMAIN slices, NEW k \in Indexes \cup WindowIndexes,
               NEW item \in Values, Store(v, k, item)
        PROVE  FALSE
    BY <1>1, <1>5 DEF OverrunsOnly
  <1>6. ASSUME NEW k \in Indexes, NEW item \in Values, StoreInArray(k, item) PROVE FALSE
    BY <1>1, <1>6 DEF OverrunsOnly
  <1>7. ASSUME NEW k \in ConstIndexes, NEW item \in Values, StoreAtConstant(k, item)
        PROVE  FALSE
    BY <1>1, <1>7 DEF OverrunsOnly, IndexesInside
  <1>8. (\E w \in Windows, b \in WindowBounds : MakeWindow(w, b[1], b[2]))
        \/ (\E p, q : Assign(p, q)) => FALSE
    BY DEF MakeWindow, Assign, InBounds
  <1> QED
    BY <1>2, <1>3, <1>4, <1>5, <1>6, <1>7, <1>8 DEF Next

\* Without the three ways out - items of at most the size counted for them, windows
\* that show something, and constant indexes inside the array - no program reaches
\* memory outside its arrays through slices (slice.go:220-336, array.go:158-175).
THEOREM MemorySafe ==
  ASSUME ItemsFit, NonemptyAppends, IndexesInside
  PROVE  Spec => []InBounds
PROOF
  <1>1. Init => InBounds
    BY DEF Init, InBounds
  <1>2. IInv /\ InBounds /\ [Next]_vars => InBounds'
    BY InBoundsStep
  <1> QED
    BY <1>1, <1>2, SlicesInvariant, PTL DEF Spec

-----------------------------------------------------------------------------
(* Refinement *)

\* The programs whose slices are those of Go: they append to windows from the
\* start of `a' only, or to empty ones, which leads out of memory; keep at most one
\* slice out of variables; and index within the width of an i32, and windows from 0.
Supported ==
  /\ \A b \in AppendBounds : b[1] = 0 \/ b[1] = b[2]
  /\ \A p, q \in Fields : p = q
  /\ \A k \in Indexes \cup WindowIndexes : Trunc(k) = k
  /\ \A k \in WindowIndexes : k >= 0

\* A prefix, item by item.
LEMMA PrefixByItems ==
  ASSUME NEW S, NEW s \in Seq(S), NEW t \in Seq(S), Len(s) <= Len(t),
         \A k \in 1 .. Len(s) : s[k] = t[k]
  PROVE  IsPrefix(s, t)
PROOF
  <1>1. SubSeq(s, 1, Len(s)) = SubSeq(t, 1, Len(s))
    OBVIOUS
  <1> QED
    BY <1>1 DEF IsPrefix

\* Binding a header binds its view.
LEMMA BindView ==
  ASSUME NEW p, NEW s, Bind(p, s)
  PROVE  Go!Bind(p, View(s))
  BY DEF Bind, Go!Bind, View

\* The initial states are initial states of GoSlices.
LEMMA InitView ==
  ASSUME Zeroed
  PROVE  Init => Go!Init
PROOF
  <1> SUFFICES ASSUME Init PROVE Go!Init
    OBVIOUS
  <1>1. PICK form \in ArrayForms : mem = << [k \in 1 .. ArrayLen |-> FirstItem(form)] >>
    BY DEF Init
  <1>2. FirstItem(form) = Zero
    BY <1>1 DEF FirstItem, Zeroed
  <1>3. Len(mem) = 1 /\ \A k \in DOMAIN mem[1] : mem[1][k] = Zero
    BY <1>1, <1>2
  <1> QED
    BY <1>3 DEF Init, Go!Init, Outcome

\* An array that is added and starts with items is fresh.
LEMMA FreshView ==
  ASSUME Memory(mem), NEW block \in Seq(Item), mem' = Append(mem, block),
         NEW items \in Seq(Item), Len(items) <= Len(block),
         \A k \in 1 .. Len(items) : block[k] = items[k]
  PROVE  Go!Fresh(items)
PROOF
  <1>1. mem \in Seq(Seq(Item)) /\ Len(mem) \in Nat
    BY DEF Memory
  <1>2. /\ Len(mem') = Len(mem) + 1
        /\ \A b \in DOMAIN mem : mem'[b] = mem[b]
        /\ mem'[Len(mem) + 1] = block
    BY <1>1
  <1>3. IsPrefix(items, block)
    BY PrefixByItems
  <1> QED
    BY <1>2, <1>3 DEF Go!Fresh, Go!IsPrefix, IsPrefix

\* A slice that is made is made for GoSlices.
LEMMA MakeView ==
  ASSUME IInv, NEW p \in Places, NEW items \in Literals \cup {<< >>}, items \in Seq(Values),
         MakeSlice(p, items), ~Undefined
  PROVE  Go!Next
PROOF
  <1>1. Memory(mem) /\ status = "running"
    BY DEF IInv, MakeSlice
  <1>2. PICK cap \in Nat, block \in Seq(Item) :
           /\ cap > 0 /\ Len(items) <= cap
           /\ Len(items) <= Len(block) /\ Holds(Len(block), cap)
           /\ \A k \in 1 .. Len(items) : block[k] = items[k]
           /\ mem' = Append(mem, block)
           /\ Bind(p, Slice(Len(items), cap, 0, Len(mem) + 1))
           /\ UNCHANGED status
    BY <1>1, MakeSliceEffect
  <1>3. items \in Seq(Item) /\ Len(items) \in Nat /\ Len(items) <= Len(block)
    BY <1>2 DEF Item
  <1>4. Go!Fresh(items)
    BY <1>1, <1>2, <1>3, FreshView
  <1>5. Go!Bind(p, View(Slice(Len(items), cap, 0, Len(mem) + 1)))
    BY <1>2, BindView
  <1>6. View(Slice(Len(items), cap, 0, Len(mem) + 1)) = Go!View(Len(mem) + 1, 0, Len(items))
    BY DEF Go!View, View, Slice
  <1>7. Go!Make(p, items)
    BY <1>1, <1>2, <1>4, <1>5, <1>6 DEF Go!Make, Outcome
  <1> QED
    BY <1>7 DEF Go!Next

\* A copy shows the items of the view and the new one.
LEMMA CopyView ==
  ASSUME IInv, NEW p \in Places, NEW s, Fits(mem, s), s.offset = 0,
         NEW item \in Values, CopyAndAppend(p, s, item), ~Undefined
  PROVE  Go!Copy(p, View(s), item) /\ UNCHANGED status
PROOF
  <1>1. Memory(mem) /\ Len(mem) \in Nat /\ mem \in Seq(Seq(Item))
    BY DEF IInv, Memory
  <1>2. /\ s.len \in Nat /\ s.cap \in Nat /\ s.len <= s.cap /\ s.backing \in 1 .. Len(mem)
        /\ s.len <= Len(mem[s.backing]) /\ Len(mem[s.backing]) \in Nat
    BY <1>1 DEF Fits
  <1>3. PICK cap \in Nat, block \in Seq(Item) :
           /\ s.len + 1 <= cap /\ s.len + 1 <= Len(block) /\ Holds(Len(block), cap)
           /\ s.len <= Len(mem[s.backing])
           /\ \A k \in 1 .. s.len : block[k] = mem[s.backing][k]
           /\ block[s.len + 1] = item
           /\ mem' = Append(mem, block)
           /\ Bind(p, Slice(s.len + 1, cap, 0, Len(mem) + 1))
           /\ UNCHANGED status
    BY <1>1, CopyEffect
  <1> DEFINE old == SubSeq(mem[s.backing], 1, s.len)
             items == Append(old, item)
  <1>4. mem[s.backing] \in Seq(Item) /\ item \in Item
    BY <1>1, <1>2 DEF Item
  <1>5. /\ old \in Seq(Item) /\ Len(old) = s.len
        /\ \A k \in 1 .. s.len : old[k] = mem[s.backing][k]
    <2> DEFINE array == mem[s.backing]
    <2>1. array \in Seq(Item) /\ s.len <= Len(array) /\ s.len \in Nat
      BY <1>2, <1>4
    <2> HIDE DEF array
    <2>2. /\ SubSeq(array, 1, s.len) \in Seq(Item) /\ Len(SubSeq(array, 1, s.len)) = s.len
          /\ \A k \in 1 .. s.len : SubSeq(array, 1, s.len)[k] = array[k]
      BY <2>1
    <2> QED
      BY <2>2 DEF array
  <1> HIDE DEF old
  <1>6. /\ items \in Seq(Item) /\ Len(items) = s.len + 1
        /\ \A k \in 1 .. s.len : items[k] = mem[s.backing][k]
        /\ items[s.len + 1] = item
    BY <1>2, <1>4, <1>5, SMTT(20)
  <1> HIDE DEF items
  <1>7. Len(items) <= Len(block) /\ \A k \in 1 .. Len(items) : block[k] = items[k]
    <2>1. Len(block) \in Nat
      OBVIOUS
    <2>2. ASSUME NEW k \in 1 .. s.len + 1 PROVE block[k] = items[k]
      <3>1. k \in 1 .. s.len \/ k = s.len + 1
        BY <1>2
      <3> QED
        BY <1>3, <1>6, <3>1
    <2>3. Len(items) <= Len(block)
      BY <1>2, <1>3, <1>6, <2>1
    <2> QED
      BY <1>6, <2>2, <2>3
  <1>8. Go!Fresh(items)
    BY <1>1, <1>3, <1>6, <1>7, FreshView
  <1>9. items = Append(Go!Shown(View(s)), item)
    BY <1>2 DEF items, old, Go!Shown, View
  <1>10. Go!Bind(p, View(Slice(s.len + 1, cap, 0, Len(mem) + 1)))
    BY <1>3, BindView
  <1>11. View(Slice(s.len + 1, cap, 0, Len(mem) + 1)) = Go!View(Len(mem) + 1, 0, View(s).len + 1)
    BY DEF Go!View, View, Slice
  <1> QED
    BY <1>3, <1>8, <1>9, <1>10, <1>11 DEF Go!Copy

\* An append is one of the two kinds GoSlices allows.
LEMMA AppendView ==
  ASSUME IInv, Supported, NEW p \in Places, NEW q \in Places \cap DOMAIN slices,
         NEW item \in Values, AppendTo(p, q, item), ~Undefined
  PROVE  Go!Next
PROOF
  <1> DEFINE s == slices[q]
             views == [r \in DOMAIN slices |-> View(slices[r])]
  <1>1. Fits(mem, s) /\ s.cap > 0 /\ s.offset = 0
    BY DEF IInv, FitsPlace
  <1>2. status = "running" /\ DOMAIN views = DOMAIN slices /\ views[q] = View(s)
    BY DEF AppendTo
  <1>3. CASE SameIdent(p, q) /\ ShouldAppendToExisting(slices[q])
    <2>1. p = q
      BY <1>3 DEF SameIdent, Supported
    <2>2. AppendToExisting(p, s, item)
      BY <1>3 DEF AppendTo
    <2>3. /\ s.len \in Nat /\ s.offset = 0 /\ s.backing \in 1 .. Len(mem)
          /\ s.len + 1 \in 1 .. Len(mem[s.backing])
          /\ mem' = [mem EXCEPT ![s.backing][s.len + 1] = item]
          /\ Bind(p, [s EXCEPT !.len = s.len + 1])
          /\ UNCHANGED status
      BY <1>3, <2>2, ExistingEffect
    <2>4. Go!Bind(p, View([s EXCEPT !.len = s.len + 1]))
      BY <2>3, BindView
    <2>5. s \in [len : Nat, cap : Nat, offset : Nat, backing : 1 .. Len(mem)]
      BY <1>1 DEF Fits
    <2> HIDE DEF s, views
    <2>6. View([s EXCEPT !.len = s.len + 1]) = Go!View(s.backing, s.offset, s.len + 1)
      BY <2>5 DEF View, Go!View
    <2>7. Len(mem') = Len(mem) /\ Len(mem[s.backing]) \in Nat
      <3>1. mem \in Seq(Seq(Item))
        BY DEF IInv, Memory
      <3> QED
        BY <2>3, <3>1
    <2> DEFINE u == View(s)
    <2>8. u.array = s.backing /\ u.offset = s.offset /\ u.len = s.len
      BY DEF View
    <2> HIDE DEF u
    <2>9. u.offset + u.len + 1 = s.len + 1 /\ u.offset + u.len < Len(mem[u.array])
      BY <2>3, <2>7, <2>8
    <2>10. mem' = [mem EXCEPT ![u.array][u.offset + u.len + 1] = item]
      BY <2>3, <2>8, <2>9
    <2>11. Go!Bind(p, Go!View(u.array, u.offset, u.len + 1))
      BY <2>4, <2>6, <2>8
    <2>12. Go!Extend(p, u, item)
      BY <2>7, <2>9, <2>10, <2>11 DEF Go!Extend
    <2>13. Go!AppendTo(p, p, item)
      BY <1>2, <2>1, <2>3, <2>12 DEF Go!AppendTo, views, u, Outcome
    <2> QED
      BY <2>1, <2>13 DEF Go!Next
  <1>4. CASE ~(SameIdent(p, q) /\ ShouldAppendToExisting(slices[q]))
    <2>1. CopyAndAppend(p, s, item)
      BY <1>4 DEF AppendTo
    <2> HIDE DEF s
    <2>2. Go!Copy(p, View(s), item) /\ UNCHANGED status
      BY <1>1, <2>1, CopyView
    <2>3. Go!AppendTo(p, q, item)
      BY <1>2, <2>2 DEF Go!AppendTo, s, Outcome
    <2> QED
      BY <1>2, <2>3 DEF Go!Next
  <1> QED
    BY <1>3, <1>4

\* There is nothing to double of an empty window: the item has no place in the block.
LEMMA EmptyAppend ==
  ASSUME NEW p \in Places, NEW i \in Nat, NEW item \in Values,
         CopyAndAppend(p, Window(i, i), item)
  PROVE  Undefined
PROOF
  <1> DEFINE s == Window(i, i)
  <1>1. s.len = 0 /\ s.cap = 0
    BY DEF Window, Slice
  <1> HIDE DEF s
  <1>2. GrownSpace(s) = 0
    BY <1>1, SizeAssumption DEF GrownSpace, TwiceCap
  <1>3. 0 \div Stride = 0
    BY SizeAssumption
  <1>4. ~(s.len < GrownSpace(s) \div Stride)
    BY <1>1, <1>2, <1>3
  <1>5. CopyAndAppend(p, s, item)
    BY DEF s
  <1> QED
    BY <1>4, <1>5 DEF CopyAndAppend

\* An append to a window from the start of the array is a copy.
LEMMA AppendToWindowView ==
  ASSUME IInv, Supported, NEW p \in Places, NEW b \in AppendBounds,
         NEW item \in Values, AppendToWindow(p, b[1], b[2], item), ~Undefined
  PROVE  Go!Next
PROOF
  <1> DEFINE s == Window(b[1], b[2])
  <1>0. /\ b[1] \in Nat /\ b[2] \in Nat /\ b[1] <= b[2] /\ b[2] <= ArrayLen
        /\ ArrayLen \in Nat
    BY DataAssumption
  <1>1. b[1] = 0 /\ b[2] \in Nat /\ b[1] <= b[2] /\ b[2] <= ArrayLen /\ ArrayLen \in Nat
    BY <1>0, EmptyAppend DEF Supported, AppendToWindow
  <1>2. Fits(mem, s) /\ s.offset = 0
    BY <1>1, WindowFits DEF IInv, Window, Slice
  <1>3. CopyAndAppend(p, s, item) /\ status = "running"
    BY DEF AppendToWindow
  <1>4. View(s) = Go!View(1, b[1], b[2] - b[1])
    BY DEF View, Go!View, Window, Slice
  <1> HIDE DEF s
  <1>5. Go!Copy(p, View(s), item) /\ UNCHANGED status
    BY <1>2, <1>3, CopyView
  <1>6. Go!AppendToSlice(p, b[1], b[2], item)
    BY <1>3, <1>4, <1>5 DEF Go!AppendToSlice, Outcome
  <1>7. Len(mem[1]) = ArrayLen
    BY DEF IInv, Memory
  <1> QED
    BY <1>1, <1>6, <1>7 DEF Go!Next

\* A window is a slice of the array.
LEMMA MakeWindowView ==
  ASSUME IInv, NEW w \in Windows, NEW b \in WindowBounds, MakeWindow(w, b[1], b[2])
  PROVE  Go!Next
PROOF
  <1>1. b[1] \in Nat /\ b[2] \in Nat /\ b[1] <= b[2] /\ b[2] <= ArrayLen /\ ArrayLen \in Nat
    BY DataAssumption
  <1>2. Go!Bind(w, View(Window(b[1], b[2])))
    BY BindView DEF MakeWindow
  <1>3. View(Window(b[1], b[2])) = Go!View(1, b[1], b[2] - b[1])
    BY DEF View, Go!View, Window, Slice
  <1>4. Go!Slice(w, b[1], b[2])
    BY <1>2, <1>3 DEF Go!Slice, MakeWindow, Outcome
  <1>5. Len(mem[1]) = ArrayLen
    BY DEF IInv, Memory
  <1> QED
    BY <1>1, <1>4, <1>5 DEF Go!Next

\* An assignment is one.
LEMMA AssignView ==
  ASSUME NEW p \in Places \cup Windows, NEW q \in DOMAIN slices, Assign(p, q)
  PROVE  Go!Next
PROOF
  <1>1. Go!Bind(p, View(slices[q]))
    BY BindView DEF Assign
  <1>2. Go!Assign(p, q)
    BY <1>1 DEF Go!Assign, Assign, Outcome
  <1> QED
    BY <1>2 DEF Go!Next

\* The check of an index is that of Go.
LEMMA StoreView ==
  ASSUME IInv, Supported, NEW v \in DOMAIN slices, NEW k \in Indexes \cup WindowIndexes,
         v \in Places \/ k \in WindowIndexes,
         NEW item \in Values, Store(v, k, item)
  PROVE  Go!Next
PROOF
  <1> DEFINE s == slices[v]
  <1>1. Fits(mem, s) /\ FitsPlace(v, s) /\ mem \in Seq(Seq(Item))
    BY DEF IInv, Memory
  <1>2. status = "running"
    BY DEF Store
  <1>3. k \in Int /\ Trunc(k) = k /\ (s.offset = 0 \/ k >= 0)
    BY <1>1, DataAssumption DEF Supported, FitsPlace
  <1>4. /\ s.len \in Nat /\ s.cap \in Nat /\ s.offset \in Nat /\ s.backing \in 1 .. Len(mem)
        /\ s.len <= s.cap /\ s.offset + s.len <= Len(mem[s.backing])
        /\ Len(mem[s.backing]) \in Nat
    BY <1>1 DEF Fits
  <1>5. OutOfRange(s, k) <=> ~(0 <= k /\ k < s.len)
    <2> HIDE DEF s
    <2> QED
      BY <1>3, <1>4 DEF OutOfRange, Position
  <1>6. CASE OutOfRange(s, k)
    <2>1. Panic
      BY <1>6 DEF Store
    <2>2. Len(mem') = Len(mem) /\ Go!Panic
      BY <2>1 DEF Panic, Go!Panic, Outcome
    <2>3. Go!Store(v, k, item)
      BY <1>2, <1>5, <1>6, <2>2 DEF Go!Store, View, Outcome
    <2> QED
      BY <2>3 DEF Go!Next
  <1>7. CASE ~OutOfRange(s, k)
    <2>1. Write(s.backing, Position(s, k), item)
      BY <1>7 DEF Store
    <2>2. Position(s, k) + 1 = s.offset + k + 1 /\ Position(s, k) < Len(mem[s.backing])
      <3> HIDE DEF s
      <3> QED
        BY <1>3, <1>4, <1>5, <1>7 DEF Position
    <2>3. mem' = [mem EXCEPT ![s.backing][s.offset + k + 1] = item]
          /\ UNCHANGED <<slices, status>>
      <3> HIDE DEF s
      <3> QED
        BY <2>1, <2>2 DEF Write
    <2>4. Len(mem') = Len(mem)
      BY <1>1, <2>3
    <2>5. Go!Store(v, k, item)
      BY <1>2, <1>5, <1>7, <2>3, <2>4 DEF Go!Store, View, Outcome
    <2> QED
      BY <2>5 DEF Go!Next
  <1> QED
    BY <1>6, <1>7

\* The check of an index into the array is that of Go, too.
LEMMA ArrayView ==
  ASSUME IInv, NEW k \in Indexes \cup ConstIndexes, NEW item \in Values,
         \/ StoreInArray(k, item)
         \/ k \in ConstIndexes /\ StoreAtConstant(k, item),
         ~Undefined
  PROVE  Go!Next
PROOF
  <1>1. Len(mem[1]) = ArrayLen /\ ArrayLen \in Nat /\ k \in Int
    BY DataAssumption DEF IInv, Memory
  <1>2. \/ (k < 0 \/ k >= ArrayLen) /\ Panic
        \/ 0 <= k /\ k < ArrayLen /\ Write(1, k, item)
    BY <1>1, DataAssumption DEF StoreInArray, StoreAtConstant, AcceptedIndex, Write
  <1>3. status = "running"
    BY DEF StoreInArray, StoreAtConstant
  <1>4. Go!StoreInArray(k, item)
    BY <1>1, <1>2, <1>3 DEF Go!StoreInArray, Go!Panic, Panic, Write, Outcome
  <1> QED
    BY <1>4 DEF Go!Next

\* Nothing happens once the program has stopped.
LEMMA OnlyRunning == Next => status = "running"
  BY DEF Next, MakeSlice, MakeWindow, Assign, AppendTo, AppendToWindow, Store, StoreInArray,
         StoreAtConstant

\* Every step of Slices is a step of GoSlices, or changes nothing it sees.
LEMMA NextView ==
  ASSUME IInv, Supported, [Next]_vars
  PROVE  [Go!Next]_(Go!vars)
PROOF
  <1>10. CASE Undefined
    <2>1. status = "running" \/ status' = status
      BY OnlyRunning DEF vars
    <2>2. UNCHANGED Go!vars
      BY <1>10, <2>1 DEF Undefined, Go!vars, Outcome
    <2> QED
      BY <2>2
  <1> SUFFICES ASSUME ~Undefined PROVE [Go!Next]_(Go!vars)
    BY <1>10
  <1>0. ~Undefined
    OBVIOUS
  <1>1. CASE UNCHANGED vars
    BY <1>1 DEF vars, Go!vars, Outcome
  <1>2. ASSUME NEW p \in Places, NEW items \in Literals \cup {<< >>}, MakeSlice(p, items)
        PROVE  Go!Next
    <2>1. << >> \in Seq(Values)
      OBVIOUS
    <2>2. items \in Seq(Values)
      BY <2>1, DataAssumption
    <2> QED
      BY <1>2, <2>2, <1>0, MakeView
  <1>3. ASSUME NEW w \in Windows, NEW b \in WindowBounds, MakeWindow(w, b[1], b[2])
        PROVE  Go!Next
    BY <1>3, MakeWindowView
  <1>4. ASSUME NEW p \in Places \cup Windows, NEW q \in DOMAIN slices, Assign(p, q)
        PROVE  Go!Next
    BY <1>4, AssignView
  <1>5. ASSUME NEW p \in Places, NEW q \in Places \cap DOMAIN slices, NEW item \in Values,
               AppendTo(p, q, item)
        PROVE  Go!Next
    BY <1>5, <1>0, AppendView
  <1>6. ASSUME NEW p \in Places, NEW b \in AppendBounds, NEW item \in Values,
               AppendToWindow(p, b[1], b[2], item)
        PROVE  Go!Next
    BY <1>6, <1>0, AppendToWindowView
  <1>7. ASSUME NEW v \in DOMAIN slices, NEW k \in Indexes \cup WindowIndexes,
               v \in Places \/ k \in WindowIndexes,
               NEW item \in Values, Store(v, k, item)
        PROVE  Go!Next
    BY <1>7, StoreView
  <1>8. ASSUME NEW k \in Indexes, NEW item \in Values, StoreInArray(k, item)
        PROVE  Go!Next
    BY <1>8, <1>0, ArrayView
  <1>9. ASSUME NEW k \in ConstIndexes, NEW item \in Values, StoreAtConstant(k, item)
        PROVE  Go!Next
    BY <1>9, <1>0, ArrayView
  <1> QED
    BY <1>1, <1>2, <1>3, <1>4, <1>5, <1>6, <1>7, <1>8, <1>9 DEF Next

\* The emitted code implements slices as GoSlices describes them, for programs of
\* any size in the supported subset, items of any size and an array set to zero, as long
\* as they do not leave the arrays (slice.go, array.go).
THEOREM ImplementsGo ==
  ASSUME Zeroed, Supported
  PROVE  Spec => GoView
PROOF
  <1>1. Init => Go!Init
    BY InitView
  <1>2. IInv /\ [Next]_vars => [Go!Next]_(Go!vars)
    BY NextView
  <1> QED
    BY <1>1, <1>2, SlicesInvariant, PTL DEF Spec, GoView, Go!Spec

=============================================================================
