------------------------------ MODULE GoSlices ------------------------------
(***************************************************************************)
(* What slices promise: arrays, and variables that are views of them.      *)
(*                                                                         *)
(* The Go specification lets several slices share an array, and an append  *)
(* either writes behind the slice or takes a new array.  tre promises more *)
(* (compiler/compiler/slice.go:154-156): only the slice that is assigned   *)
(* to itself may be extended in its array, any other append copies first.  *)
(* Capacities are left open; they decide which of the two happens.         *)
(***************************************************************************)
EXTENDS Integers, Sequences, SequencesExt

CONSTANTS
  Vars,      \* the slice variables
  Values,    \* what is stored in them,
  Zero,      \*   and what an array variable holds at first
  Literals,  \* the sequences of values slices are made of
  Indexes    \* the indexes programs use

VARIABLES
  arrays,    \* the arrays; the first belongs to the array variable of the program
  slices,    \* the declared variables, each a view of an array
  status     \* "running", or "panicked": the program has stopped

vars == <<arrays, slices, status>>

View(a, offset, len) == [array |-> a, offset |-> offset, len |-> len]

\* The items view s shows.
Shown(s) == SubSeq(arrays[s.array], s.offset + 1, s.offset + s.len)

Bind(v, s) ==
  slices' = [u \in DOMAIN slices \cup {v} |-> IF u = v THEN s ELSE slices[u]]

\* A new array starts with `items'; what follows them is not specified.
Fresh(items) ==
  /\ Len(arrays') = Len(arrays) + 1
  /\ \A a \in DOMAIN arrays : arrays'[a] = arrays[a]
  /\ IsPrefix(items, arrays'[Len(arrays) + 1])

-----------------------------------------------------------------------------

\* var v []T and v := []T{...}
Make(v, items) ==
  /\ status = "running" /\ UNCHANGED status
  /\ Fresh(items)
  /\ Bind(v, View(Len(arrays) + 1, 0, Len(items)))

\* v := a[i:j], of the array variable
Slice(v, i, j) ==
  /\ status = "running" /\ UNCHANGED <<arrays, status>>
  /\ Bind(v, View(1, i, j - i))

\* v = w
Assign(v, w) ==
  /\ status = "running" /\ UNCHANGED <<arrays, status>>
  /\ Bind(v, slices[w])

Extend(v, s, item) ==
  /\ Len(arrays') = Len(arrays)
  /\ s.offset + s.len < Len(arrays[s.array])
  /\ arrays' = [arrays EXCEPT ![s.array][s.offset + s.len + 1] = item]
  /\ Bind(v, View(s.array, s.offset, s.len + 1))

Copy(v, s, item) ==
  /\ Fresh(Append(Shown(s), item))
  /\ Bind(v, View(Len(arrays) + 1, 0, s.len + 1))

\* v = append(w, item)
AppendTo(v, w, item) ==
  /\ status = "running" /\ UNCHANGED status
  /\ \/ v = w /\ Extend(v, slices[w], item)
     \/ Copy(v, slices[w], item)

\* v = append(a[i:j], item)
AppendToSlice(v, i, j, item) ==
  /\ status = "running" /\ UNCHANGED status
  /\ Copy(v, View(1, i, j - i), item)

Panic == status' = "panicked" /\ UNCHANGED <<arrays, slices>>

\* v[k] = item.  (That no array is added is said first to spare TLC the rest.)
Store(v, k, item) ==
  LET s == slices[v]
  IN  /\ status = "running" /\ Len(arrays') = Len(arrays)
      /\ IF 0 <= k /\ k < s.len
           THEN /\ arrays' = [arrays EXCEPT ![s.array][s.offset + k + 1] = item]
                /\ UNCHANGED <<slices, status>>
           ELSE Panic

\* a[k] = item
StoreInArray(k, item) ==
  /\ status = "running"
  /\ IF 0 <= k /\ k < Len(arrays[1])
       THEN /\ arrays' = [arrays EXCEPT ![1][k + 1] = item]
            /\ UNCHANGED <<slices, status>>
       ELSE Panic

-----------------------------------------------------------------------------

Init ==
  /\ Len(arrays) = 1 /\ \A k \in DOMAIN arrays[1] : arrays[1][k] = Zero
  /\ slices = << >>
  /\ status = "running"

Next ==
  \/ \E k \in Indexes, item \in Values : StoreInArray(k, item)
  \/ \E v \in DOMAIN slices, k \in Indexes, item \in Values : Store(v, k, item)
  \/ \E v \in Vars, w \in DOMAIN slices : Assign(v, w)
  \/ \E v \in Vars, w \in DOMAIN slices, item \in Values : AppendTo(v, w, item)
  \/ \E v \in Vars, items \in Literals : Make(v, items)
  \/ \E v \in Vars, i, j \in 0 .. Len(arrays[1]) : i <= j /\ Slice(v, i, j)
  \/ \E v \in Vars, i, j \in 0 .. Len(arrays[1]), item \in Values :
       i <= j /\ AppendToSlice(v, i, j, item)

Spec == Init /\ [][Next]_vars

=============================================================================
