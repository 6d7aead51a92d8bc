------------------------------ MODULE MCSlices ------------------------------
(* Instances of Slices for TLC. *)
EXTENDS Slices

CONSTANTS v, w, f, g, x, zero, one, junk

\* Strings, in units of four bytes: 16 bytes an item, 20 the compiler's idea of
\* the size of a header.
StringSize == 4
HeaderSize == 5

\* Interfaces: 24 bytes, counted as such, and as a header when a slice of them grows.
InterfaceSize == 6

ItemValues == {zero, one}
OneLiteral == {<<one>>}
TwoLiteral == {<<one, one>>}

\* Bounds of slices of an array of two.
OnlySecond == {<<1, 2>>}
Whole      == {<<0, 2>>}
WholeOrEmpty == Whole \cup {<<1, 1>>}

\* Before the first item, in every slice that is not empty, and behind the last
\* item of the array and of a slice of two.
SomeIndexes == {-1, 0, 2}

=============================================================================
