------------------------------- MODULE Escape -------------------------------
(***************************************************************************)
(* Escape: the pass escape.  The allocation of a variable that a function  *)
(* returns gets one field more, Escapes.                                   *)
(***************************************************************************)
EXTENDS Integers, Sequences, FiniteSetsExt

RECURSIVE findEscaping(_)

\* A wrong variant: an address does not escape.
findEscapingNames(node) == IF node[1] = "Name" THEN {node[3]} ELSE {}

\* Only names, and the addresses of names, escape; the code's map is a set here.
findEscaping(node) ==
  CASE node[1] = "Name"         -> {node[3]}
    [] node[1] = "GetReference" -> findEscaping(node[2])
    [] OTHER                    -> {}

\* the values returned at the top level of a body
escapingVars(body) ==
  UNION {UNION {findEscaping(body[k][2][n]) : n \in DOMAIN body[k][2]}
           : k \in {j \in DOMAIN body : body[j][1] = "Return"}}

\* where a name is allocated, at the top level of a body
allocatedVars(body, name) ==
  {k \in DOMAIN body : body[k][1] = "Alloc" /\ \E n \in DOMAIN body[k][2] : body[k][2][n] = name}

Escapes(alloc) == Len(alloc) = 6

\* The map from names to allocations keeps the last one of a name.
Mark(body) ==
  LET marked == {Max(allocatedVars(body, name)) :
                   name \in {n \in escapingVars(body) : allocatedVars(body, n) # {}}}
  IN  [k \in DOMAIN body |-> IF k \in marked THEN Append(body[k], TRUE) ELSE body[k]]

\* escape.Escape, on the instructions of a file
EscapePass(instructions) ==
  [k \in DOMAIN instructions |->
     IF instructions[k][1] = "DefineFunc" THEN [instructions[k] EXCEPT ![6] = Mark(@)]
     ELSE instructions[k]]
=============================================================================
