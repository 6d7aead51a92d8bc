-------------------------------- MODULE Steps --------------------------------
(***************************************************************************)
(* Steps: methods of a pass over a tree, as operators on the state of the  *)
(* pass.  A state is a record; what a method returns is in its field       *)
(* `res', and `end' is "" until a panic, or a loop that never ends.        *)
(***************************************************************************)

\* what follows a call that may not return
Then(p, F(_)) == IF p.end = "" THEN F(p) ELSE p

Panic(p)    == [p EXCEPT !.end = "panic"]
Hang(p)     == [p EXCEPT !.end = "hang"]
Ret(p, res) == [p EXCEPT !.res = res]
=============================================================================
