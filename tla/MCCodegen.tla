----------------------------- MODULE MCCodegen -----------------------------
(***************************************************************************)
(* Codegen and CodegenFlow for TLC: every program of at most MaxTokens     *)
(* opening and plain tokens, built of Statements and of the Extra forms.   *)
(***************************************************************************)
EXTENDS CodegenFlow

\* Statements for the runs that look at one form outside the supported subset.
Conditions == {"stmt", "if", "for", "append"}
Loops      == {"stmt", "if", "for", "break", "continue"}
=============================================================================
