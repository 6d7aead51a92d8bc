----------------------------- MODULE MCPackages -----------------------------
(* Instances of Packages for TLC. *)
EXTENDS Packages

CONSTANTS app, vendored, a, b, own

MCPaths == {"main", "external", "A", "A_B", "missing"}

\* Package A_B is in vendor/ of the program, and in the Go root, where A is.
MCFound ==
  [d \in {app, vendored, a, b} |->
     [p \in MCPaths |-> CASE p = "A" -> <<a>>
                          [] p = "A_B" /\ d = app -> <<vendored, b>>
                          [] p = "A_B" -> <<b>>
                          [] OTHER -> <<>>]]

Layout(ofApp, ofA, ofB) ==
  [d \in Dirs |-> CASE d = app -> ofApp [] d = a -> ofA [] d = b -> ofB [] OTHER -> <<>>]

\* A chain, a diamond with a vendored copy, a cycle, and a package that is not found.
MCLayouts ==
  {Layout(<<"external", "A">>, <<"A_B">>, <<>>),
   Layout(<<"A", "A_B">>, <<"A_B">>, <<>>),
   Layout(<<"A">>, <<"A_B">>, <<"A">>),
   Layout(<<"missing">>, <<>>, <<>>)}

OneImport == {Layout(<<"A">>, <<>>, <<>>)}

D(form, names, type, uses, params) ==
  [form |-> form, names |-> names, type |-> type, uses |-> uses, params |-> params]

Ref(p, x) == [pkg |-> p, name |-> x]

InPackage == {{}, {Ref(own, "P")}, {Ref(own, "q")}}
Uses == InPackage \cup {{Ref("A", "P")}, {Ref("A", "q")}, {Ref("A_B", "P")}, {Ref("external", "P")}}

TypeDecls   == {D("type", <<"P">>, own, {}, {})}
ConstDecls  == {D("const", <<"q">>, own, {}, {})}
ValueDecls  == {D("value", <<"q">>, own, u, {}) : u \in Uses}
                 \cup {D("value", <<"P">>, own, u, {}) : u \in InPackage}
IndexDecls  == {D("index", <<"q">>, own, {Ref(own, "P")}, {}), D("index", <<"q">>, own, {}, {})}
StructDecls == {D("pointer", <<"q">>, Ref(own, "P"), {}, {}),
                D("struct", <<"q">>, Ref(own, "P"), {}, {}),
                D("struct", <<"q">>, Ref("A", "P"), {}, {})}
ZeroDecls   == {D("zero", <<"P">>, own, {}, {}), D("zero", <<"P">>, Ref("A", "P"), {}, {})}
MultiDecls  == {D("multi", <<"q", "r">>, own, {Ref(own, "P")}, {})}
FuncDecls   == {D("func", <<"P">>, own, u, {}) : u \in Uses}
                 \cup {D("func", <<x>>, own, u, {}) : x \in {"init", "main"}, u \in InPackage}
                 \cup {D("func", <<"B_P">>, own, {}, {})}
ShadowDecls == {D("func", <<"q">>, own, {r}, {"P"}) : r \in {Ref(own, "P"), Ref("A", "P")}}
EscapeDecls == {D("func", <<"q">>, t, {}, {}) : t \in {Ref(own, "P"), Ref("A", "P")}}

MCDecls ==
  TypeDecls \cup ZeroDecls \cup ConstDecls \cup ValueDecls \cup IndexDecls \cup StructDecls
    \cup MultiDecls \cup FuncDecls \cup ShadowDecls \cup EscapeDecls

=============================================================================
